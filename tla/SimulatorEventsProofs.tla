------------------------ MODULE SimulatorEventsProofs ------------------------
(***************************************************************************)
(* The events of the simulator, for every value of the constants: between  *)
(* two HK packets of the downlink are the events of the first one's tick.  *)
(*                                                                         *)
(* The argument follows a tick through the loop. The model's latches say   *)
(* which limits it left exceeded and which mode it left, that is what the  *)
(* last HK packet said; so the events a tick detects are those a reader    *)
(* expects of the next HK packet; and while they are sent, what was sent   *)
(* and what is left are together what is expected, none twice.             *)
(***************************************************************************)
EXTENDS SimulatorProofs

HkBody == [mode : Mode, outside : SUBSET LimitEvent]

\* What an HK packet would say now.
Now == [mode |-> mode, outside |-> outside]

-----------------------------------------------------------------------------
(* Lists of events.                                                        *)

Ids(s) == {s[k].id : k \in 1 .. Len(s)}

\* A list of events, none twice, of a tick that ends in mode m.
OnceEach(s, m) ==
  /\ s \in Seq(EventType)
  /\ \A k, l \in 1 .. Len(s) : k # l => s[k].id # s[l].id
  /\ \A k \in 1 .. Len(s) : s[k].id = MODE_CHANGE => s[k].context = m

\* The places of a concatenation.
LEMMA ConcatPlaces ==
  ASSUME NEW s \in Seq(EventType), NEW t \in Seq(EventType)
  PROVE  /\ s \o t \in Seq(EventType) /\ Len(s \o t) \in Nat
         /\ \A k \in 1 .. Len(s) : k \in 1 .. Len(s \o t) /\ (s \o t)[k] = s[k]
         /\ \A k \in 1 .. Len(t) : /\ Len(s) + k \in 1 .. Len(s \o t)
                                   /\ (s \o t)[Len(s) + k] = t[k]
         /\ \A k \in 1 .. Len(s \o t) :
              k \in 1 .. Len(s) \/ \E l \in 1 .. Len(t) : k = Len(s) + l
<1>1. /\ Len(s) \in Nat /\ Len(t) \in Nat
      /\ s \o t \in Seq(EventType) /\ Len(s \o t) = Len(s) + Len(t)
      /\ \A k \in 1 .. Len(s) + Len(t) :
           (s \o t)[k] = IF k <= Len(s) THEN s[k] ELSE t[k - Len(s)]
  BY ConcatProperties
<1>2. ASSUME NEW k \in 1 .. Len(s \o t), k > Len(s)
      PROVE  \E l \in 1 .. Len(t) : k = Len(s) + l
  <2>1. k - Len(s) \in 1 .. Len(t) /\ k = Len(s) + (k - Len(s))
    BY <1>1, <1>2
  <2>. QED
    BY <2>1
<1>. QED
  BY <1>1, <1>2

LEMMA IdsConcat ==
  ASSUME NEW s \in Seq(EventType), NEW t \in Seq(EventType)
  PROVE  Ids(s \o t) = Ids(s) \cup Ids(t)
<1>. DEFINE c == s \o t
<1>1. /\ \A k \in 1 .. Len(s) : k \in 1 .. Len(c) /\ c[k] = s[k]
      /\ \A k \in 1 .. Len(t) : Len(s) + k \in 1 .. Len(c) /\ c[Len(s) + k] = t[k]
      /\ \A k \in 1 .. Len(c) : k \in 1 .. Len(s) \/ \E l \in 1 .. Len(t) : k = Len(s) + l
  BY ConcatPlaces
<1>. HIDE DEF c
<1>2. ASSUME NEW k \in 1 .. Len(c) PROVE c[k].id \in Ids(s) \cup Ids(t)
  <2>1. CASE k \in 1 .. Len(s)
    BY <1>1, <2>1 DEF Ids
  <2>2. CASE \E l \in 1 .. Len(t) : k = Len(s) + l
    <3>1. PICK l \in 1 .. Len(t) : k = Len(s) + l
      BY <2>2
    <3>2. c[k].id = t[l].id
      BY <1>1, <3>1
    <3>. QED
      BY <3>2 DEF Ids
  <2>. QED
    BY <1>1, <2>1, <2>2
<1>3. ASSUME NEW k \in 1 .. Len(s) PROVE s[k].id \in Ids(c)
  BY <1>1 DEF Ids
<1>4. ASSUME NEW k \in 1 .. Len(t) PROVE t[k].id \in Ids(c)
  <2>1. Len(s) + k \in 1 .. Len(c) /\ c[Len(s) + k].id = t[k].id
    BY <1>1
  <2>. QED
    BY <2>1 DEF Ids
<1>5. Ids(c) = Ids(s) \cup Ids(t)
  BY <1>2, <1>3, <1>4 DEF Ids
<1>. QED
  BY <1>5 DEF c

LEMMA OnceEachConcat ==
  ASSUME NEW m, NEW s, NEW t, OnceEach(s, m), OnceEach(t, m), \A x \in Ids(s) : x \notin Ids(t)
  PROVE  OnceEach(s \o t, m)
<1>. DEFINE c == s \o t
<1>1. s \in Seq(EventType) /\ t \in Seq(EventType) /\ Len(s) \in Nat /\ Len(t) \in Nat
  BY DEF OnceEach
<1>2. /\ c \in Seq(EventType) /\ Len(c) \in Nat
      /\ \A k \in 1 .. Len(s) : k \in 1 .. Len(c) /\ c[k] = s[k]
      /\ \A k \in 1 .. Len(t) : Len(s) + k \in 1 .. Len(c) /\ c[Len(s) + k] = t[k]
      /\ \A k \in 1 .. Len(c) : k \in 1 .. Len(s) \/ \E l \in 1 .. Len(t) : k = Len(s) + l
  BY <1>1, ConcatPlaces
<1>. HIDE DEF c
<1>3. ASSUME NEW k \in 1 .. Len(c), c[k].id = MODE_CHANGE PROVE c[k].context = m
  <2>1. CASE k \in 1 .. Len(s)
    BY <1>2, <1>3, <2>1 DEF OnceEach
  <2>2. CASE \E l \in 1 .. Len(t) : k = Len(s) + l
    <3>1. PICK l \in 1 .. Len(t) : k = Len(s) + l
      BY <2>2
    <3>2. c[k] = t[l]
      BY <1>2, <3>1
    <3>. QED
      BY <1>3, <3>2 DEF OnceEach
  <2>. QED
    BY <1>2, <2>1, <2>2
<1>4. ASSUME NEW k \in 1 .. Len(c), NEW l \in 1 .. Len(c), k < l
      PROVE  c[k].id # c[l].id
  <2>1. CASE k \in 1 .. Len(s) /\ l \in 1 .. Len(s)
    <3>1. c[k] = s[k] /\ c[l] = s[l] /\ k # l
      BY <1>1, <1>2, <1>4, <2>1
    <3>. QED
      BY <2>1, <3>1 DEF OnceEach
  <2>2. CASE k \in 1 .. Len(s) /\ \E j \in 1 .. Len(t) : l = Len(s) + j
    <3>1. PICK j \in 1 .. Len(t) : l = Len(s) + j
      BY <2>2
    <3>2. c[k].id = s[k].id /\ c[l].id = t[j].id
      BY <1>2, <2>2, <3>1
    <3>3. c[k].id \in Ids(s) /\ c[l].id \in Ids(t)
      BY <2>2, <3>2 DEF Ids
    <3>. QED
      BY <3>3
  <2>3. CASE /\ \E i \in 1 .. Len(t) : k = Len(s) + i
             /\ \E j \in 1 .. Len(t) : l = Len(s) + j
    <3>1. PICK i \in 1 .. Len(t), j \in 1 .. Len(t) : k = Len(s) + i /\ l = Len(s) + j
      BY <2>3
    <3>2. i # j /\ c[k] = t[i] /\ c[l] = t[j]
      BY <1>1, <1>2, <1>4, <3>1
    <3>. QED
      BY <3>2 DEF OnceEach
  <2>4. ~(l \in 1 .. Len(s) /\ k \notin 1 .. Len(s))
    BY <1>1, <1>2, <1>4
  <2>. QED
    BY <1>2, <2>1, <2>2, <2>3, <2>4
<1>5. ASSUME NEW k \in 1 .. Len(c), NEW l \in 1 .. Len(c), k # l PROVE c[k].id # c[l].id
  <2>1. k < l \/ l < k
    BY <1>2, <1>5
  <2>. QED
    BY <1>4, <2>1
<1>6. OnceEach(c, m)
  BY <1>2, <1>3, <1>5 DEF OnceEach
<1>. QED
  BY <1>6 DEF c

LEMMA NoEvents ==
  ASSUME NEW m
  PROVE  OnceEach(<< >>, m) /\ Ids(<< >>) = {}
BY DEF OnceEach, Ids

LEMMA OneEvent ==
  ASSUME NEW e \in EventType, NEW m, e.id = MODE_CHANGE => e.context = m
  PROVE  OnceEach(<< e >>, m) /\ Ids(<< e >>) = {e.id}
<1>1. << e >> \in Seq(EventType) /\ Len(<< e >>) = 1 /\ << e >>[1] = e
  OBVIOUS
<1>2. \A k \in 1 .. 1 : k = 1
  OBVIOUS
<1>. QED
  BY <1>1, <1>2 DEF OnceEach, Ids

\* The first event of a list, and the rest.
LEMMA OnceEachTail ==
  ASSUME NEW m, NEW s, OnceEach(s, m), s # << >>
  PROVE  /\ Head(s) \in EventType /\ OnceEach(Tail(s), m)
         /\ Ids(s) = {Head(s).id} \cup Ids(Tail(s)) /\ Head(s).id \notin Ids(Tail(s))
         /\ Head(s).id = MODE_CHANGE => Head(s).context = m
<1>1. /\ s \in Seq(EventType) /\ Len(s) \in Nat /\ Len(s) > 0 /\ Head(s) = s[1] /\ s[1] \in EventType
      /\ Tail(s) \in Seq(EventType) /\ Len(Tail(s)) = Len(s) - 1
      /\ \A k \in 1 .. Len(s) - 1 : Tail(s)[k] = s[k + 1]
  BY HeadTailProperties DEF OnceEach
<1>. DEFINE t == Tail(s)
<1>. HIDE DEF t
<1>2. /\ Len(t) = Len(s) - 1
      /\ \A k \in 1 .. Len(t) : t[k] = s[k + 1] /\ k + 1 \in 1 .. Len(s) /\ k + 1 # 1
      /\ 1 \in 1 .. Len(s)
  BY <1>1 DEF t
<1>3. OnceEach(t, m)
  <2>1. t \in Seq(EventType)
    BY <1>1 DEF t
  <2>2. ASSUME NEW k \in 1 .. Len(t), NEW l \in 1 .. Len(t), k # l PROVE t[k].id # t[l].id
    <3>1. k + 1 # l + 1
      BY <1>1, <1>2, <2>2
    <3>. QED
      BY <1>2, <3>1 DEF OnceEach
  <2>3. ASSUME NEW k \in 1 .. Len(t), t[k].id = MODE_CHANGE PROVE t[k].context = m
    BY <1>2, <2>3 DEF OnceEach
  <2>. QED
    BY <2>1, <2>2, <2>3 DEF OnceEach
<1>4. s[1].id \notin Ids(t)
  <2>1. ASSUME NEW k \in 1 .. Len(t) PROVE t[k].id # s[1].id
    BY <1>2 DEF OnceEach
  <2>. QED
    BY <2>1 DEF Ids
<1>5. Ids(s) = {s[1].id} \cup Ids(t)
  <2>1. ASSUME NEW k \in 1 .. Len(s) PROVE s[k].id \in {s[1].id} \cup Ids(t)
    <3>1. CASE k = 1
      BY <3>1
    <3>2. CASE k # 1
      <4>1. k - 1 \in 1 .. Len(t) /\ (k - 1) + 1 = k
        BY <1>1, <1>2, <3>2
      <4>2. t[k - 1].id = s[k].id
        BY <1>2, <4>1
      <4>. QED
        BY <4>1, <4>2 DEF Ids
    <3>. QED
      BY <3>1, <3>2
  <2>2. s[1].id \in Ids(s)
    BY <1>2 DEF Ids
  <2>3. ASSUME NEW k \in 1 .. Len(t) PROVE t[k].id \in Ids(s)
    BY <1>2 DEF Ids
  <2>. QED
    BY <2>1, <2>2, <2>3 DEF Ids
<1>6. s[1].id = MODE_CHANGE => s[1].context = m
  BY <1>2 DEF OnceEach
<1>. QED
  BY <1>1, <1>3, <1>4, <1>5, <1>6 DEF t

-----------------------------------------------------------------------------
\* The latches of the model say which limits the last tick left exceeded.
Latched == armed = [id \in LimitEvent |-> id \notin outside] /\ prevMode = mode

LEMMA CrossingIsOne ==
  ASSUME Latched, NEW id \in LimitEvent, NEW out \in SUBSET LimitEvent, NEW m
  PROVE  /\ OnceEach(Crossing(id, out), m)
         /\ Ids(Crossing(id, out)) = {id} \cap (out \ outside)
<1>1. armed[id] <=> id \notin outside
  BY DEF Latched
<1>2. CASE id \in out /\ armed[id]
  <2>1. Event(id, 0) \in EventType /\ Event(id, 0).id = id /\ id # MODE_CHANGE
    BY DEF Event, EventType, EventId, Mode, SAFE, LimitEvent, MODE_CHANGE, BATTERY_UNDERVOLTAGE,
           OBC_OVERTEMP, RW_OVERSPEED
  <2>2. Crossing(id, out) = << Event(id, 0) >>
    BY <1>2 DEF Crossing
  <2>3. OnceEach(<< Event(id, 0) >>, m) /\ Ids(<< Event(id, 0) >>) = {Event(id, 0).id}
    BY <2>1, OneEvent
  <2>. QED
    BY <1>1, <1>2, <2>1, <2>2, <2>3
<1>3. CASE ~(id \in out /\ armed[id])
  BY <1>1, <1>3, NoEvents DEF Crossing
<1>. QED
  BY <1>2, <1>3

LEMMA ModeEventsAre ==
  ASSUME Latched, NEW m \in Mode
  PROVE  /\ OnceEach(ModeEvents(m), m)
         /\ Ids(ModeEvents(m)) = (IF m = mode THEN {} ELSE {MODE_CHANGE})
                                   \cup (IF m # mode /\ m = SAFE THEN {MODE_SAFE} ELSE {})
<1>1. /\ Event(MODE_CHANGE, m) \in EventType /\ Event(MODE_CHANGE, m).id = MODE_CHANGE
      /\ Event(MODE_CHANGE, m).context = m
      /\ Event(MODE_SAFE, 0) \in EventType /\ Event(MODE_SAFE, 0).id = MODE_SAFE
      /\ MODE_SAFE # MODE_CHANGE
  BY DEF Event, EventType, EventId, Mode, SAFE, MODE_CHANGE, MODE_SAFE
<1>2. /\ OnceEach(<< Event(MODE_CHANGE, m) >>, m) /\ Ids(<< Event(MODE_CHANGE, m) >>) = {MODE_CHANGE}
      /\ OnceEach(<< Event(MODE_SAFE, 0) >>, m) /\ Ids(<< Event(MODE_SAFE, 0) >>) = {MODE_SAFE}
  BY <1>1, OneEvent
<1>3. << Event(MODE_CHANGE, m), Event(MODE_SAFE, 0) >>
        = << Event(MODE_CHANGE, m) >> \o << Event(MODE_SAFE, 0) >>
  BY <1>1
<1>4. /\ OnceEach(<< Event(MODE_CHANGE, m), Event(MODE_SAFE, 0) >>, m)
      /\ Ids(<< Event(MODE_CHANGE, m), Event(MODE_SAFE, 0) >>) = {MODE_CHANGE, MODE_SAFE}
  <2>. DEFINE p == << Event(MODE_CHANGE, m) >>
              q == << Event(MODE_SAFE, 0) >>
  <2>. HIDE DEF p, q
  <2>1. OnceEach(p, m) /\ OnceEach(q, m) /\ Ids(p) = {MODE_CHANGE} /\ Ids(q) = {MODE_SAFE}
    BY <1>2 DEF p, q
  <2>2. \A x \in Ids(p) : x \notin Ids(q)
    BY <1>1, <2>1
  <2>3. OnceEach(p \o q, m) /\ Ids(p \o q) = Ids(p) \cup Ids(q)
    <3>1. OnceEach(p \o q, m)
      BY <2>1, <2>2, OnceEachConcat
    <3>2. p \in Seq(EventType) /\ q \in Seq(EventType)
      BY <2>1, <2>2 DEF OnceEach
    <3>. QED
      BY <3>1, <3>2, IdsConcat
  <2>. QED
    BY <1>3, <2>1, <2>3 DEF p, q
<1>5. CASE m = mode
  BY <1>5, NoEvents DEF Latched, ModeEvents
<1>6. CASE m # mode /\ m # SAFE
  BY <1>2, <1>6 DEF Latched, ModeEvents
<1>7. CASE m # mode /\ m = SAFE
  BY <1>4, <1>7 DEF Latched, ModeEvents
<1>. QED
  BY <1>5, <1>6, <1>7

\* A tick that goes to mode m and leaves out exceeded detects what a reader of
\* HK packets expects of it.
LEMMA DetectedIsExpected ==
  ASSUME Latched, NEW m \in Mode, NEW out \in SUBSET LimitEvent
  PROVE  /\ OnceEach(DetectedEvents(m, out), m)
         /\ Ids(DetectedEvents(m, out)) = ExpectedEvents(Now, [mode |-> m, outside |-> out])
<1>. DEFINE a == Crossing(BATTERY_UNDERVOLTAGE, out)
            b == Crossing(OBC_OVERTEMP, out)
            c == Crossing(RW_OVERSPEED, out)
            d == ModeEvents(m)
            new == out \ outside
<1>1. LimitEvent = {BATTERY_UNDERVOLTAGE, OBC_OVERTEMP, RW_OVERSPEED}
  BY DEF LimitEvent
<1>2. /\ OnceEach(a, m) /\ Ids(a) = {BATTERY_UNDERVOLTAGE} \cap new
      /\ OnceEach(b, m) /\ Ids(b) = {OBC_OVERTEMP} \cap new
      /\ OnceEach(c, m) /\ Ids(c) = {RW_OVERSPEED} \cap new
      /\ OnceEach(d, m)
      /\ Ids(d) = (IF m = mode THEN {} ELSE {MODE_CHANGE})
                    \cup (IF m # mode /\ m = SAFE THEN {MODE_SAFE} ELSE {})
  BY <1>1, CrossingIsOne, ModeEventsAre
<1>. HIDE DEF a, b, c, d
<1>3. OnceEach(a \o b, m) /\ Ids(a \o b) = {BATTERY_UNDERVOLTAGE, OBC_OVERTEMP} \cap new
  <2>1. \A x \in Ids(a) : x \notin Ids(b)
    BY <1>2 DEF BATTERY_UNDERVOLTAGE, OBC_OVERTEMP
  <2>2. OnceEach(a \o b, m) /\ Ids(a \o b) = Ids(a) \cup Ids(b)
    <3>1. OnceEach(a \o b, m)
      BY <1>2, <2>1, OnceEachConcat
    <3>2. a \in Seq(EventType) /\ b \in Seq(EventType)
      BY <1>2 DEF OnceEach
    <3>. QED
      BY <3>1, <3>2, IdsConcat
  <2>. QED
    BY <1>2, <2>2
<1>4. OnceEach(a \o b \o c, m) /\ Ids(a \o b \o c) = LimitEvent \cap new
  <2>1. \A x \in Ids(a \o b) : x \notin Ids(c)
    BY <1>2, <1>3 DEF BATTERY_UNDERVOLTAGE, OBC_OVERTEMP, RW_OVERSPEED
  <2>2. OnceEach(a \o b \o c, m) /\ Ids(a \o b \o c) = Ids(a \o b) \cup Ids(c)
    <3>1. OnceEach(a \o b \o c, m)
      BY <1>2, <1>3, <2>1, OnceEachConcat
    <3>2. a \o b \in Seq(EventType) /\ c \in Seq(EventType)
      BY <1>2, <1>3 DEF OnceEach
    <3>. QED
      BY <3>1, <3>2, IdsConcat
  <2>. QED
    BY <1>1, <1>2, <1>3, <2>2
<1>5. OnceEach(a \o b \o c \o d, m) /\ Ids(a \o b \o c \o d) = new \cup Ids(d)
  <2>1. \A x \in Ids(a \o b \o c) : x \notin Ids(d)
    BY <1>1, <1>2, <1>4 DEF BATTERY_UNDERVOLTAGE, OBC_OVERTEMP, RW_OVERSPEED, MODE_CHANGE, MODE_SAFE
  <2>2. OnceEach(a \o b \o c \o d, m) /\ Ids(a \o b \o c \o d) = Ids(a \o b \o c) \cup Ids(d)
    <3>1. OnceEach(a \o b \o c \o d, m)
      BY <1>2, <1>4, <2>1, OnceEachConcat
    <3>2. a \o b \o c \in Seq(EventType) /\ d \in Seq(EventType)
      BY <1>2, <1>4 DEF OnceEach
    <3>. QED
      BY <3>1, <3>2, IdsConcat
  <2>3. LimitEvent \cap new = new
    OBVIOUS
  <2>. QED
    BY <1>4, <2>2, <2>3
<1>6. new \cup Ids(d) = ExpectedEvents(Now, [mode |-> m, outside |-> out])
  BY <1>2 DEF ExpectedEvents, Now
<1>. QED
  BY <1>5, <1>6 DEF DetectedEvents, a, b, c, d

-----------------------------------------------------------------------------
(* The stream. Packets once sent stay, so what was said before one stays.  *)

LastHk(h) == h \in 1 .. Len(tm) /\ IsHk(h) /\ \A k \in h + 1 .. Len(tm) : ~IsHk(k)

\* What EventsMatchHk says of HK packet i and what follows it up to packet j.
Encloses(i, j) ==
  /\ \E b \in HkBody :
       /\ SaidBefore(i, b)
       /\ {tm[k].type : k \in EventsBetween(i, j)} = ExpectedEvents(b, tm[i].body)
  /\ \A k, l \in EventsBetween(i, j) : k # l => tm[k].type # tm[l].type
  /\ \A k \in EventsBetween(i, j) : tm[k].type = MODE_CHANGE => tm[k].body = tm[i].body.mode

\* The last HK packet is h; the events of its tick that rest is the list of are
\* still to be sent, the others were.
Sending(h, rest) ==
  /\ OnceEach(rest, tm[h].body.mode)
  /\ \E b \in HkBody :
       /\ SaidBefore(h, b)
       /\ {tm[k].type : k \in EventsBetween(h, Len(tm) + 1)} \cup Ids(rest)
            = ExpectedEvents(b, tm[h].body)
  /\ \A k, l \in EventsBetween(h, Len(tm) + 1) : k # l => tm[k].type # tm[l].type
  /\ \A k \in EventsBetween(h, Len(tm) + 1) :
       /\ tm[k].type \notin Ids(rest)
       /\ tm[k].type = MODE_CHANGE => tm[k].body = tm[h].body.mode

Grown ==
  /\ Len(tm) \in Nat /\ Len(tm') \in Nat /\ Len(tm) <= Len(tm')
  /\ \A k \in 1 .. Len(tm) : tm'[k] = tm[k]

LEMMA SaidStays ==
  ASSUME Grown, NEW i \in 1 .. Len(tm) + 1, NEW b
  PROVE  SaidBefore(i, b) => SaidBefore(i, b)'
<1>1. \A k \in 1 .. i - 1 : tm'[k] = tm[k]
  BY DEF Grown
<1>2. \A k \in 1 .. i - 1 : \A j \in k + 1 .. i - 1 : tm'[j] = tm[j]
  BY <1>1 DEF Grown
<1>. QED
  BY <1>1, <1>2 DEF SaidBefore, IsHk

LEMMA EnclosesStays ==
  ASSUME Grown, NEW i \in 1 .. Len(tm), NEW j \in 1 .. Len(tm) + 1, i < j
  PROVE  Encloses(i, j) => Encloses(i, j)'
<1>. SUFFICES ASSUME Encloses(i, j) PROVE Encloses(i, j)'
  OBVIOUS
<1>1. tm'[i] = tm[i]
  BY DEF Grown
<1>2. EventsBetween(i, j)' = EventsBetween(i, j)
  <2>1. i \in Nat /\ j \in Nat /\ j - 1 <= Len(tm)
    BY DEF Grown
  <2>2. \A k \in i + 1 .. j - 1 : k \in 1 .. Len(tm)
    BY <2>1 DEF Grown
  <2>3. \A k \in i + 1 .. j - 1 : tm'[k] = tm[k]
    BY <2>2 DEF Grown
  <2>. QED
    BY <2>3 DEF EventsBetween
<1>3. \A k \in EventsBetween(i, j) : tm'[k] = tm[k]
  BY DEF EventsBetween, Grown
<1>4. PICK b \in HkBody :
        /\ SaidBefore(i, b)
        /\ {tm[k].type : k \in EventsBetween(i, j)} = ExpectedEvents(b, tm[i].body)
  BY DEF Encloses
<1>5. SaidBefore(i, b)'
  BY <1>4, SaidStays DEF Grown
<1>6. {tm'[k].type : k \in EventsBetween(i, j)} = {tm[k].type : k \in EventsBetween(i, j)}
  BY <1>3
<1>7. ExpectedEvents(b, tm[i].body)' = ExpectedEvents(b, tm[i].body)
  BY <1>1 DEF ExpectedEvents
<1>8. \E c \in HkBody :
        /\ SaidBefore(i, c)'
        /\ {tm'[k].type : k \in EventsBetween(i, j)'} = ExpectedEvents(c, tm[i].body)'
  BY <1>2, <1>4, <1>5, <1>6, <1>7
<1>9. /\ \A k, l \in EventsBetween(i, j)' : k # l => tm'[k].type # tm'[l].type
      /\ \A k \in EventsBetween(i, j)' : tm'[k].type = MODE_CHANGE => tm'[k].body = tm'[i].body.mode
  BY <1>1, <1>2, <1>3 DEF Encloses
<1>. QED
  BY <1>8, <1>9 DEF Encloses

LEMMA PairEncloses ==
  ASSUME NEW i \in 1 .. Len(tm), NEW j \in 1 .. Len(tm), EventsMatchHk,
         i < j, IsHk(i), IsHk(j), \A k \in i + 1 .. j - 1 : ~IsHk(k)
  PROVE  Encloses(i, j)
BY DEF EventsMatchHk, Encloses, HkBody

\* Pairs of old HK packets match as before.
LEMMA OldPairs ==
  ASSUME Grown, EventsMatchHk, NEW i \in 1 .. Len(tm), NEW j \in 1 .. Len(tm),
         i < j, IsHk(i)', IsHk(j)', \A k \in i + 1 .. j - 1 : ~IsHk(k)'
  PROVE  Encloses(i, j)'
<1>1. /\ Len(tm) \in Nat /\ i \in Nat /\ j \in Nat /\ j \in 1 .. Len(tm) + 1
      /\ \A k \in i .. j : k \in 1 .. Len(tm)
  BY DEF Grown
<1>2. \A k \in i .. j : tm'[k] = tm[k]
  BY <1>1 DEF Grown
<1>3. IsHk(i) /\ IsHk(j) /\ \A k \in i + 1 .. j - 1 : ~IsHk(k)
  BY <1>1, <1>2 DEF IsHk
<1>. QED
  BY <1>1, <1>3, PairEncloses, EnclosesStays

\* Nothing was sent, or a report of the receiver.
Quiet ==
  /\ Grown
  /\ \A k \in Len(tm) + 1 .. Len(tm') : tm'[k].apid = APID_VERIFICATION /\ tm'[k].type # "HK"

LEMMA QuietFacts ==
  ASSUME Quiet
  PROVE  /\ \A k \in 1 .. Len(tm) : IsHk(k)' <=> IsHk(k)
         /\ \A k \in Len(tm) + 1 .. Len(tm') : ~IsHk(k)' /\ tm'[k].apid # APID_EVENT
         /\ \A k \in 1 .. Len(tm') : k \in 1 .. Len(tm) \/ k \in Len(tm) + 1 .. Len(tm')
         /\ \A k \in 1 .. Len(tm) : k \in 1 .. Len(tm')
<1>1. APID_VERIFICATION # APID_EVENT
  BY DEF APID_VERIFICATION, APID_EVENT
<1>. QED
  BY <1>1 DEF Quiet, Grown, IsHk

LEMMA QuietMatch ==
  ASSUME Quiet, EventsMatchHk
  PROVE  EventsMatchHk'
<1>1. ASSUME NEW i \in 1 .. Len(tm'), NEW j \in 1 .. Len(tm'), i < j, IsHk(i)', IsHk(j)',
             \A k \in i + 1 .. j - 1 : ~IsHk(k)'
      PROVE  Encloses(i, j)'
  <2>1. i \in 1 .. Len(tm) /\ j \in 1 .. Len(tm)
    BY <1>1, QuietFacts
  <2>. QED
    BY <1>1, <2>1, OldPairs DEF Quiet
<1>. QED
  BY <1>1 DEF EventsMatchHk, Encloses, HkBody

LEMMA QuietLast ==
  ASSUME Quiet, NEW h, LastHk(h)'
  PROVE  LastHk(h)
<1>1. h \in 1 .. Len(tm) /\ h \in Nat
  BY QuietFacts DEF LastHk
<1>2. \A k \in h + 1 .. Len(tm) : k \in 1 .. Len(tm) /\ k \in h + 1 .. Len(tm')
  BY <1>1 DEF Quiet, Grown
<1>. QED
  BY <1>1, <1>2, QuietFacts DEF LastHk

LEMMA QuietSaid ==
  ASSUME Quiet, NEW b, SaidBefore(Len(tm) + 1, b)
  PROVE  SaidBefore(Len(tm) + 1, b)'
<1>1. Len(tm) \in Nat /\ Len(tm') \in Nat /\ Len(tm) <= Len(tm')
  BY DEF Quiet, Grown
<1>2. CASE \E k \in 1 .. Len(tm) : IsHk(k) /\ b = tm[k].body /\ \A j \in k + 1 .. Len(tm) : ~IsHk(j)
  <2>1. PICK k \in 1 .. Len(tm) : IsHk(k) /\ b = tm[k].body /\ \A j \in k + 1 .. Len(tm) : ~IsHk(j)
    BY <1>2
  <2>2. k \in 1 .. Len(tm') /\ IsHk(k)' /\ tm'[k] = tm[k]
    BY <2>1, QuietFacts DEF Quiet, Grown
  <2>3. ASSUME NEW j \in k + 1 .. Len(tm') PROVE ~IsHk(j)'
    <3>1. CASE j <= Len(tm)
      <4>1. j \in 1 .. Len(tm) /\ j \in k + 1 .. Len(tm)
        BY <1>1, <3>1
      <4>. QED
        BY <2>1, <4>1, QuietFacts
    <3>2. CASE j > Len(tm)
      <4>1. j \in Len(tm) + 1 .. Len(tm')
        BY <1>1, <3>2
      <4>. QED
        BY <4>1, QuietFacts
    <3>. QED
      BY <1>1, <3>1, <3>2
  <2>4. (Len(tm') + 1) - 1 = Len(tm')
    BY <1>1
  <2>. QED
    BY <2>1, <2>2, <2>3, <2>4 DEF SaidBefore
<1>3. CASE b = [mode |-> NOMINAL, outside |-> {}] /\ \A k \in 1 .. Len(tm) : ~IsHk(k)
  <2>1. \A k \in 1 .. Len(tm') : ~IsHk(k)'
    BY <1>3, QuietFacts
  <2>2. (Len(tm') + 1) - 1 = Len(tm')
    BY <1>1
  <2>. QED
    BY <1>3, <2>1, <2>2 DEF SaidBefore
<1>4. (Len(tm) + 1) - 1 = Len(tm)
  BY <1>1
<1>. QED
  BY <1>2, <1>3, <1>4 DEF SaidBefore

LEMMA QuietSending ==
  ASSUME Quiet, NEW h \in 1 .. Len(tm), NEW rest, Sending(h, rest)
  PROVE  Sending(h, rest)'
<1>1. Len(tm) \in Nat /\ Len(tm') \in Nat /\ Len(tm) <= Len(tm') /\ tm'[h] = tm[h] /\ h \in Nat
  BY DEF Quiet, Grown
<1>2. EventsBetween(h, Len(tm) + 1)' = EventsBetween(h, Len(tm) + 1)
  <2>1. ASSUME NEW k \in h + 1 .. Len(tm')
        PROVE  /\ k \in 1 .. Len(tm) => tm'[k] = tm[k] /\ k \in h + 1 .. Len(tm)
               /\ k \notin 1 .. Len(tm) => tm'[k].apid # APID_EVENT
    <3>1. k \in 1 .. Len(tm')
      BY <1>1
    <3>2. k \in 1 .. Len(tm) => k \in h + 1 .. Len(tm)
      BY <1>1
    <3>. QED
      BY <3>1, <3>2, QuietFacts DEF Quiet, Grown
  <2>2. ASSUME NEW k \in h + 1 .. Len(tm)
        PROVE  k \in h + 1 .. Len(tm') /\ k \in 1 .. Len(tm) /\ tm'[k] = tm[k]
    BY <1>1 DEF Quiet, Grown
  <2>3. (Len(tm) + 1) - 1 = Len(tm) /\ (Len(tm') + 1) - 1 = Len(tm')
    BY <1>1
  <2>. QED
    BY <2>1, <2>2, <2>3 DEF EventsBetween
<1>. DEFINE S == EventsBetween(h, Len(tm) + 1)
<1>3. \A k \in S : tm'[k] = tm[k]
  <2>1. \A k \in h + 1 .. (Len(tm) + 1) - 1 : k \in 1 .. Len(tm)
    BY <1>1
  <2>. QED
    BY <2>1 DEF EventsBetween, Quiet, Grown
<1>4. PICK b \in HkBody :
        /\ SaidBefore(h, b)
        /\ {tm[k].type : k \in S} \cup Ids(rest) = ExpectedEvents(b, tm[h].body)
  BY DEF Sending
<1>5. SaidBefore(h, b)'
  <2>1. h \in 1 .. Len(tm) + 1
    BY <1>1
  <2>. QED
    BY <1>4, <2>1, SaidStays DEF Quiet
<1>6. {tm'[k].type : k \in S} = {tm[k].type : k \in S}
  BY <1>3
<1>7. ExpectedEvents(b, tm[h].body)' = ExpectedEvents(b, tm[h].body)
  BY <1>1 DEF ExpectedEvents
<1>8. \E c \in HkBody :
        /\ SaidBefore(h, c)'
        /\ {tm'[k].type : k \in EventsBetween(h, Len(tm) + 1)'} \cup Ids(rest)
             = ExpectedEvents(c, tm[h].body)'
  BY <1>2, <1>4, <1>5, <1>6, <1>7
<1>9. \A k, l \in EventsBetween(h, Len(tm) + 1)' : k # l => tm'[k].type # tm'[l].type
  BY <1>2, <1>3 DEF Sending
<1>10. \A k \in EventsBetween(h, Len(tm) + 1)' :
         /\ tm'[k].type \notin Ids(rest)
         /\ tm'[k].type = MODE_CHANGE => tm'[k].body = tm'[h].body.mode
  BY <1>1, <1>2, <1>3 DEF Sending
<1>11. OnceEach(rest, tm'[h].body.mode)
  BY <1>1 DEF Sending
<1>. QED
  BY <1>8, <1>9, <1>10, <1>11 DEF Sending

-----------------------------------------------------------------------------
(* The invariant.                                                          *)

HkInv ==
  /\ Latched
  /\ loop \in {"step", "check"} => events = << >>
  /\ loop \in {"step", "check", "events"} =>
       SaidBefore(Len(tm) + 1, Now) /\ \A h \in 1 .. Len(tm) : LastHk(h) => Sending(h, events)
  /\ loop = "hk" =>
       /\ \A h \in 1 .. Len(tm) : LastHk(h) => Sending(h, << >>)
       /\ OnceEach(events, mode)
       /\ \E b \in HkBody : SaidBefore(Len(tm) + 1, b) /\ Ids(events) = ExpectedEvents(b, Now)
  /\ EventsMatchHk

LEMMA InitHk == Init => HkInv
<1>. SUFFICES ASSUME Init PROVE HkInv
  OBVIOUS
<1>1. tm = << >> /\ Len(tm) = 0 /\ 1 .. Len(tm) = {} /\ 1 .. (Len(tm) + 1) - 1 = {}
  BY DEF Init
<1>2. Latched
  BY DEF Init, Latched
<1>3. SaidBefore(Len(tm) + 1, Now)
  BY <1>1 DEF Init, SaidBefore, Now
<1>4. EventsMatchHk
  BY <1>1 DEF EventsMatchHk
<1>. QED
  BY <1>1, <1>2, <1>3, <1>4 DEF Init, HkInv

\* A step that sends no HK and no event packet, in the same phase of the tick.
LEMMA QuietStep ==
  ASSUME HkInv, Quiet, UNCHANGED <<modelVars, events>>,
         loop' = loop \/ (loop = "check" /\ loop' = "step")
  PROVE  HkInv'
<1>1. EventsMatchHk'
  BY QuietMatch DEF HkInv
<1>2. Latched' /\ Now' = Now
  BY DEF HkInv, Latched, modelVars, Now
<1>3. ASSUME NEW h \in 1 .. Len(tm'), LastHk(h)', NEW rest,
             \A k \in 1 .. Len(tm) : LastHk(k) => Sending(k, rest)
      PROVE  Sending(h, rest)'
  <2>1. LastHk(h) /\ h \in 1 .. Len(tm)
    BY <1>3, QuietLast DEF LastHk
  <2>. QED
    BY <1>3, <2>1, QuietSending
<1>4. ASSUME loop' \in {"step", "check", "events"}
      PROVE  /\ SaidBefore(Len(tm) + 1, Now)'
             /\ \A h \in 1 .. Len(tm') : LastHk(h)' => Sending(h, events)'
  <2>1. /\ SaidBefore(Len(tm) + 1, Now)
        /\ \A h \in 1 .. Len(tm) : LastHk(h) => Sending(h, events)
    BY <1>4 DEF HkInv
  <2>2. PICK rest : rest = events
    OBVIOUS
  <2>3. PICK b : b = Now
    OBVIOUS
  <2>4. rest = events' /\ b = Now'
    BY <1>2, <2>2, <2>3
  <2>5. SaidBefore(Len(tm) + 1, b)'
    BY <2>1, <2>3, QuietSaid
  <2>6. \A h \in 1 .. Len(tm') : LastHk(h)' => Sending(h, rest)'
    BY <1>3, <2>1, <2>2
  <2>7. SaidBefore(Len(tm) + 1, Now)'
    BY <2>4, <2>5 DEF SaidBefore
  <2>8. \A h \in 1 .. Len(tm') : LastHk(h)' => Sending(h, events)'
    BY <2>4, <2>6 DEF Sending
  <2>. QED
    BY <2>7, <2>8
<1>5. ASSUME loop' = "hk"
      PROVE  /\ \A h \in 1 .. Len(tm') : LastHk(h)' => Sending(h, << >>)'
             /\ OnceEach(events, mode)'
             /\ \E b \in HkBody : /\ SaidBefore(Len(tm) + 1, b)'
                                  /\ Ids(events)' = ExpectedEvents(b, Now)'
  <2>1. loop = "hk"
    BY <1>5
  <2>2. \A h \in 1 .. Len(tm') : LastHk(h)' => Sending(h, << >>)'
    BY <1>3, <2>1 DEF HkInv
  <2>3. OnceEach(events, mode)'
    BY <2>1 DEF HkInv, OnceEach, modelVars
  <2>4. PICK b \in HkBody : SaidBefore(Len(tm) + 1, b) /\ Ids(events) = ExpectedEvents(b, Now)
    BY <2>1 DEF HkInv
  <2>5. SaidBefore(Len(tm) + 1, b)'
    BY <2>4, QuietSaid
  <2>6. Ids(events)' = Ids(events) /\ ExpectedEvents(b, Now)' = ExpectedEvents(b, Now)
    BY <1>2 DEF Ids, ExpectedEvents
  <2>. QED
    BY <2>2, <2>3, <2>4, <2>5, <2>6
<1>6. loop' \in {"step", "check"} => events' = << >>
  BY DEF HkInv
<1>. QED
  BY <1>1, <1>2, <1>4, <1>5, <1>6 DEF HkInv

\* The loop is left, or is out already: nothing is to be sent any more.
LEMMA LeavingStep ==
  ASSUME HkInv, Quiet, UNCHANGED modelVars, loop' \notin {"step", "check", "events", "hk"}
  PROVE  HkInv'
<1>1. EventsMatchHk'
  BY QuietMatch DEF HkInv
<1>2. Latched'
  BY DEF HkInv, Latched, modelVars
<1>. QED
  BY <1>1, <1>2 DEF HkInv

\* The places of a stream that grows by a packet.
LEMMA AppendGrows ==
  ASSUME TypeOK, NEW p, tm' = Append(tm, p)
  PROVE  /\ Grown /\ Len(tm') = Len(tm) + 1 /\ tm'[Len(tm) + 1] = p /\ Len(tm) \in Nat
         /\ Len(tm) + 1 \in 1 .. Len(tm')
         /\ \A k \in 1 .. Len(tm') : k \in 1 .. Len(tm) \/ k = Len(tm) + 1
         /\ \A k \in 1 .. Len(tm) : IsHk(k)' <=> IsHk(k)
<1>1. /\ Len(tm') = Len(tm) + 1 /\ tm'[Len(tm) + 1] = p /\ Len(tm) \in Nat
      /\ \A k \in 1 .. Len(tm) : tm'[k] = tm[k]
  BY AppendFacts DEF TypeOK
<1>2. Grown
  BY <1>1 DEF Grown
<1>3. /\ Len(tm) + 1 \in 1 .. Len(tm')
      /\ \A k \in 1 .. Len(tm') : k \in 1 .. Len(tm) \/ k = Len(tm) + 1
  BY <1>1
<1>4. \A k \in 1 .. Len(tm) : IsHk(k)' <=> IsHk(k)
  BY <1>1 DEF IsHk
<1>. QED
  BY <1>1, <1>2, <1>3, <1>4

\* A tick (Model.step): its events are those its HK packet announces.
LEMMA TickHk ==
  ASSUME TypeOK, HkInv, LoopStep
  PROVE  HkInv'
<1>1. PICK out \in Excursions :
        /\ mode' = TickMode /\ outside' = out
        /\ events' = DetectedEvents(TickMode, out)
        /\ armed' = Rearmed(out)
  BY DEF LoopStep
<1>2. /\ loop = "step" /\ loop' = "hk" /\ prevMode' = TickMode /\ tm' = tm
      /\ out \in SUBSET LimitEvent /\ TickMode \in Mode /\ Now \in HkBody
  BY SimulatorAssumption DEF LoopStep, TypeOK, TickMode, Mode, SAFE, NoMode, Now, HkBody
<1>3. /\ OnceEach(DetectedEvents(TickMode, out), TickMode)
      /\ Ids(DetectedEvents(TickMode, out))
           = ExpectedEvents(Now, [mode |-> TickMode, outside |-> out])
  BY <1>2, DetectedIsExpected DEF HkInv
<1>4. Latched'
  BY <1>1, <1>2 DEF Latched, Rearmed
<1>5. Quiet /\ EventsMatchHk'
  <2>1. Len(tm) \in Nat /\ Len(tm) + 1 .. Len(tm') = {}
    BY <1>2 DEF TypeOK
  <2>2. Quiet
    BY <1>2, <2>1 DEF Quiet, Grown
  <2>. QED
    BY <2>2, QuietMatch DEF HkInv
<1>6. ASSUME NEW h \in 1 .. Len(tm'), LastHk(h)' PROVE Sending(h, << >>)'
  <2>1. LastHk(h) /\ h \in 1 .. Len(tm)
    BY <1>5, <1>6, QuietLast DEF LastHk
  <2>2. Sending(h, << >>)
    <3>1. events = << >>
      BY <1>2 DEF HkInv
    <3>2. Sending(h, events)
      BY <1>2, <2>1 DEF HkInv
    <3>. QED
      BY <3>1, <3>2
  <2>. QED
    BY <1>5, <2>1, <2>2, QuietSending
<1>7. OnceEach(events, mode)'
  BY <1>1, <1>3 DEF OnceEach
<1>8. \E b \in HkBody : SaidBefore(Len(tm) + 1, b)' /\ Ids(events)' = ExpectedEvents(b, Now)'
  <2>1. PICK b \in HkBody : b = Now
    BY <1>2
  <2>2. SaidBefore(Len(tm) + 1, b)
    BY <1>2, <2>1 DEF HkInv
  <2>3. SaidBefore(Len(tm) + 1, b)'
    BY <1>2, <2>2 DEF SaidBefore, IsHk
  <2>4. Now' = [mode |-> TickMode, outside |-> out]
    BY <1>1 DEF Now
  <2>5. Ids(events)' = ExpectedEvents(b, Now)'
    BY <1>1, <1>3, <2>1, <2>4 DEF Ids, ExpectedEvents
  <2>. QED
    BY <2>3, <2>5
<1>. QED
  BY <1>2, <1>4, <1>5, <1>6, <1>7, <1>8 DEF HkInv

\* The HK packet goes out: it closes the tick before and opens its own.
LEMMA SendHk ==
  ASSUME TypeOK, HkInv, LoopSendHk, tm' = Append(tm, HkPacket),
         loop' = IF events = << >> THEN "check" ELSE "events"
  PROVE  HkInv'
<1>0. PICK n : n = Len(tm)
  OBVIOUS
<1>1. /\ Grown /\ n = Len(tm) /\ Len(tm') = n + 1 /\ n \in Nat /\ n + 1 \in 1 .. Len(tm')
      /\ tm'[n + 1] = HkPacket
      /\ \A k \in 1 .. Len(tm') : k \in 1 .. n \/ k = n + 1
      /\ \A k \in 1 .. n : IsHk(k)' <=> IsHk(k)
  BY <1>0, AppendGrows
<1>2. /\ loop = "hk" /\ events' = events /\ UNCHANGED modelVars
      /\ HkPacket.type = "HK" /\ HkPacket.body = Now
  BY DEF LoopSendHk, HkPacket, Packet, Now
<1>3. /\ \A h \in 1 .. Len(tm) : LastHk(h) => Sending(h, << >>)
      /\ OnceEach(events, mode)
  BY <1>2 DEF HkInv
<1>4. PICK b \in HkBody : SaidBefore(Len(tm) + 1, b) /\ Ids(events) = ExpectedEvents(b, Now)
  BY <1>2 DEF HkInv
<1>6. SaidBefore(n + 1, b)'
  <2>1. n + 1 \in 1 .. Len(tm) + 1
    BY <1>1
  <2>. QED
    BY <1>1, <1>4, <2>1, SaidStays
<1>7. ASSUME NEW i \in 1 .. Len(tm'), NEW j \in 1 .. Len(tm'), i < j, IsHk(i)', IsHk(j)',
             \A k \in i + 1 .. j - 1 : ~IsHk(k)'
      PROVE  Encloses(i, j)'
  <2>1. i \in 1 .. Len(tm)
    BY <1>1, <1>7
  <2>2. CASE j \in 1 .. Len(tm)
    BY <1>1, <1>7, <2>1, <2>2, OldPairs DEF HkInv
  <2>3. CASE j = n + 1
    <3>1. \A k \in i + 1 .. Len(tm) : k \in 1 .. Len(tm) /\ k \in i + 1 .. j - 1
      BY <1>1, <2>1, <2>3
    <3>2. LastHk(i)
      BY <1>1, <1>7, <2>1, <3>1 DEF LastHk
    <3>3. Sending(i, << >>)
      BY <1>3, <2>1, <3>2
    <3>4. Ids(<< >>) = {}
      BY DEF Ids
    <3>5. Encloses(i, Len(tm) + 1)
      BY <3>3, <3>4 DEF Sending, Encloses
    <3>6. Encloses(i, j)
      BY <1>1, <2>3, <3>5
    <3>7. j \in 1 .. Len(tm) + 1
      BY <1>1, <2>3
    <3>. QED
      BY <1>1, <1>7, <2>1, <3>6, <3>7, EnclosesStays
  <2>. QED
    BY <1>1, <2>2, <2>3
<1>8. EventsMatchHk'
  BY <1>7 DEF EventsMatchHk, Encloses, HkBody
<1>9. Latched' /\ Now' = Now
  BY <1>2 DEF HkInv, Latched, modelVars, Now
<1>10. SaidBefore(Len(tm) + 1, Now)'
  <2>1. IsHk(n + 1)' /\ tm'[n + 1].body = Now'
    BY <1>1, <1>2, <1>9 DEF IsHk
  <2>2. n + 1 \in 1 .. (Len(tm') + 1) - 1 /\ (n + 1) + 1 .. (Len(tm') + 1) - 1 = {}
    BY <1>1
  <2>. QED
    BY <2>1, <2>2 DEF SaidBefore, IsHk
<1>11. ASSUME NEW h \in 1 .. Len(tm'), LastHk(h)' PROVE Sending(h, events)'
  <2>1. h = n + 1
    <3>1. IsHk(n + 1)'
      BY <1>1, <1>2 DEF IsHk
    <3>2. h \in 1 .. n => n + 1 \in h + 1 .. Len(tm')
      BY <1>1
    <3>. QED
      BY <1>1, <1>11, <3>1, <3>2 DEF LastHk
  <2>2. EventsBetween(h, Len(tm) + 1)' = {}
    <3>1. h + 1 .. (Len(tm') + 1) - 1 = {}
      BY <1>1, <2>1
    <3>. QED
      BY <3>1 DEF EventsBetween
  <2>3. SaidBefore(h, b)'
    BY <1>6, <2>1
  <2>4. tm'[h].body = Now /\ Now.mode = mode
    BY <1>1, <1>2, <2>1 DEF Now
  <2>5. OnceEach(events', tm'[h].body.mode)
    BY <1>2, <1>3, <2>4
  <2>6. Ids(events') = ExpectedEvents(b, tm'[h].body)
    BY <1>2, <1>4, <2>4
  <2>7. {tm'[k].type : k \in EventsBetween(h, Len(tm) + 1)'} = {}
    BY <2>2
  <2>8. OnceEach(events, tm[h].body.mode)' /\ Ids(events)' = ExpectedEvents(b, tm[h].body)'
    BY <2>5, <2>6 DEF OnceEach, Ids, ExpectedEvents
  <2>9. \E c \in HkBody :
          /\ SaidBefore(h, c)'
          /\ {tm'[k].type : k \in EventsBetween(h, Len(tm) + 1)'} \cup Ids(events)'
               = ExpectedEvents(c, tm[h].body)'
    BY <2>3, <2>7, <2>8
  <2>. QED
    BY <2>2, <2>8, <2>9 DEF Sending
<1>12. loop' \in {"check", "events"} /\ (loop' = "check" => events' = << >>)
  BY <1>2
<1>. QED
  BY <1>8, <1>9, <1>10, <1>11, <1>12 DEF HkInv

\* An event packet goes out: one of the tick's is sent, the rest is left.
LEMMA SendEvent ==
  ASSUME TypeOK, HkInv, LoopSendEvent, tm' = Append(tm, EventPacket(Head(events))),
         loop' = IF Tail(events) = << >> THEN "check" ELSE "events"
  PROVE  HkInv'
<1>0. PICK n : n = Len(tm)
  OBVIOUS
<1>. DEFINE e == Head(events)
<1>1. /\ Grown /\ n = Len(tm) /\ Len(tm') = n + 1 /\ n \in Nat /\ n + 1 \in 1 .. Len(tm')
      /\ tm'[n + 1] = EventPacket(e)
      /\ \A k \in 1 .. Len(tm') : k \in 1 .. n \/ k = n + 1
      /\ \A k \in 1 .. n : IsHk(k)' <=> IsHk(k)
  BY <1>0, AppendGrows
<1>2. /\ loop = "events" /\ events # << >> /\ events \in Seq(EventType) /\ e \in EventType
      /\ events' = Tail(events) /\ UNCHANGED modelVars
  BY HeadTailProperties DEF LoopSendEvent, TypeOK
<1>3. /\ EventPacket(e).type = e.id /\ EventPacket(e).body = e.context
      /\ EventPacket(e).apid = APID_EVENT /\ e.id # "HK"
  BY <1>2 DEF EventPacket, Packet, EventType, EventId, LimitEvent, BATTERY_UNDERVOLTAGE,
              OBC_OVERTEMP, RW_OVERSPEED, MODE_CHANGE, MODE_SAFE
<1>. HIDE DEF e
<1>4. ~IsHk(n + 1)'
  BY <1>1, <1>3 DEF IsHk
<1>5. ASSUME NEW i \in 1 .. Len(tm'), NEW j \in 1 .. Len(tm'), i < j, IsHk(i)', IsHk(j)',
             \A k \in i + 1 .. j - 1 : ~IsHk(k)'
      PROVE  Encloses(i, j)'
  <2>1. i \in 1 .. Len(tm) /\ j \in 1 .. Len(tm)
    BY <1>1, <1>4, <1>5
  <2>. QED
    BY <1>1, <1>5, <2>1, OldPairs DEF HkInv
<1>6. EventsMatchHk'
  BY <1>5 DEF EventsMatchHk, Encloses, HkBody
<1>7. Latched' /\ Now' = Now
  BY <1>2 DEF HkInv, Latched, modelVars, Now
<1>8. SaidBefore(Len(tm) + 1, Now)'
  <2>1. SaidBefore(Len(tm) + 1, Now)
    BY <1>2 DEF HkInv
  <2>2. (Len(tm) + 1) - 1 = n /\ (Len(tm') + 1) - 1 = n + 1
    BY <1>1
  <2>3. CASE \E k \in 1 .. n : IsHk(k) /\ Now = tm[k].body /\ \A j \in k + 1 .. n : ~IsHk(j)
    <3>1. PICK k \in 1 .. n : IsHk(k) /\ Now = tm[k].body /\ \A j \in k + 1 .. n : ~IsHk(j)
      BY <2>3
    <3>2. k \in 1 .. n + 1 /\ tm'[k] = tm[k] /\ IsHk(k)'
      BY <1>1, <3>1 DEF Grown
    <3>3. ASSUME NEW j \in k + 1 .. n + 1 PROVE ~IsHk(j)'
      <4>1. j = n + 1 \/ (j \in 1 .. n /\ j \in k + 1 .. n)
        BY <1>1
      <4>. QED
        BY <1>1, <1>4, <3>1, <4>1
    <3>. QED
      BY <1>7, <2>2, <3>1, <3>2, <3>3 DEF SaidBefore
  <2>4. CASE Now = [mode |-> NOMINAL, outside |-> {}] /\ \A k \in 1 .. n : ~IsHk(k)
    <3>1. \A k \in 1 .. n + 1 : ~IsHk(k)'
      BY <1>1, <1>4, <2>4
    <3>. QED
      BY <1>7, <2>2, <2>4, <3>1 DEF SaidBefore
  <2>. QED
    BY <2>1, <2>2, <2>3, <2>4 DEF SaidBefore
<1>9. ASSUME NEW h \in 1 .. Len(tm'), LastHk(h)' PROVE Sending(h, events)'
  <2>1. h \in 1 .. Len(tm) /\ h \in 1 .. n /\ LastHk(h)
    <3>1. h \in 1 .. n
      BY <1>1, <1>4, <1>9 DEF LastHk
    <3>2. \A k \in h + 1 .. n : k \in h + 1 .. Len(tm') /\ k \in 1 .. n
      BY <1>1, <3>1
    <3>. QED
      BY <1>1, <1>9, <3>1, <3>2 DEF LastHk
  <2>2. Sending(h, events)
    BY <1>2, <2>1 DEF HkInv
  <2>3. PICK m : m = tm[h].body.mode
    OBVIOUS
  <2>4. tm'[h] = tm[h]
    BY <1>1, <2>1 DEF Grown
  <2>5. PICK rest : rest = Tail(events)
    OBVIOUS
  <2>6. /\ OnceEach(rest, m) /\ Ids(events) = {e.id} \cup Ids(rest) /\ e.id \notin Ids(rest)
        /\ e.id = MODE_CHANGE => e.context = m
    BY <1>2, <2>2, <2>3, <2>5, OnceEachTail DEF Sending, e
  <2>7. PICK S : S = EventsBetween(h, Len(tm) + 1)
    OBVIOUS
  <2>8. /\ \A k \in S : tm'[k] = tm[k] /\ k # n + 1
        /\ EventsBetween(h, Len(tm) + 1)' = S \cup {n + 1}
    <3>1. (Len(tm) + 1) - 1 = n /\ (Len(tm') + 1) - 1 = n + 1
      BY <1>1
    <3>2. \A k \in h + 1 .. n : k \in h + 1 .. n + 1 /\ k \in 1 .. Len(tm) /\ k # n + 1
      BY <1>1, <2>1
    <3>3. \A k \in h + 1 .. n + 1 : k = n + 1 \/ k \in h + 1 .. n
      BY <1>1, <2>1
    <3>4. n + 1 \in h + 1 .. n + 1
      BY <1>1, <2>1
    <3>5. \A k \in h + 1 .. n : tm'[k] = tm[k]
      BY <1>1, <3>2 DEF Grown
    <3>. QED
      BY <1>1, <1>3, <2>7, <3>1, <3>2, <3>3, <3>4, <3>5 DEF EventsBetween
  <2>9. PICK b \in HkBody :
          /\ SaidBefore(h, b)
          /\ {tm[k].type : k \in S} \cup Ids(events) = ExpectedEvents(b, tm[h].body)
    BY <2>2, <2>7 DEF Sending
  <2>10. SaidBefore(h, b)'
    <3>1. h \in 1 .. Len(tm) + 1
      BY <1>1, <2>1
    <3>. QED
      BY <1>1, <2>9, <3>1, SaidStays
  <2>11. {tm'[k].type : k \in S \cup {n + 1}} = {tm[k].type : k \in S} \cup {e.id}
    <3>1. tm'[n + 1].type = e.id /\ \A k \in S : tm'[k].type = tm[k].type
      BY <1>1, <1>3, <2>8
    <3>2. \A k \in S \cup {n + 1} : k \in S \/ k = n + 1
      OBVIOUS
    <3>3. \A k \in S \cup {n + 1} : tm'[k].type \in {tm[l].type : l \in S} \cup {e.id}
      BY <3>1, <3>2
    <3>4. {tm[k].type : k \in S} \subseteq {tm'[k].type : k \in S \cup {n + 1}}
      BY <3>1
    <3>5. e.id \in {tm'[k].type : k \in S \cup {n + 1}}
      BY <3>1
    <3>. QED
      BY <3>3, <3>4, <3>5
  <2>12. ExpectedEvents(b, tm[h].body)' = ExpectedEvents(b, tm[h].body)
    BY <2>4 DEF ExpectedEvents
  <2>13. rest = events'
    BY <1>2, <2>5
  <2>14. \E c \in HkBody :
           /\ SaidBefore(h, c)'
           /\ {tm'[k].type : k \in EventsBetween(h, Len(tm) + 1)'} \cup Ids(rest)
                = ExpectedEvents(c, tm[h].body)'
    BY <2>6, <2>8, <2>9, <2>10, <2>11, <2>12
  <2>15. /\ \A k, l \in S : k # l => tm[k].type # tm[l].type
         /\ \A k \in S : /\ tm[k].type \notin Ids(events)
                         /\ tm[k].type = MODE_CHANGE => tm[k].body = m
    BY <2>2, <2>3, <2>7 DEF Sending
  <2>16. \A k, l \in EventsBetween(h, Len(tm) + 1)' : k # l => tm'[k].type # tm'[l].type
    <3>1. tm'[n + 1].type = e.id /\ \A k \in S : tm'[k].type = tm[k].type
      BY <1>1, <1>3, <2>8
    <3>2. \A k \in S : tm[k].type # e.id
      BY <2>6, <2>15
    <3>3. \A k, l \in S : k # l => tm'[k].type # tm'[l].type
      BY <2>15, <3>1
    <3>4. \A k \in S : tm'[k].type # tm'[n + 1].type
      BY <3>1, <3>2
    <3>5. \A k, l \in S \cup {n + 1} : k # l => tm'[k].type # tm'[l].type
      BY <3>3, <3>4
    <3>. QED
      BY <2>8, <3>5
  <2>17. \A k \in EventsBetween(h, Len(tm) + 1)' :
           /\ tm'[k].type \notin Ids(rest)
           /\ tm'[k].type = MODE_CHANGE => tm'[k].body = tm'[h].body.mode
    BY <1>1, <1>3, <2>3, <2>4, <2>6, <2>8, <2>15
  <2>18. Sending(h, rest)'
    BY <2>3, <2>4, <2>6, <2>14, <2>16, <2>17 DEF Sending
  <2>. QED
    BY <2>13, <2>18 DEF Sending
<1>10. loop' \in {"check", "events"} /\ (loop' = "check" => events' = << >>)
  BY <1>2
<1>. QED
  BY <1>6, <1>7, <1>8, <1>9, <1>10 DEF HkInv

\* What the receiver sends is a report, on its own APID.
LEMMA ReceiverIsQuiet ==
  ASSUME TypeOK, Rx
  PROVE  Quiet /\ UNCHANGED <<loop, modelVars, events>>
<1>1. Len(tm) \in Nat
  BY DEF TypeOK
<1>2. ASSUME tm' = tm PROVE Quiet
  BY <1>1, <1>2 DEF Quiet, Grown
<1>3. ASSUME NEW report \in {"ACCEPTED", "REJECTED", "COMPLETED"}, NEW next,
             RxSend(report, next)
      PROVE  Quiet /\ UNCHANGED <<loop, modelVars, events>>
  <2>1. CASE tm' = Append(tm, AckPacket(report))
    <3>1. /\ Grown /\ Len(tm') = Len(tm) + 1 /\ tm'[Len(tm) + 1] = AckPacket(report)
      BY <2>1, AppendGrows
    <3>2. AckPacket(report).apid = APID_VERIFICATION /\ AckPacket(report).type # "HK"
      BY DEF AckPacket, Packet
    <3>3. \A k \in Len(tm) + 1 .. Len(tm') : k = Len(tm) + 1
      BY <1>1, <3>1
    <3>. QED
      BY <1>3, <3>1, <3>2, <3>3 DEF Quiet, RxSend, RxUnchanged, loopVars, modelVars
  <2>. QED
    BY <1>2, <1>3, <2>1 DEF RxSend, RxUnchanged, loopVars, modelVars
<1>4. CASE RxReject \/ RxAccept \/ RxComplete
  BY <1>3, <1>4 DEF RxReject, RxAccept, RxComplete
<1>5. CASE RxBind \/ RxCheckStop \/ RxTimeout \/ RxRecvError \/ RxReceive \/ RxApply
  BY <1>2, <1>5 DEF RxBind, RxCheckStop, RxTimeout, RxRecvError, RxReceive, RxApply,
                    RxUnchanged, loopVars, modelVars
<1>. QED
  BY <1>4, <1>5 DEF Rx

LEMMA HkStep == TypeOK /\ HkInv /\ [Next]_vars => HkInv'
<1>. SUFFICES ASSUME TypeOK, HkInv, [Next]_vars PROVE HkInv'
  OBVIOUS
<1>1. ASSUME tm' = tm PROVE Quiet
  <2>1. Len(tm) \in Nat
    BY DEF TypeOK
  <2>. QED
    BY <1>1, <2>1 DEF Quiet, Grown
<1>2. CASE LoopStep
  BY <1>2, TickHk
<1>3. CASE LoopSendHk
  <2>1. CASE tm' = tm /\ loop' = "finally"
    BY <1>1, <1>3, <2>1, LeavingStep DEF LoopSendHk
  <2>2. CASE tm' = Append(tm, HkPacket) /\ loop' = IF events = << >> THEN "check" ELSE "events"
    BY <1>3, <2>2, SendHk
  <2>. QED
    BY <1>3, <2>1, <2>2 DEF LoopSendHk, LoopSend
<1>4. CASE LoopSendEvent
  <2>1. CASE tm' = tm /\ loop' = "finally"
    BY <1>1, <1>4, <2>1, LeavingStep DEF LoopSendEvent
  <2>2. CASE /\ tm' = Append(tm, EventPacket(Head(events)))
             /\ loop' = IF Tail(events) = << >> THEN "check" ELSE "events"
    BY <1>4, <2>2, SendEvent
  <2>. QED
    BY <1>4, <2>1, <2>2 DEF LoopSendEvent, LoopSend
<1>5. CASE LoopSleep
  BY <1>1, <1>5, QuietStep DEF LoopSleep
<1>6. CASE LoopLeave \/ LoopStop \/ LoopClose
  BY <1>1, <1>6, LeavingStep DEF LoopLeave, LoopStop, LoopClose
<1>7. CASE Rx
  BY <1>7, ReceiverIsQuiet, QuietStep
<1>8. CASE UNCHANGED vars
  BY <1>1, <1>8, QuietStep DEF vars, loopVars
<1>. QED
  BY <1>2, <1>3, <1>4, <1>5, <1>6, <1>7, <1>8 DEF Next, Loop, Terminating

\* Two successive HK packets enclose exactly the events of the first one's tick,
\* each once, however the two threads interleave, whatever is commanded and
\* whichever send fails (anomalies._detect_events, sender.run_loop).
THEOREM EventsBetweenHk == Spec => []EventsMatchHk
<1>1. HkInv => EventsMatchHk
  BY DEF HkInv
<1>. QED
  BY InitHk, HkStep, TypeCorrect, <1>1, PTL DEF Spec
==============================================================================
