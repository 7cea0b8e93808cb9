---------------------------- MODULE TmLinkProofs ----------------------------
(***************************************************************************)
(* Theorems about TmLink, for every value of its constants: any APIDs, any *)
(* modulus above one, any number of losses, duplicates and restarts.       *)
(***************************************************************************)
EXTENDS TmLink, FiniteSetTheorems, SequenceTheorems, TLAPS

-----------------------------------------------------------------------------
(* Lemmas about counting modulo m.                                         *)

\* A number has one remainder.
LEMMA RemainderUnique ==
  ASSUME NEW m \in Nat \ {0}, NEW q \in Int, NEW r \in 0 .. m - 1
  PROVE  (m * q + r) % m = r
BY SMT

LEMMA QuotientRemainder ==
  ASSUME NEW m \in Nat \ {0}, NEW a \in Int
  PROVE  /\ a \div m \in Int
         /\ a % m \in 0 .. m - 1
         /\ a = m * (a \div m) + (a % m)
BY SMT

\* Turns of the counter do not change a remainder.
LEMMA TurnsVanish ==
  ASSUME NEW m \in Nat \ {0}, NEW a \in Int, NEW q \in Int
  PROVE  (a + m * q) % m = a % m
<1>1. PICK d \in Int, r \in 0 .. m - 1 : a = m * d + r /\ a % m = r
  BY QuotientRemainder
<1>2. m * (d + q) = m * d + m * q
  BY SMT
<1>3. a + m * q = m * (d + q) + r
  BY <1>1, <1>2, SMT
<1>4. d + q \in Int
  OBVIOUS
<1>5. (m * (d + q) + r) % m = r
  BY <1>4, RemainderUnique
<1>. QED
  BY <1>1, <1>3, <1>5

\* Reducing a count before adding to it makes no difference.
LEMMA ReduceFirst ==
  ASSUME NEW m \in Nat \ {0}, NEW a \in Int, NEW b \in Int
  PROVE  ((a % m) + b) % m = (a + b) % m
<1>1. PICK d \in Int, r \in 0 .. m - 1 : a = m * d + r /\ a % m = r
  BY QuotientRemainder
<1>2. (r + b + m * d) % m = (r + b) % m
  <2>1. r + b \in Int
    OBVIOUS
  <2>. QED
    BY <2>1, TurnsVanish
<1>3. a + b = r + b + m * d
  BY <1>1, SMT
<1>. QED
  BY <1>1, <1>2, <1>3

\* If the counts of two packets differ by one, so do their places, and the
\* other way round, up to whole turns.
LEMMA JumpIsDistance ==
  ASSUME NEW m \in Nat \ {0}, NEW s \in Int, NEW n \in Int, NEW t, t = (s + n) % m
  PROVE  (t - s) % m = n % m
<1>1. /\ s + n \in Int /\ -s \in Int
      /\ (s + n) + (-s) = n
      /\ (s + n) % m \in Int
  BY QuotientRemainder, SMT
<1>2. (((s + n) % m) + (-s)) % m = ((s + n) + (-s)) % m
  BY <1>1, ReduceFirst
<1>. QED
  BY <1>1, <1>2, SMT

\* A step back by one is a step forward of whole turns less one.
LEMMA BackByOne ==
  ASSUME NEW m \in Nat \ {0}, NEW d \in Int, NEW a \in Int, (-d) % m = 1, d % m = a % m
  PROVE  (a + 1) % m = 0
<1>1. PICK q \in Int : -d = m * q + 1
  <2>1. -d \in Int
    OBVIOUS
  <2>. QED
    BY <2>1, QuotientRemainder
<1>2. PICK u \in Int, v \in Int, r \in Int : d = m * u + r /\ a = m * v + r
  <2>1. /\ d \div m \in Int /\ d % m \in Int /\ d = m * (d \div m) + (d % m)
        /\ a \div m \in Int /\ a = m * (a \div m) + (a % m)
    BY QuotientRemainder
  <2>. QED
    BY <2>1
<1>3. PICK w \in Int : w = v - u - q
  OBVIOUS
<1>4. m * w = m * v - m * u - m * q
  BY <1>3, SMT
<1>5. a + 1 = m * w + 0
  BY <1>1, <1>2, <1>4, SMT
<1>6. (m * w + 0) % m = 0
  <2>1. 0 \in 0 .. m - 1
    OBVIOUS
  <2>. QED
    BY <2>1, RemainderUnique
<1>. QED
  BY <1>5, <1>6

-----------------------------------------------------------------------------
(* Type correctness.                                                       *)

\* Every packet sent is one of Packets: an APID and a count in its range.
LEMMA SentIsPacket ==
  ASSUME TypeOK, NEW i \in 1 .. Len(sent)
  PROVE  sent[i].apid \in Apids /\ sent[i].seq \in 0 .. SeqCountModulo - 1
BY TmLinkAssumption DEF TypeOK

\* Every variable stays in its range; only packets that were sent are in flight
\* or seen (UDP and MyPacketPreprocessor.process).
THEOREM TypeCorrect == Spec => []TypeOK
<1>1. Init => TypeOK
  BY TmLinkAssumption DEF Init, TypeOK
<1>2. TypeOK /\ [Next]_vars => TypeOK'
  <2>. SUFFICES ASSUME TypeOK, [Next]_vars PROVE TypeOK'
    OBVIOUS
  <2>0. Len(sent) \in Nat /\ 0 .. Len(sent) \subseteq 0 .. Len(sent) + 1
    BY LenProperties DEF TypeOK
  <2>1. CASE Send
    <3>1. PICK p \in Packets : sent' = Append(sent, p)
      BY <2>1 DEF Send
    <3>2. sent' \in Seq(Packets) /\ Len(sent') = Len(sent) + 1
      BY <3>1, AppendProperties DEF TypeOK
    <3>3. /\ \A b \in boots' : b \in 0 .. Len(sent')
          /\ \A i \in net' : i \in 1 .. Len(sent')
      BY <2>0, <2>1, <3>2 DEF Send, TypeOK
    <3>4. UNCHANGED <<seqCounts, log>> /\ 1 .. Len(sent) \subseteq 1 .. Len(sent')
      BY <2>1, <3>2 DEF Send, TypeOK
    <3>5. \A k \in 1 .. Len(log') : log'[k].packet \in 1 .. Len(sent')
      BY <3>4 DEF TypeOK
    <3>. QED
      BY <3>2, <3>3, <3>4, <3>5 DEF TypeOK
  <2>2. CASE Reboot
    <3>1. boots' = boots \cup {Len(sent)} /\ boots \in SUBSET (0 .. Len(sent))
      BY <2>2 DEF Reboot, TypeOK
    <3>2. \A b \in boots' : b \in 0 .. Len(sent)
      BY <2>0, <3>1
    <3>. QED
      BY <2>2, <3>2 DEF Reboot, TypeOK
  <2>3. CASE Lose
    BY <2>3 DEF Lose, TypeOK
  <2>4. CASE Deliver
    <3>1. PICK i \in net : Process(i) /\ net' \in {net, net \ {i}}
      BY <2>4 DEF Deliver
    <3>2. i \in 1 .. Len(sent)
      BY DEF TypeOK
    <3>3. seqCounts' \in [Apids -> 0 .. SeqCountModulo - 1]
      BY <3>1, <3>2, SentIsPacket DEF Process, TypeOK
    <3>4. Jump(sent[i].seq, seqCounts[sent[i].apid]) \in BOOLEAN
      BY DEF Jump
    <3>. QED
      BY <2>4, <3>1, <3>2, <3>3, <3>4 DEF Deliver, Process, TypeOK
  <2>5. CASE NewPreprocessor
    BY <2>5, TmLinkAssumption DEF NewPreprocessor, TypeOK
  <2>6. CASE UNCHANGED vars
    BY <2>6 DEF vars, TypeOK
  <2>. QED
    BY <2>1, <2>2, <2>3, <2>4, <2>5, <2>6 DEF Next
<1>. QED
  BY <1>1, <1>2, PTL DEF Spec

-----------------------------------------------------------------------------
(* The preprocessor's log.                                                 *)

\* No entry after the k-th is of its APID.
SeenLast(k) == \A l \in k + 1 .. Len(log) : ApidOf(l) # ApidOf(k)

\* What the counters of the preprocessor remember, and what each entry was
\* compared with.
LogInv ==
  /\ \A k \in 1 .. Len(log) :
       SeenLast(k) => seqCounts[ApidOf(k)] = sent[log[k].packet].seq
  /\ \A k \in 1 .. Len(log) : \A j \in 1 .. k - 1 : SeenBefore(j, k) =>
       log[k].jump = Jump(sent[log[k].packet].seq, sent[log[j].packet].seq)
  /\ \A k \in 1 .. Len(log) : SeenFirst(k) \/ \E j \in 1 .. k - 1 : SeenBefore(j, k)
  /\ \A a \in Apids : \/ \A k \in 1 .. Len(log) : ApidOf(k) # a
                      \/ \E k \in 1 .. Len(log) : ApidOf(k) = a /\ SeenLast(k)

LEMMA LogInvInit == Init => LogInv
BY DEF Init, LogInv

\* Nothing but a delivery and a new preprocessor touches the log.
LEMMA LogInvSameLog ==
  ASSUME TypeOK, LogInv, UNCHANGED <<seqCounts, log>>,
         \A i \in 1 .. Len(sent) : sent'[i] = sent[i]
  PROVE  LogInv'
<1>1. \A k \in 1 .. Len(log) : log[k].packet \in 1 .. Len(sent)
  BY DEF TypeOK
<1>2. \A k \in 1 .. Len(log) : sent'[log'[k].packet] = sent[log[k].packet]
  BY <1>1
<1>3. \A k \in 1 .. Len(log) : ApidOf(k)' = ApidOf(k)
  BY <1>2 DEF ApidOf
<1>4. \A k \in 1 .. Len(log) : SeenLast(k)' = SeenLast(k) /\ SeenFirst(k)' = SeenFirst(k)
  BY <1>3 DEF SeenLast, SeenFirst, TypeOK
<1>5. \A k \in 1 .. Len(log) : \A j \in 1 .. k - 1 : SeenBefore(j, k)' = SeenBefore(j, k)
  <2>. SUFFICES ASSUME NEW k \in 1 .. Len(log), NEW j \in 1 .. k - 1
                PROVE  SeenBefore(j, k)' = SeenBefore(j, k)
    OBVIOUS
  <2>1. Len(log) \in Nat
    BY DEF TypeOK
  <2>2. j \in 1 .. Len(log) /\ \A l \in j + 1 .. k - 1 : l \in 1 .. Len(log)
    BY <2>1
  <2>. QED
    BY <1>3, <2>2 DEF SeenBefore
<1>6. \A k \in 1 .. Len(log) : SeenLast(k)' =>
        seqCounts'[ApidOf(k)'] = sent'[log'[k].packet].seq
  BY <1>2, <1>3, <1>4 DEF LogInv
<1>7. \A k \in 1 .. Len(log) : \A j \in 1 .. k - 1 : SeenBefore(j, k)' =>
        log'[k].jump = Jump(sent'[log'[k].packet].seq, sent'[log'[j].packet].seq)
  <2>1. \A k \in 1 .. Len(log) : \A j \in 1 .. k - 1 : j \in 1 .. Len(log)
    BY DEF TypeOK
  <2>. QED
    BY <1>2, <1>5, <2>1 DEF LogInv
<1>8. \A k \in 1 .. Len(log) : SeenFirst(k)' \/ \E j \in 1 .. k - 1 : SeenBefore(j, k)'
  BY <1>4, <1>5 DEF LogInv
<1>9. \A a \in Apids : \/ \A k \in 1 .. Len(log) : ApidOf(k)' # a
                       \/ \E k \in 1 .. Len(log) : ApidOf(k)' = a /\ SeenLast(k)'
  BY <1>3, <1>4 DEF LogInv
<1>. QED
  BY <1>6, <1>7, <1>8, <1>9 DEF LogInv, Jump

LEMMA LogInvDeliver == TypeOK /\ LogInv /\ Deliver => LogInv'
<1>. SUFFICES ASSUME TypeOK, LogInv, Deliver PROVE LogInv'
  OBVIOUS
<1>1. PICK i \in net : Process(i)
  BY DEF Deliver
<1>0. Len(log) \in Nat /\ i \in 1 .. Len(sent)
  BY LenProperties DEF TypeOK
<1>a. PICK n \in Nat : n = Len(log) + 1
  BY <1>0
<1>b. PICK a \in Apids : a = sent[i].apid
  BY <1>0, SentIsPacket
<1>2. /\ i \in 1 .. Len(sent) /\ a \in Apids /\ a = sent[i].apid
      /\ Len(log) \in Nat /\ n \in Nat /\ n = Len(log) + 1 /\ sent' = sent
  BY <1>0, <1>a, <1>b DEF Deliver
<1>3. /\ Len(log') = n
      /\ \A k \in 1 .. Len(log) : log'[k] = log[k]
      /\ log'[n] = [packet |-> i, jump |-> Jump(sent[i].seq, seqCounts[a])]
  <2>1. Jump(sent[i].seq, seqCounts[a]) \in BOOLEAN
    BY DEF Jump
  <2>2. [packet |-> i, jump |-> Jump(sent[i].seq, seqCounts[a])]
          \in [packet : Nat, jump : BOOLEAN]
    BY <1>2, <2>1
  <2>. QED
    BY <1>1, <1>2, <2>2, AppendProperties DEF Process, TypeOK
<1>4. /\ seqCounts'[a] = sent[i].seq
      /\ \A b \in Apids : b # a => seqCounts'[b] = seqCounts[b]
  BY <1>1, <1>2 DEF Process, TypeOK
<1>5. /\ \A k \in 1 .. Len(log) : ApidOf(k)' = ApidOf(k) /\ ApidOf(k) \in Apids
      /\ ApidOf(n)' = a
  <2>1. \A k \in 1 .. Len(log) : log[k].packet \in 1 .. Len(sent)
    BY DEF TypeOK
  <2>2. \A k \in 1 .. Len(log) : sent[log[k].packet].apid \in Apids
    BY <2>1, SentIsPacket
  <2>3. \A k \in 1 .. Len(log) : log'[k].packet = log[k].packet
    BY <1>3
  <2>4. log'[n].packet = i
    BY <1>3
  <2>. QED
    BY <1>2, <2>2, <2>3, <2>4 DEF ApidOf
<1>6. /\ \A k \in 1 .. Len(log) : SeenLast(k)' <=> SeenLast(k) /\ ApidOf(k) # a
      /\ SeenLast(n)'
  <2>1. SeenLast(n)'
    BY <1>2, <1>3 DEF SeenLast
  <2>2. ASSUME NEW k \in 1 .. Len(log) PROVE SeenLast(k)' <=> SeenLast(k) /\ ApidOf(k) # a
    <3>1. \A l \in k + 1 .. n : l = n \/ l \in k + 1 .. Len(log)
      BY <1>2
    <3>2. n \in k + 1 .. n /\ \A l \in k + 1 .. Len(log) : l \in k + 1 .. n /\ l \in 1 .. Len(log)
      BY <1>2
    <3>. QED
      BY <1>3, <1>5, <3>1, <3>2 DEF SeenLast
  <2>. QED
    BY <2>1, <2>2
<1>7. /\ \A k \in 1 .. Len(log) : \A j \in 1 .. k - 1 : SeenBefore(j, k)' <=> SeenBefore(j, k)
      /\ \A j \in 1 .. Len(log) : SeenBefore(j, n)' <=> ApidOf(j) = a /\ SeenLast(j)
  <2>1. ASSUME NEW k \in 1 .. Len(log), NEW j \in 1 .. k - 1
        PROVE  SeenBefore(j, k)' <=> SeenBefore(j, k)
    <3>1. j \in 1 .. Len(log) /\ \A l \in j + 1 .. k - 1 : l \in 1 .. Len(log)
      BY <1>2
    <3>. QED
      BY <1>5, <3>1 DEF SeenBefore
  <2>2. ASSUME NEW j \in 1 .. Len(log) PROVE SeenBefore(j, n)' <=> ApidOf(j) = a /\ SeenLast(j)
    <3>1. n - 1 = Len(log) /\ j < n /\ \A l \in j + 1 .. Len(log) : l \in 1 .. Len(log)
      BY <1>2
    <3>. QED
      BY <1>5, <3>1 DEF SeenBefore, SeenLast
  <2>. QED
    BY <2>1, <2>2
<1>8. SeenFirst(n)' <=> \A j \in 1 .. Len(log) : ApidOf(j) # a
  BY <1>2, <1>5 DEF SeenFirst
<1>9. \A k \in 1 .. Len(log) : SeenFirst(k)' <=> SeenFirst(k)
  <2>1. \A k \in 1 .. Len(log) : \A j \in 1 .. k - 1 : j \in 1 .. Len(log)
    BY <1>2
  <2>. QED
    BY <1>5, <2>1 DEF SeenFirst
<1>10. 1 .. Len(log') = (1 .. Len(log)) \cup {n} /\ 1 .. n - 1 = 1 .. Len(log)
  BY <1>2, <1>3
<1>11. \A k \in 1 .. Len(log') : SeenLast(k)' =>
         seqCounts'[ApidOf(k)'] = sent'[log'[k].packet].seq
  <2>1. ASSUME NEW k \in 1 .. Len(log), SeenLast(k)'
        PROVE  seqCounts'[ApidOf(k)'] = sent'[log'[k].packet].seq
    BY <1>2, <1>3, <1>4, <1>5, <1>6, <2>1 DEF LogInv
  <2>2. seqCounts'[ApidOf(n)'] = sent'[log'[n].packet].seq
    BY <1>2, <1>3, <1>4, <1>5
  <2>. QED
    BY <1>10, <2>1, <2>2
<1>12. \A k \in 1 .. Len(log') : \A j \in 1 .. k - 1 : SeenBefore(j, k)' =>
         log'[k].jump = Jump(sent'[log'[k].packet].seq, sent'[log'[j].packet].seq)
  <2>1. ASSUME NEW k \in 1 .. Len(log), NEW j \in 1 .. k - 1, SeenBefore(j, k)'
        PROVE  log'[k].jump = Jump(sent'[log'[k].packet].seq, sent'[log'[j].packet].seq)
    <3>1. j \in 1 .. Len(log)
      BY <1>2
    <3>. QED
      BY <1>2, <1>3, <1>7, <2>1, <3>1 DEF LogInv
  <2>2. ASSUME NEW j \in 1 .. Len(log), SeenBefore(j, n)'
        PROVE  log'[n].jump = Jump(sent'[log'[n].packet].seq, sent'[log'[j].packet].seq)
    <3>1. ApidOf(j) = a /\ SeenLast(j)
      BY <1>7, <2>2
    <3>2. seqCounts[a] = sent[log[j].packet].seq
      BY <3>1 DEF LogInv
    <3>. QED
      BY <1>2, <1>3, <3>2
  <2>. QED
    BY <1>10, <2>1, <2>2
<1>13. \A k \in 1 .. Len(log') : SeenFirst(k)' \/ \E j \in 1 .. k - 1 : SeenBefore(j, k)'
  <2>1. ASSUME NEW k \in 1 .. Len(log)
        PROVE  SeenFirst(k)' \/ \E j \in 1 .. k - 1 : SeenBefore(j, k)'
    BY <1>7, <1>9 DEF LogInv
  <2>2. SeenFirst(n)' \/ \E j \in 1 .. n - 1 : SeenBefore(j, n)'
    <3>1. \/ \A k \in 1 .. Len(log) : ApidOf(k) # a
          \/ \E k \in 1 .. Len(log) : ApidOf(k) = a /\ SeenLast(k)
      BY <1>2 DEF LogInv
    <3>. QED
      BY <1>7, <1>8, <1>10, <3>1
  <2>. QED
    BY <1>10, <2>1, <2>2
<1>14. \A b \in Apids : \/ \A k \in 1 .. Len(log') : ApidOf(k)' # b
                        \/ \E k \in 1 .. Len(log') : ApidOf(k)' = b /\ SeenLast(k)'
  <2>. SUFFICES ASSUME NEW b \in Apids
                PROVE  \/ \A k \in 1 .. Len(log') : ApidOf(k)' # b
                       \/ \E k \in 1 .. Len(log') : ApidOf(k)' = b /\ SeenLast(k)'
    OBVIOUS
  <2>1. CASE b = a
    BY <1>5, <1>6, <1>10, <2>1
  <2>2. CASE b # a
    <3>1. \/ \A k \in 1 .. Len(log) : ApidOf(k) # b
          \/ \E k \in 1 .. Len(log) : ApidOf(k) = b /\ SeenLast(k)
      BY DEF LogInv
    <3>. QED
      BY <1>5, <1>6, <1>10, <2>2, <3>1
  <2>. QED
    BY <2>1, <2>2
<1>. QED
  BY <1>11, <1>12, <1>13, <1>14 DEF LogInv, Jump

LEMMA LogInvNext == TypeOK /\ LogInv /\ [Next]_vars => LogInv'
<1>. SUFFICES ASSUME TypeOK, LogInv, [Next]_vars PROVE LogInv'
  OBVIOUS
<1>1. CASE Send
  <2>1. PICK p \in Packets : sent' = Append(sent, p)
    BY <1>1 DEF Send
  <2>2. \A i \in 1 .. Len(sent) : sent'[i] = sent[i]
    BY <2>1, AppendProperties DEF TypeOK
  <2>. QED
    BY <1>1, <2>2, LogInvSameLog DEF Send
<1>2. CASE Reboot \/ Lose \/ UNCHANGED vars
  BY <1>2, LogInvSameLog DEF Reboot, Lose, vars
<1>3. CASE Deliver
  BY <1>3, LogInvDeliver
<1>4. CASE NewPreprocessor
  <2>1. Len(log') = 0
    BY <1>4 DEF NewPreprocessor
  <2>. QED
    BY <2>1 DEF LogInv
<1>. QED
  BY <1>1, <1>2, <1>3, <1>4 DEF Next

-----------------------------------------------------------------------------
(* The counts of the packets sent.                                         *)

\* The count of a packet is that of an earlier one of its APID and run plus the
\* number of packets of the APID since.
CountsAdvance ==
  \A i, k \in 1 .. Len(sent) :
    i < k /\ sent[i].apid = sent[k].apid /\ SameBoot(i, k) =>
      /\ Advance(sent, i, k) \in Nat
      /\ sent[k].seq = (sent[i].seq + Advance(sent, i, k)) % SeqCountModulo

\* The packet that follows next to another carries the next count.
AdjacentCounts ==
  \A i, k \in 1 .. Len(sent) :
    Adjacent(i, k) => sent[k].seq = (sent[i].seq + 1) % SeqCountModulo

\* One more packet on an APID is one more step of its count.
LEMMA AdvanceByOne ==
  ASSUME NEW s, NEW i \in Nat, NEW l \in Nat, NEW n \in Nat, i <= l, l < n,
         s[l].apid = s[n].apid,
         \A j \in l + 1 .. n - 1 : s[j].apid # s[n].apid
  PROVE  Advance(s, i, n) = Advance(s, i, l) + 1
<1>. DEFINE S(k) == {j \in i + 1 .. k : s[j].apid = s[k].apid}
<1>1. IsFiniteSet(S(l)) /\ n \notin S(l)
  <2>1. IsFiniteSet(i + 1 .. l)
    BY FS_Interval
  <2>2. S(l) \subseteq i + 1 .. l /\ n \notin i + 1 .. l
    OBVIOUS
  <2>. QED
    BY <2>1, <2>2, FS_Subset
<1>2. S(n) = S(l) \cup {n}
  <2>1. \A j \in i + 1 .. n : j \in i + 1 .. l \/ j \in l + 1 .. n - 1 \/ j = n
    OBVIOUS
  <2>2. n \in i + 1 .. n /\ \A j \in i + 1 .. l : j \in i + 1 .. n
    OBVIOUS
  <2>. QED
    BY <2>1, <2>2
<1>3. Cardinality(S(n)) = Cardinality(S(l)) + 1
  BY <1>1, <1>2, FS_AddElement
<1>. QED
  BY <1>3 DEF Advance

LEMMA CountsSameSent ==
  ASSUME TypeOK, CountsAdvance, AdjacentCounts, sent' = sent,
         boots' = boots \/ boots' = boots \cup {Len(sent)}
  PROVE  CountsAdvance' /\ AdjacentCounts'
<1>1. \A i, k \in 1 .. Len(sent) : SameBoot(i, k)' => SameBoot(i, k)
  BY DEF SameBoot
<1>2. \A i, k : Advance(sent', i, k) = Advance(sent, i, k)
  BY DEF Advance
<1>3. \A i, k \in 1 .. Len(sent) : Adjacent(i, k)' => Adjacent(i, k)
  BY <1>1 DEF Adjacent
<1>. QED
  BY <1>1, <1>2, <1>3 DEF CountsAdvance, AdjacentCounts

LEMMA CountsSend == TypeOK /\ CountsAdvance /\ AdjacentCounts /\ Send
                      => CountsAdvance' /\ AdjacentCounts'
<1>. SUFFICES ASSUME TypeOK, CountsAdvance, AdjacentCounts, Send
              PROVE  CountsAdvance' /\ AdjacentCounts'
  OBVIOUS
<1>1. PICK p \in Packets : InSequence(p) /\ sent' = Append(sent, p)
  BY DEF Send
<1>2. PICK n \in Nat : n = Len(sent) + 1
  BY LenProperties DEF TypeOK
<1>3. /\ Len(sent) \in Nat /\ Len(sent') = n /\ sent'[n] = p
      /\ \A i \in 1 .. Len(sent) : sent'[i] = sent[i]
      /\ boots' = boots
  BY <1>1, <1>2, AppendProperties, LenProperties DEF TypeOK, Send
<1>4. \A i, k : SameBoot(i, k)' <=> SameBoot(i, k)
  BY <1>3 DEF SameBoot
<1>5. ASSUME NEW i \in 1 .. Len(sent), NEW k \in 1 .. Len(sent)
      PROVE  /\ Advance(sent', i, k) = Advance(sent, i, k)
             /\ Adjacent(i, k)' <=> Adjacent(i, k)
  <2>1. \A j \in i + 1 .. k : j \in 1 .. Len(sent)
    BY <1>3
  <2>2. {j \in i + 1 .. k : sent'[j].apid = sent'[k].apid}
          = {j \in i + 1 .. k : sent[j].apid = sent[k].apid}
    BY <1>3, <2>1
  <2>3. \A j \in i + 1 .. k - 1 : j \in i + 1 .. k
    BY <1>3
  <2>. QED
    BY <1>3, <1>4, <2>1, <2>2, <2>3 DEF Advance, Adjacent
\* The packet before the new one on its APID, if it is of the same run.
<1>6. ASSUME NEW i \in 1 .. Len(sent), sent[i].apid = p.apid, SameBoot(i, n)
      PROVE  \E l \in 1 .. Len(sent) :
               /\ i <= l /\ sent[l].apid = p.apid /\ SameBoot(i, l)
               /\ \A j \in l + 1 .. Len(sent) : sent[j].apid # p.apid
               /\ p.seq = (sent[l].seq + 1) % SeqCountModulo
  <2>. DEFINE since == {j \in 1 .. Len(sent) : sent[j].apid = p.apid /\ \A b \in boots : b < j}
  <2>1. \A b \in boots : b \in 0 .. Len(sent)
    BY DEF TypeOK
  <2>2. i \in since
    BY <1>2, <1>3, <1>6, <2>1 DEF SameBoot
  <2>3. PICK l \in since : /\ \A j \in since : j <= l
                          /\ p.seq = (sent[l].seq + 1) % SeqCountModulo
    BY <1>1, <2>2 DEF InSequence
  <2>4. SameBoot(i, l)
    BY <2>1, <2>2, <2>3 DEF SameBoot
  <2>5. \A j \in l + 1 .. Len(sent) : sent[j].apid # p.apid
    <3>. SUFFICES ASSUME NEW j \in l + 1 .. Len(sent), sent[j].apid = p.apid PROVE FALSE
      OBVIOUS
    <3>1. j \in since
      BY <1>3, <2>1, <2>3
    <3>. QED
      BY <1>3, <2>3, <3>1
  <2>. QED
    BY <2>2, <2>3, <2>4, <2>5
<1>7. 1 .. Len(sent') = (1 .. Len(sent)) \cup {n} /\ n - 1 = Len(sent)
  BY <1>2, <1>3
<1>8. ASSUME NEW i \in 1 .. Len(sent), sent[i].apid = p.apid, SameBoot(i, n)
      PROVE  /\ Advance(sent', i, n) \in Nat
             /\ p.seq = (sent[i].seq + Advance(sent', i, n)) % SeqCountModulo
  <2>1. PICK l \in 1 .. Len(sent) :
               /\ i <= l /\ sent[l].apid = p.apid /\ SameBoot(i, l)
               /\ \A j \in l + 1 .. Len(sent) : sent[j].apid # p.apid
               /\ p.seq = (sent[l].seq + 1) % SeqCountModulo
    BY <1>6, <1>8
  <2>2. i < l => /\ Advance(sent, i, l) \in Nat
                 /\ sent[l].seq = (sent[i].seq + Advance(sent, i, l)) % SeqCountModulo
    BY <1>8, <2>1 DEF CountsAdvance
  <2>3. Advance(sent', i, n) = Advance(sent', i, l) + 1
    <3>1. /\ i \in Nat /\ l \in Nat /\ i <= l /\ l < n
          /\ sent'[l].apid = sent'[n].apid
          /\ \A j \in l + 1 .. n - 1 : sent'[j].apid # sent'[n].apid
      <4>1. \A j \in l + 1 .. n - 1 : j \in 1 .. Len(sent)
        BY <1>2, <1>3
      <4>. QED
        BY <1>2, <1>3, <1>7, <2>1, <4>1
    <3>. QED
      BY <3>1, AdvanceByOne
  <2>4. sent[i].seq \in Int
    BY SentIsPacket, TmLinkAssumption
  <2>5. CASE i < l
    <3>0. Advance(sent', i, l) = Advance(sent, i, l)
      BY <1>5
    <3>1. Advance(sent', i, n) = Advance(sent, i, l) + 1 /\ Advance(sent, i, l) \in Nat
      BY <2>2, <2>3, <2>5, <3>0
    <3>2. p.seq = (((sent[i].seq + Advance(sent, i, l)) % SeqCountModulo) + 1) % SeqCountModulo
      BY <2>1, <2>2, <2>5
    <3>3. SeqCountModulo \in Nat \ {0} /\ sent[i].seq + Advance(sent, i, l) \in Int
      BY <2>4, <3>1, TmLinkAssumption
    <3>4. PICK x \in Int : x = sent[i].seq + Advance(sent, i, l)
      BY <3>3
    <3>5. p.seq = (x + 1) % SeqCountModulo
      <4>1. ((x % SeqCountModulo) + 1) % SeqCountModulo = (x + 1) % SeqCountModulo
        <5>1. PICK o \in Int : o = 1
          OBVIOUS
        <5>2. ((x % SeqCountModulo) + o) % SeqCountModulo = (x + o) % SeqCountModulo
          BY <3>3, ReduceFirst
        <5>. QED
          BY <5>1, <5>2
      <4>. QED
        BY <3>2, <3>4, <4>1
    <3>6. x + 1 = sent[i].seq + Advance(sent', i, n)
      BY <2>4, <3>1, <3>4
    <3>. QED
      BY <3>1, <3>5, <3>6
  <2>6. CASE i = l
    <3>1. {j \in i + 1 .. l : sent[j].apid = sent[l].apid} = {}
      BY <2>6
    <3>2. Advance(sent, i, l) = 0
      BY <3>1, FS_EmptySet DEF Advance
    <3>3. Advance(sent', i, l) = 0
      BY <1>5, <3>2
    <3>. QED
      BY <2>1, <2>3, <2>6, <3>3
  <2>. QED
    BY <2>1, <2>5, <2>6
<1>9. CountsAdvance'
  <2>. SUFFICES ASSUME NEW i \in 1 .. Len(sent'), NEW k \in 1 .. Len(sent'),
                       i < k, sent'[i].apid = sent'[k].apid, SameBoot(i, k)'
                PROVE  /\ Advance(sent', i, k) \in Nat
                       /\ sent'[k].seq = (sent'[i].seq + Advance(sent', i, k)) % SeqCountModulo
    BY DEF CountsAdvance
  <2>1. i \in 1 .. Len(sent)
    BY <1>2, <1>3
  <2>2. CASE k = n
    BY <1>3, <1>4, <1>8, <2>1, <2>2
  <2>3. CASE k # n
    BY <1>3, <1>4, <1>5, <1>7, <2>1, <2>3 DEF CountsAdvance
  <2>. QED
    BY <2>2, <2>3
<1>10. AdjacentCounts'
  <2>. SUFFICES ASSUME NEW i \in 1 .. Len(sent'), NEW k \in 1 .. Len(sent'), Adjacent(i, k)'
                PROVE  sent'[k].seq = (sent'[i].seq + 1) % SeqCountModulo
    BY DEF AdjacentCounts
  <2>0. /\ i < k /\ sent'[i].apid = sent'[k].apid /\ SameBoot(i, k)'
        /\ \A j \in i + 1 .. k - 1 : sent'[j].apid # sent'[k].apid
    BY DEF Adjacent
  <2>1. i \in 1 .. Len(sent)
    BY <1>2, <1>3, <2>0
  <2>2. CASE k = n
    <3>1. sent[i].apid = p.apid /\ SameBoot(i, n)
      BY <1>3, <1>4, <2>0, <2>1, <2>2
    <3>2. PICK l \in 1 .. Len(sent) :
               /\ i <= l /\ sent[l].apid = p.apid
               /\ p.seq = (sent[l].seq + 1) % SeqCountModulo
      BY <1>6, <2>1, <3>1
    <3>3. l = i
      <4>1. l # i => l \in i + 1 .. k - 1
        BY <1>3, <1>7, <2>2, <3>2
      <4>. QED
        BY <1>3, <2>0, <2>2, <3>2, <4>1
    <3>. QED
      BY <1>3, <2>1, <2>2, <3>2, <3>3
  <2>3. CASE k # n
    BY <1>3, <1>5, <1>7, <2>1, <2>3 DEF AdjacentCounts
  <2>. QED
    BY <2>2, <2>3
<1>. QED
  BY <1>9, <1>10

-----------------------------------------------------------------------------
(* What the warnings tell.                                                 *)

LinkInv == TypeOK /\ LogInv /\ CountsAdvance /\ AdjacentCounts

LEMMA LinkInvariant == Spec => []LinkInv
<1>1. Init => LogInv /\ CountsAdvance /\ AdjacentCounts
  BY LogInvInit DEF Init, CountsAdvance, AdjacentCounts
<1>2. /\ TypeOK /\ LogInv /\ CountsAdvance /\ AdjacentCounts /\ [Next]_vars
      => LogInv' /\ CountsAdvance' /\ AdjacentCounts'
  <2>. SUFFICES ASSUME TypeOK, LogInv, CountsAdvance, AdjacentCounts, [Next]_vars
                PROVE  LogInv' /\ CountsAdvance' /\ AdjacentCounts'
    OBVIOUS
  <2>1. CASE Send
    BY <2>1, CountsSend, LogInvNext
  <2>2. CASE Reboot \/ Lose \/ Deliver \/ NewPreprocessor \/ UNCHANGED vars
    <3>1. sent' = sent /\ (boots' = boots \/ boots' = boots \cup {Len(sent)})
      BY <2>2 DEF Reboot, Lose, Deliver, NewPreprocessor, vars
    <3>. QED
      BY <3>1, CountsSameSent, LogInvNext
  <2>. QED
    BY <2>1, <2>2 DEF Next
<1>. QED
  BY <1>1, <1>2, TypeCorrect, PTL DEF Spec, LinkInv

\* The packets behind two entries of the log, and their counts.
LEMMA EntriesOfLog ==
  ASSUME TypeOK, NEW k \in 1 .. Len(log)
  PROVE  /\ log[k].packet \in 1 .. Len(sent)
         /\ sent[log[k].packet].seq \in 0 .. SeqCountModulo - 1
BY SentIsPacket DEF TypeOK

\* MyPacketPreprocessor.process warns only of a first packet or where the stream
\* it sees is not the one sent: on a link and a simulator without faults it is
\* silent after the first packet, at the wrap of the counts too.
THEOREM WarningsHaveCause == Spec => []WarningHasCause
<1>1. LinkInv => WarningHasCause
  <2>. SUFFICES ASSUME LinkInv, NEW k \in 1 .. Len(log), log[k].jump, ~SeenFirst(k)
                PROVE  \E j \in 1 .. k - 1 :
                         SeenBefore(j, k) /\ ~Adjacent(log[j].packet, log[k].packet)
    BY DEF WarningHasCause
  <2>1. PICK j \in 1 .. k - 1 : SeenBefore(j, k)
    BY DEF LinkInv, LogInv
  <2>2. j \in 1 .. Len(log)
    BY LenProperties DEF LinkInv, TypeOK
  <2>. DEFINE s == sent[log[j].packet].seq
              t == sent[log[k].packet].seq
  <2>3. Jump(t, s)
    BY <2>1 DEF LinkInv, LogInv
  <2>4. ASSUME Adjacent(log[j].packet, log[k].packet) PROVE FALSE
    <3>1. t = (s + 1) % SeqCountModulo
      BY <2>2, <2>4, EntriesOfLog DEF LinkInv, AdjacentCounts
    <3>2. s \in Int
      BY <2>2, EntriesOfLog, TmLinkAssumption DEF LinkInv
    <3>. HIDE DEF s, t
    <3>3. (t - s) % SeqCountModulo = 1 % SeqCountModulo
      <4>1. SeqCountModulo \in Nat \ {0} /\ 1 \in Int
        BY TmLinkAssumption
      <4>. QED
        BY <3>1, <3>2, <4>1, JumpIsDistance
    <3>4. 1 % SeqCountModulo = 1
      BY TmLinkAssumption, SMT
    <3>. QED
      BY <2>3, <3>3, <3>4 DEF Jump
  <2>. QED
    BY <2>1, <2>4
<1>. QED
  BY <1>1, LinkInvariant, PTL

\* Where MyPacketPreprocessor.process is silent nothing is missing but whole turns of
\* the counter: a loss, a duplicate or an overtaking of less than 2^14 packets on an
\* APID shows, whatever else the link did before.
THEOREM SilenceIsSound == Spec => []SilenceMeansSuccessor
<1>1. LinkInv => SilenceMeansSuccessor
  <2>. SUFFICES ASSUME LinkInv, NEW j \in 1 .. Len(log), NEW k \in 1 .. Len(log),
                       SeenBefore(j, k), ~log[k].jump,
                       NEW i, NEW n, i = log[j].packet, n = log[k].packet
                PROVE  /\ i < n /\ SameBoot(i, n) => Advance(sent, i, n) % SeqCountModulo = 1
                       /\ n <= i /\ SameBoot(n, i) =>
                            (Advance(sent, n, i) + 1) % SeqCountModulo = 0
    BY DEF SilenceMeansSuccessor
  <2>1. PICK s \in Int, t \in Int : s = sent[i].seq /\ t = sent[n].seq
    BY EntriesOfLog, TmLinkAssumption DEF LinkInv
  <2>2. (t - s) % SeqCountModulo = 1
    <3>1. j \in 1 .. k - 1
      BY DEF SeenBefore
    <3>. QED
      BY <2>1, <3>1 DEF LinkInv, LogInv, Jump
  <2>3. /\ i \in 1 .. Len(sent) /\ n \in 1 .. Len(sent)
        /\ sent[i].apid = sent[n].apid
        /\ SeqCountModulo \in Nat \ {0}
    BY EntriesOfLog, TmLinkAssumption DEF LinkInv, SeenBefore, ApidOf
  <2>4. ASSUME i < n, SameBoot(i, n) PROVE Advance(sent, i, n) % SeqCountModulo = 1
    <3>1. PICK a \in Int : a = Advance(sent, i, n) /\ t = (s + a) % SeqCountModulo
      <4>1. /\ Advance(sent, i, n) \in Nat
            /\ sent[n].seq = (sent[i].seq + Advance(sent, i, n)) % SeqCountModulo
        BY <2>3, <2>4 DEF LinkInv, CountsAdvance
      <4>2. Advance(sent, i, n) \in Int
        BY <4>1
      <4>. QED
        BY <2>1, <4>1, <4>2
    <3>2. (t - s) % SeqCountModulo = a % SeqCountModulo
      BY <2>3, <3>1, JumpIsDistance
    <3>. QED
      BY <2>2, <3>1, <3>2
  <2>5. ASSUME n <= i, SameBoot(n, i) PROVE (Advance(sent, n, i) + 1) % SeqCountModulo = 0
    <3>1. n # i
      <4>1. 0 % SeqCountModulo = 0
        BY <2>3, SMT
      <4>. QED
        BY <2>1, <2>2, <4>1
    <3>2. PICK a \in Int : a = Advance(sent, n, i) /\ s = (t + a) % SeqCountModulo
      <4>1. n < i
        BY <2>3, <2>5, <3>1
      <4>2. /\ Advance(sent, n, i) \in Nat
            /\ sent[i].seq = (sent[n].seq + Advance(sent, n, i)) % SeqCountModulo
        BY <2>3, <2>5, <4>1 DEF LinkInv, CountsAdvance
      <4>3. Advance(sent, n, i) \in Int
        BY <4>2
      <4>. QED
        BY <2>1, <4>2, <4>3
    <3>3. (s - t) % SeqCountModulo = a % SeqCountModulo
      BY <2>3, <3>2, JumpIsDistance
    <3>4. -(s - t) = t - s /\ s - t \in Int
      OBVIOUS
    <3>5. PICK d \in Int : d = s - t
      OBVIOUS
    <3>6. (-d) % SeqCountModulo = 1 /\ d % SeqCountModulo = a % SeqCountModulo
      BY <2>2, <3>3, <3>4, <3>5
    <3>7. (a + 1) % SeqCountModulo = 0
      BY <2>3, <3>6, BackByOne
    <3>. QED
      BY <3>2, <3>7
  <2>. QED
    BY <2>4, <2>5
<1>. QED
  BY <1>1, LinkInvariant, PTL
=============================================================================
