------------------------------- MODULE TmLink -------------------------------
(***************************************************************************)
(* The downlink: packets leave the simulator by UDP, which may lose,       *)
(* reorder and duplicate them, and MyPacketPreprocessor looks for jumps in *)
(* the sequence counts of every APID. Both ends may restart: the simulator *)
(* counts from zero again, Yamcs makes a new preprocessor.                 *)
(*                                                                         *)
(* A datagram too short to have a header (never one of the simulator's) is *)
(* dropped before it is looked at: it changes nothing here.                *)
(***************************************************************************)
EXTENDS Integers, Sequences, FiniteSets

CONSTANTS
  SeqCountModulo,  \* 2^14: the sequence count has 14 bits (0x3FFF)
  Apids,           \* the APIDs of the simulator
  Packets,         \* the packets it can build: records with an apid and a seq
  MaxSent,         \* bound: packets sent
  MaxBoots,        \* bound: starts of the simulator
  MaxDelivered     \* bound: packets a preprocessor sees

ASSUME TmLinkAssumption ==
  /\ SeqCountModulo \in Nat \ {0, 1}
  /\ \A p \in Packets : p.apid \in Apids /\ p.seq \in 0 .. SeqCountModulo - 1
  /\ MaxSent \in Nat /\ MaxBoots \in Nat /\ MaxDelivered \in Nat

VARIABLES
  sent,       \* the packets handed to the network, in order
  boots,      \* history: how many had been sent at each start of the simulator
  net,        \* the packets in flight, by their place in sent
  seqCounts,  \* MyPacketPreprocessor.seqCounts; an absent counter is created 0
  log         \* history: what the present preprocessor has seen, with its warnings

vars == <<sent, boots, net, seqCounts, log>>

-----------------------------------------------------------------------------
\* The simulator was not restarted between packet i and packet k.
SameBoot(i, k) == \A b \in boots : ~(i <= b /\ b < k)

\* The packet before k on its APID is i, of the same run of the simulator.
Adjacent(i, k) ==
  /\ i < k /\ sent[i].apid = sent[k].apid /\ SameBoot(i, k)
  /\ \A j \in i + 1 .. k - 1 : sent[j].apid # sent[k].apid

\* The place the next packet takes, and what its count has to be: zero for the
\* first of a run on its APID, one more than the last otherwise.
InSequence(p) ==
  LET since == {i \in 1 .. Len(sent) : sent[i].apid = p.apid /\ \A b \in boots : b < i} IN
  \/ since = {} /\ p.seq = 0
  \/ \E i \in since : /\ \A j \in since : j <= i
                      /\ p.seq = (sent[i].seq + 1) % SeqCountModulo

Send ==
  /\ Len(sent) < MaxSent
  /\ net' = net \cup {Len(sent) + 1}
  /\ UNCHANGED <<boots, seqCounts, log>>
  /\ \E p \in Packets :
       /\ sent' = Append(sent, p)
       /\ InSequence(p)

\* The simulator is restarted: its counters begin at zero.
Reboot ==
  /\ Cardinality(boots) < MaxBoots
  /\ boots' = boots \cup {Len(sent)}
  /\ UNCHANGED <<sent, net, seqCounts, log>>

Lose ==
  /\ \E i \in net : net' = net \ {i}
  /\ UNCHANGED <<sent, boots, seqCounts, log>>

\* Mutant: the difference is not reduced to the 14 bits of the count.
JumpNoMask(seq, oldseq) == seq - oldseq # 1

\* Mutant: a repeated count is taken for a continuation.
JumpForward(seq, oldseq) == (seq - oldseq) % SeqCountModulo \notin {0, 1}

\* The count is not the one after the last seen on the APID.
Jump(seq, oldseq) == (seq - oldseq) % SeqCountModulo # 1

\* Mutant: the counter keeps the count it expects next.
ProcessExpected(i) ==
  /\ seqCounts' = [seqCounts EXCEPT ![sent[i].apid] = sent[i].seq + 1]
  /\ log' = Append(log, [packet |-> i,
                         jump |-> sent[i].seq # seqCounts[sent[i].apid]])

\* MyPacketPreprocessor.process: getAndSet the counter of the packet's APID, and
\* warn SEQ_COUNT_JUMP; the packet goes on in either case.
Process(i) ==
  /\ seqCounts' = [seqCounts EXCEPT ![sent[i].apid] = sent[i].seq]
  /\ log' = Append(log, [packet |-> i,
                         jump |-> Jump(sent[i].seq, seqCounts[sent[i].apid])])

\* The packet arrives, leaving a duplicate in the network or not.
Deliver ==
  /\ Len(log) < MaxDelivered
  /\ \E i \in net : /\ Process(i)
                    /\ net' \in {net, net \ {i}}
  /\ UNCHANGED <<sent, boots>>

\* Yamcs is restarted: a new preprocessor, whose map is empty.
NewPreprocessor ==
  /\ seqCounts' = [a \in Apids |-> 0]
  /\ log' = << >>
  /\ UNCHANGED <<sent, boots, net>>

Init ==
  /\ sent = << >> /\ boots = {0} /\ net = {}
  /\ seqCounts = [a \in Apids |-> 0] /\ log = << >>

Next == Send \/ Reboot \/ Lose \/ Deliver \/ NewPreprocessor

Spec == Init /\ [][Next]_vars

-----------------------------------------------------------------------------
\* The type invariant: only packets that were sent are in flight or seen.
TypeOK ==
  /\ sent \in Seq(Packets)
  /\ boots \in SUBSET (0 .. Len(sent))
  /\ net \in SUBSET (1 .. Len(sent))
  /\ seqCounts \in [Apids -> 0 .. SeqCountModulo - 1]
  /\ log \in Seq([packet : Nat, jump : BOOLEAN])
  /\ \A k \in 1 .. Len(log) : log[k].packet \in 1 .. Len(sent)

ApidOf(k) == sent[log[k].packet].apid

\* The packet that the preprocessor saw before its k-th on the same APID is its j-th.
SeenBefore(j, k) ==
  /\ j < k /\ ApidOf(j) = ApidOf(k)
  /\ \A l \in j + 1 .. k - 1 : ApidOf(l) # ApidOf(k)

SeenFirst(k) == \A j \in 1 .. k - 1 : ApidOf(j) # ApidOf(k)

\* MyPacketPreprocessor.process warns of a jump only when something happened: the
\* packet is the first it sees of its APID, or is not the one sent right after the one
\* seen before (lost, doubled or overtaken packets, a restart of the simulator).
\* In particular no warning where the counts wrap.
WarningHasCause ==
  \A k \in 1 .. Len(log) : log[k].jump =>
    \/ SeenFirst(k)
    \/ \E j \in 1 .. k - 1 :
         SeenBefore(j, k) /\ ~Adjacent(log[j].packet, log[k].packet)

\* How many packets of packet k's APID follow packet i in the stream, up to k.
Advance(stream, i, k) == Cardinality({j \in i + 1 .. k : stream[j].apid = stream[k].apid})

\* A packet on which MyPacketPreprocessor.process is silent is the one after the
\* packet seen before it: what was lost, doubled or overtaken between the two
\* amounts to whole turns of the counter, if the simulator was not restarted.
SilenceMeansSuccessor ==
  \A j, k \in 1 .. Len(log) :
    SeenBefore(j, k) /\ ~log[k].jump =>
      LET i == log[j].packet
          n == log[k].packet
      IN  /\ i < n /\ SameBoot(i, n) => Advance(sent, i, n) % SeqCountModulo = 1
          /\ n <= i /\ SameBoot(n, i) => (Advance(sent, n, i) + 1) % SeqCountModulo = 0
==============================================================================
