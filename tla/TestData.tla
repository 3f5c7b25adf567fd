------------------------------ MODULE TestData ------------------------------
(***************************************************************************)
(* What the server records of a test and how it summarises it:             *)
(* hw2/bufferprobe2/test.h (TestData, BurstData) and the counts of         *)
(* hw2/bufferprobe2/results.h (BurstResults, TestResults).                 *)
(*                                                                         *)
(* The std::map from sequence number to ProbeData is the set of its        *)
(* entries.  Of ProbeData the entry keeps which client run the probe came  *)
(* from (history); payload length and arrival time are left out here.      *)
(***************************************************************************)
EXTENDS Datagram, FiniteSets, FiniteSetsExt

ProbeEntry == [seq_num : Nat, run : Nat]
BurstDataType == [len : Nat, probes : SUBSET ProbeEntry]

EmptyBurst == [len |-> 0, probes |-> {}]

\* TestData's constructor: one empty BurstData for every announced burst.
NewTestData(num_bursts) == [b \in 1..num_bursts |-> EmptyBurst]

SeqNums(burst) == {p.seq_num : p \in burst.probes}

\* The length counted from the arrivals, not read from the header.
AddProbe_CountsLength(burst, m) ==
    LET probes == burst.probes \cup {[seq_num |-> m.seq_num, run |-> m.run]}
    IN  [len |-> Cardinality(probes), probes |-> probes]

\* BurstData::addProbe: the burst takes the length the header announces, and
\* std::map::insert keeps the entry of an earlier probe with the same number.
AddProbe(burst, m) ==
    [len |-> m.burst_len,
     probes |-> IF m.seq_num \in SeqNums(burst)
                THEN burst.probes
                ELSE burst.probes \cup {[seq_num |-> m.seq_num, run |-> m.run]}]

\* The counts of one burst, given the sequence numbers that arrived and the
\* length the burst has: how many of 0 .. len-1 arrived, and how many arrived
\* before the first gap.
Summary(len, arrived) ==
    LET received == arrived \cap (0..(len - 1))
        missing  == (0..(len - 1)) \ received
    IN  [num_sent       |-> len,
         num_received   |-> Cardinality(received),
         num_contiguous |-> IF missing = {} THEN len ELSE Min(missing)]

BurstResults(burst) == Summary(burst.len, SeqNums(burst))

\* One result for each burst; serialize and the constructor that reads it back
\* copy the objects, so that the client gets the same list.  The variant loses
\* the last one.
TestResults_LastMissing(bursts) ==
    [b \in 1..(Len(bursts) - 1) |-> BurstResults(bursts[b])]

TestResults(bursts) == [b \in DOMAIN bursts |-> BurstResults(bursts[b])]
=============================================================================
