--------------------------- MODULE TestDataLemmas ---------------------------
(***************************************************************************)
(* Lemmas about the operators of Datagram and TestData: what they yield    *)
(* and, for the counts of a burst, what bounds them.                       *)
(***************************************************************************)
EXTENDS TestData, WellFoundedInduction, FiniteSetTheorems, SequenceTheorems, TLAPS

\* "Less than" on the naturals, as the well-founded relation WFMin asks for.
LEMMA LessThanRelation ==
    \E R : IsWellFoundedOn(R, Nat) /\ \A i, j \in Nat : i < j => <<i, j>> \in R
<1>1. IsWellFoundedOn(OpToRel(<, Nat), Nat)
  BY NatLessThanWellFounded
<1>2. \A i, j \in Nat : i < j => <<i, j>> \in OpToRel(<, Nat)
  BY DEF OpToRel
<1> QED BY <1>1, <1>2

\* Min is the least element of a set of naturals that is not empty.
LEMMA MinOfNaturals ==
    ASSUME NEW S, S \subseteq Nat, S # {}
    PROVE  Min(S) \in S /\ \A m \in S : Min(S) <= m
<1>1. PICK R : IsWellFoundedOn(R, Nat) /\ \A i, j \in Nat : i < j => <<i, j>> \in R
  BY LessThanRelation
<1>2. IsWellFoundedOn(R, Nat)
  BY <1>1
<1>3. \E x \in S : \A y \in S : ~(<<y, x>> \in R)
  BY <1>2, WFMin
<1>4. PICK n \in S : \A m \in S : ~(<<m, n>> \in R)
  BY <1>3
<1>5. ASSUME NEW m \in S PROVE n <= m
  <2>1. m \in Nat /\ n \in Nat
    OBVIOUS
  <2>2. ~(m < n)
    BY <1>1, <1>4, <2>1, Zenon
  <2> QED BY <2>1, <2>2
<1> QED BY <1>5 DEF Min

\* A set of naturals in which every number has a smaller one is empty.
LEMMA NoDescent ==
    ASSUME NEW S, S \subseteq Nat, \A n \in S : \E m \in S : m < n
    PROVE  S = {}
<1> SUFFICES ASSUME S # {} PROVE FALSE
  OBVIOUS
<1>1. Min(S) \in S /\ \A m \in S : Min(S) <= m
  BY MinOfNaturals
<1>2. PICK m \in S : m < Min(S)
  BY <1>1
<1>3. m \in Nat /\ Min(S) \in Nat /\ Min(S) <= m
  BY <1>1
<1> QED BY <1>2, <1>3

\* The counts of a burst are consistent, whatever arrived of it: the probes
\* before the first gap are among those received, and those among those sent
\* (class BurstResults, which computes loss and buffer size from them).
THEOREM SummaryBounds ==
    ASSUME NEW len \in Nat, NEW arrived
    PROVE  /\ Summary(len, arrived) \in BurstResultType
           /\ Summary(len, arrived).num_sent = len
           /\ Summary(len, arrived).num_contiguous <= Summary(len, arrived).num_received
           /\ Summary(len, arrived).num_received <= len
<1> DEFINE all      == 0..(len - 1)
           received == arrived \cap all
           missing  == all \ received
           first    == IF missing = {} THEN len ELSE Min(missing)
<1>1. IsFiniteSet(all) /\ Cardinality(all) = len
  BY FS_Interval
<1>2. IsFiniteSet(received) /\ Cardinality(received) <= len /\ Cardinality(received) \in Nat
  BY <1>1, FS_Subset, FS_CardinalityType
<1>3. first \in 0..len /\ 0..(first - 1) \subseteq received
  <2>1. CASE missing = {}
    BY <2>1
  <2>2. CASE missing # {}
    <3>1. missing \subseteq Nat
      OBVIOUS
    <3>2. Min(missing) \in missing /\ \A m \in missing : Min(missing) <= m
      BY <2>2, <3>1, MinOfNaturals
    <3>3. Min(missing) \in all /\ first = Min(missing)
      BY <2>2, <3>2
    <3>4. ASSUME NEW k \in 0..(first - 1) PROVE k \in received
      <4>1. k \in all /\ k < Min(missing)
        BY <3>3
      <4>2. k \notin missing
        BY <3>1, <3>2, <4>1
      <4> QED BY <4>1, <4>2
    <3> HIDE DEF received, first, missing
    <3> QED BY <3>3, <3>4
  <2> QED BY <2>1, <2>2
<1>4. first <= Cardinality(received)
  <2> HIDE DEF first, received
  <2>1. Cardinality(0..(first - 1)) = first
    <3>1. first \in Nat
      BY <1>3
    <3> QED BY <3>1, FS_Interval
  <2>2. Cardinality(0..(first - 1)) <= Cardinality(received)
    BY <1>2, <1>3, FS_Subset
  <2> QED BY <2>1, <2>2
<1>5. Summary(len, arrived) =
        [num_sent |-> len, num_received |-> Cardinality(received), num_contiguous |-> first]
  BY DEF Summary
<1> HIDE DEF received, first
<1> QED BY <1>2, <1>3, <1>4, <1>5 DEF BurstResultType

\* The results of a test are a sequence of burst results,
LEMMA TestResultsType ==
    ASSUME NEW bursts \in Seq(BurstDataType)
    PROVE  TestResults(bursts) \in Seq(BurstResultType)
<1>1. DOMAIN bursts = 1..Len(bursts) /\ Len(bursts) \in Nat
  BY LenProperties
<1>2. ASSUME NEW b \in 1..Len(bursts)
      PROVE  BurstResults(bursts[b]) \in BurstResultType
  <2>1. bursts[b] \in BurstDataType
    BY ElementOfSeq
  <2>2. bursts[b].len \in Nat
    BY <2>1 DEF BurstDataType
  <2> QED BY <2>2, SummaryBounds DEF BurstResults
<1>3. TestResults(bursts) \in [1..Len(bursts) -> BurstResultType]
  BY <1>1, <1>2 DEF TestResults
<1> QED BY <1>1, <1>3

\* a new test has the announced number of bursts,
LEMMA NewTestDataType ==
    ASSUME NEW n \in Nat
    PROVE  NewTestData(n) \in Seq(BurstDataType) /\ Len(NewTestData(n)) = n
<1>1. EmptyBurst \in BurstDataType
  BY DEF EmptyBurst, BurstDataType, ProbeEntry
<1>2. NewTestData(n) \in [1..n -> BurstDataType]
  BY <1>1 DEF NewTestData
<1> QED BY <1>2

\* recording a probe leaves a burst a burst,
LEMMA AddProbeType ==
    ASSUME NEW burst \in BurstDataType, NEW m \in MessageType
    PROVE  AddProbe(burst, m) \in BurstDataType
BY DEF AddProbe, BurstDataType, ProbeEntry, MessageType

\* and what client and server put together is a message.
LEMMA MessageIsTyped ==
    ASSUME NEW type \in MessageTypes, NEW run \in Nat, NEW burst_num \in Nat,
           NEW seq_num \in Nat, NEW burst_len \in Nat
    PROVE  Message(type, run, burst_num, seq_num, burst_len) \in MessageType
BY EmptySeq DEF Message, MessageType

\* The replies of the server are its requests with another type.
LEMMA ReplyIsTyped ==
    ASSUME NEW m \in MessageType, NEW type \in MessageTypes,
           NEW results \in Seq(BurstResultType)
    PROVE  /\ [m EXCEPT !.type = type] \in MessageType
           /\ [m EXCEPT !.type = type, !.results = results] \in MessageType
BY DEF MessageType
=============================================================================
