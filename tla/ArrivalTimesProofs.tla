------------------------- MODULE ArrivalTimesProofs -------------------------
(***************************************************************************)
(* Proofs about ArrivalTimes: the subtraction of times is exact, and while *)
(* the probes of a burst arrive in the order they were sent its results    *)
(* are never negative.                                                     *)
(***************************************************************************)
EXTENDS ArrivalTimes, TestDataLemmas

\* What gettimeofday returns: the microseconds are less than a second.
Normal(t) == t \in [sec : Nat, usec : 0..(MILLION - 1)]

\* The order of such times.
NotAfter(s, t) == s.sec < t.sec \/ (s.sec = t.sec /\ s.usec <= t.usec)

\* The one assumption the proofs use of the number of microseconds.
LEMMA MillionPositive == MILLION \in Nat \ {0}
BY TimesAssumption

\* Quotient and remainder, the form the arithmetic below needs.
LEMMA Quotient ==
    ASSUME NEW a \in Nat
    PROVE  /\ a \div MILLION \in Nat /\ a % MILLION \in 0..(MILLION - 1)
           /\ a = MILLION * (a \div MILLION) + (a % MILLION)
BY MillionPositive, Z3

\* Less than a second has no whole seconds.
LEMMA NoWholeSecond ==
    ASSUME NEW d \in 0..(MILLION - 1)
    PROVE  d \div MILLION = 0
BY MillionPositive, Z3

\* Time::operator- on normal times: a second is borrowed when the
\* microseconds call for it, and the second carry is never needed.
LEMMA MinusByCases ==
    ASSUME NEW x, NEW y, Normal(x), Normal(y)
    PROVE  Minus(x, y) =
              IF x.usec < y.usec
              THEN [sec |-> x.sec - y.sec - 1, usec |-> x.usec - y.usec + MILLION]
              ELSE [sec |-> x.sec - y.sec, usec |-> x.usec - y.usec]
<1>1. /\ MILLION \in Nat \ {0}
      /\ x.sec \in Nat /\ y.sec \in Nat
      /\ x.usec \in 0..(MILLION - 1) /\ y.usec \in 0..(MILLION - 1)
      /\ y = [sec |-> y.sec, usec |-> y.usec]
  BY MillionPositive DEF Normal
<1>2. CASE x.usec < y.usec
  <2>1. (y.usec - x.usec) \div MILLION = 0
    BY <1>1, <1>2, NoWholeSecond
  <2>2. CarryUp(x, y) = [sec |-> y.sec + 1, usec |-> y.usec - MILLION]
    BY <1>1, <1>2, <2>1 DEF CarryUp
  <2>3. ~(x.usec - (y.usec - MILLION) > MILLION)
    BY <1>1, <1>2
  <2>4. CarryDown(x, CarryUp(x, y)) = CarryUp(x, y)
    BY <2>2, <2>3 DEF CarryDown
  <2> QED BY <1>1, <1>2, <2>2, <2>4 DEF Minus
<1>3. CASE ~(x.usec < y.usec)
  <2>1. CarryUp(x, y) = y
    BY <1>3 DEF CarryUp
  <2>2. CarryDown(x, y) = y
    BY <1>1, <1>3 DEF CarryDown
  <2> QED BY <1>1, <1>3, <2>1, <2>2 DEF Minus
<1> QED BY <1>2, <1>3

\* The difference of two times of day is exact to the microsecond, whichever
\* is the later, and its microseconds are again less than a second: only the
\* seconds can be negative.
THEOREM SubtractionExact ==
    ASSUME NEW x, NEW y, Normal(x), Normal(y)
    PROVE  /\ InMicros(Minus(x, y)) = InMicros(x) - InMicros(y)
           /\ Minus(x, y).sec \in Int
           /\ Minus(x, y).usec \in 0..(MILLION - 1)
<1>1. /\ MILLION \in Nat \ {0}
      /\ x.sec \in Nat /\ y.sec \in Nat
      /\ x.usec \in 0..(MILLION - 1) /\ y.usec \in 0..(MILLION - 1)
  BY MillionPositive DEF Normal
<1>2. CASE x.usec < y.usec
  <2>1. (x.sec - y.sec - 1) * MILLION = x.sec * MILLION - y.sec * MILLION - MILLION
    BY <1>1, Z3
  <2> QED BY <1>1, <1>2, <2>1, MinusByCases DEF InMicros
<1>3. CASE ~(x.usec < y.usec)
  <2>1. (x.sec - y.sec) * MILLION = x.sec * MILLION - y.sec * MILLION
    BY <1>1, Z3
  <2> QED BY <1>1, <1>3, <2>1, MinusByCases DEF InMicros
<1> QED BY <1>2, <1>3

\* Subtracting a time that is not after the other leaves nothing negative.
LEMMA MinusNotNegative ==
    ASSUME NEW x, NEW y, Normal(x), Normal(y), NotAfter(y, x)
    PROVE  Minus(x, y).sec >= 0 /\ Minus(x, y).usec >= 0
<1>1. /\ MILLION \in Nat \ {0}
      /\ x.sec \in Nat /\ y.sec \in Nat
      /\ x.usec \in 0..(MILLION - 1) /\ y.usec \in 0..(MILLION - 1)
  BY MillionPositive DEF Normal
<1> QED BY <1>1, MinusByCases DEF NotAfter

\* The clock as a time of day: normal, and later readings are not earlier.
LEMMA AsTimeNormal ==
    ASSUME NEW a \in Nat
    PROVE  Normal(AsTime(a))
BY Quotient DEF Normal, AsTime

\* The order of the readings is the order of the clock.
LEMMA AsTimeMonotone ==
    ASSUME NEW a \in Nat, NEW b \in Nat, a <= b
    PROVE  NotAfter(AsTime(a), AsTime(b))
<1> DEFINE qa == a \div MILLION
           qb == b \div MILLION
           ra == a % MILLION
           rb == b % MILLION
<1>1. /\ MILLION \in Nat \ {0}
      /\ qa \in Nat /\ ra \in 0..(MILLION - 1) /\ a = MILLION * qa + ra
      /\ qb \in Nat /\ rb \in 0..(MILLION - 1) /\ b = MILLION * qb + rb
  BY MillionPositive, Quotient
<1>2. AsTime(a) = [sec |-> qa, usec |-> ra] /\ AsTime(b) = [sec |-> qb, usec |-> rb]
  BY DEF AsTime
<1> HIDE DEF qa, qb, ra, rb
<1>3. ASSUME qb < qa PROVE FALSE
  <2>1. PICK k \in Nat : qa = qb + 1 + k
    <3>1. qa - qb - 1 \in Nat /\ qa = qb + 1 + (qa - qb - 1)
      BY <1>1, <1>3
    <3> QED BY <3>1
  <2>2. MILLION * qa = MILLION * qb + MILLION + MILLION * k
    BY <1>1, <2>1, Z3
  <2>3. MILLION * k \in Nat /\ MILLION * qb \in Nat
    BY <1>1, <2>1, Z3
  <2> QED BY <1>1, <2>2, <2>3
<1>4. ASSUME qa = qb PROVE ra <= rb
  <2>1. MILLION * qa \in Nat /\ MILLION * qa = MILLION * qb
    BY <1>1, <1>4, Z3
  <2> QED BY <1>1, <2>1
<1> QED BY <1>1, <1>2, <1>3, <1>4 DEF NotAfter

-----------------------------------------------------------------------------
(* Probes that arrive in order have times in order.                        *)

\* The probes seen so far are stamped no later than now, in the order of
\* their numbers; the two timestamps of the loop are those of probes it has
\* passed, in that order.
ProbesOrdered ==
    /\ clock \in Nat
    /\ DOMAIN probes \subseteq Nat
    /\ \A r \in DOMAIN probes : Normal(probes[r]) /\ NotAfter(probes[r], AsTime(clock))
    /\ \A r, s \in DOMAIN probes : r <= s => NotAfter(probes[r], probes[s])

Passed(t) == t = Zero \/ \E r \in DOMAIN probes : r < seq_num /\ t = probes[r]

OrderInv ==
    /\ ProbesOrdered
    /\ seq_num \in Nat
    /\ Passed(first_timestamp) /\ Passed(last_timestamp)
    /\ NotAfter(first_timestamp, last_timestamp)
    /\ pc = "receiving" => first_timestamp = Zero /\ last_timestamp = Zero
    /\ DifferencesNotNegative

\* Zero is a normal time, and no time is before it.
LEMMA ZeroFirst ==
    /\ Normal(Zero)
    /\ \A t : Normal(t) => NotAfter(Zero, t)
BY MillionPositive DEF Normal, NotAfter, Zero

\* The timestamps of the loop are normal times.
LEMMA PassedNormal ==
    ASSUME ProbesOrdered, NEW t, Passed(t)
    PROVE  Normal(t)
BY ZeroFirst DEF ProbesOrdered, Passed

\* The order is transitive.
LEMMA NotAfterTransitive ==
    ASSUME NEW a, NEW b, NEW c, Normal(a), Normal(b), Normal(c),
           NotAfter(a, b), NotAfter(b, c)
    PROVE  NotAfter(a, c)
BY MillionPositive DEF Normal, NotAfter

\* OrderInv holds initially,
LEMMA InitOrder == Init => OrderInv
<1> SUFFICES ASSUME Init PROVE OrderInv
  OBVIOUS
<1>1. DOMAIN probes = {} /\ clock \in Nat
  BY MillionPositive DEF Init
<1>2. ProbesOrdered
  BY <1>1 DEF ProbesOrdered
<1> QED BY <1>2, ZeroFirst DEF Init, OrderInv, Passed, DifferencesNotNegative

\* the passing of time preserves it,
LEMMA TickOrder == OrderInv /\ Tick => OrderInv'
<1> SUFFICES ASSUME OrderInv, Tick PROVE OrderInv'
  OBVIOUS
<1>1. clock \in Nat /\ clock' \in Nat /\ clock <= clock' /\ UNCHANGED <<probes, pc, locals, results>>
  BY DEF Tick, OrderInv, ProbesOrdered
<1>2. ASSUME NEW r \in DOMAIN probes PROVE NotAfter(probes[r], AsTime(clock'))
  BY <1>1, <1>2, AsTimeNormal, AsTimeMonotone, NotAfterTransitive DEF OrderInv, ProbesOrdered
<1>3. ProbesOrdered'
  BY <1>1, <1>2 DEF OrderInv, ProbesOrdered
<1> QED BY <1>1, <1>3 DEF OrderInv, Passed, locals, DifferencesNotNegative

\* an arrival in order does,
LEMMA ArrivalOrder ==
    ASSUME NEW s \in SeqNum, ProbeArrives(s), in_order', OrderInv
    PROVE  OrderInv'
<1>1. /\ s \in 0..(BurstLen - 1)
      /\ \A r \in DOMAIN probes : r <= s
      /\ probes' = IF s \in DOMAIN probes THEN probes
                   ELSE [r \in DOMAIN probes \cup {s} |->
                            IF r = s THEN AsTime(clock) ELSE probes[r]]
  BY DEF ProbeArrives, SeqNum
<1>2. UNCHANGED <<clock, pc, locals, results>> /\ pc = "receiving"
  BY DEF ProbeArrives
<1>3. CASE s \in DOMAIN probes
  BY <1>1, <1>2, <1>3 DEF OrderInv, ProbesOrdered, Passed, locals, DifferencesNotNegative
<1>4. CASE s \notin DOMAIN probes
  <2>1. DOMAIN probes' = DOMAIN probes \cup {s} /\ probes'[s] = AsTime(clock)
    BY <1>1, <1>4
  <2>2. \A r \in DOMAIN probes : probes'[r] = probes[r] /\ r # s
    BY <1>1, <1>4
  <2>3. clock \in Nat /\ Normal(AsTime(clock)) /\ NotAfter(AsTime(clock), AsTime(clock))
    BY AsTimeNormal, AsTimeMonotone DEF OrderInv, ProbesOrdered
  <2>4. \A r \in DOMAIN probes' :
           Normal(probes'[r]) /\ NotAfter(probes'[r], AsTime(clock))
    BY <2>1, <2>2, <2>3 DEF OrderInv, ProbesOrdered
  <2>5. s \in Nat /\ DOMAIN probes' \subseteq Nat
    BY <1>1, <2>1 DEF OrderInv, ProbesOrdered
  <2>6. ASSUME NEW a \in DOMAIN probes', NEW b \in DOMAIN probes', a <= b
        PROVE  NotAfter(probes'[a], probes'[b])
    <3>1. CASE b = s
      BY <2>1, <2>4, <3>1
    <3>2. CASE b # s
      <4>1. b \in DOMAIN probes /\ b <= s /\ a \in Nat /\ b \in Nat
        BY <1>1, <2>1, <2>5, <2>6, <3>2
      <4>2. a \in DOMAIN probes
        BY <2>1, <2>5, <2>6, <3>2, <4>1
      <4> QED BY <2>2, <2>6, <4>1, <4>2 DEF OrderInv, ProbesOrdered
    <3> QED BY <3>1, <3>2
  <2>7. ProbesOrdered'
    BY <1>2, <2>3, <2>4, <2>5, <2>6 DEF ProbesOrdered
  <2> QED BY <1>2, <2>7 DEF OrderInv, Passed, locals, DifferencesNotNegative
<1> QED BY <1>3, <1>4

\* and so do the steps of the constructor of BurstResults.
LEMMA ResultsOrder == OrderInv /\ Results => OrderInv'
<1> SUFFICES ASSUME OrderInv, StartResults \/ ProbeFound \/ ProbeMissing \/ EndResults
             PROVE  OrderInv'
  BY DEF Results
<1>1. /\ ProbesOrdered /\ seq_num \in Nat
      /\ Passed(first_timestamp) /\ Passed(last_timestamp)
      /\ Normal(first_timestamp) /\ Normal(last_timestamp)
      /\ NotAfter(first_timestamp, last_timestamp)
      /\ \A d \in differences : d.sec >= 0 /\ d.usec >= 0
  BY PassedNormal DEF OrderInv, DifferencesNotNegative
<1>2. ProbesOrdered' /\ pc' # "receiving"
  BY <1>1 DEF ProbesOrdered, StartResults, ProbeFound, ProbeMissing, EndResults
<1>3. CASE StartResults
  BY <1>1, <1>2, <1>3 DEF StartResults, locals, OrderInv, Passed, DifferencesNotNegative
<1>4. CASE ProbeFound
  <2> DEFINE t == probes[seq_num]
             d == Minus(t, last_timestamp)
  <2>1. seq_num \in DOMAIN probes /\ Normal(t) /\ probes' = probes
    BY <1>1, <1>4 DEF ProbeFound, ProbesOrdered
  <2>2. NotAfter(last_timestamp, t)
    <3>1. CASE last_timestamp = Zero
      BY <2>1, <3>1, ZeroFirst
    <3>2. CASE \E r \in DOMAIN probes : r < seq_num /\ last_timestamp = probes[r]
      <4>1. PICK r \in DOMAIN probes : r < seq_num /\ last_timestamp = probes[r]
        BY <3>2
      <4>2. r \in Nat /\ r <= seq_num
        BY <1>1, <4>1 DEF ProbesOrdered
      <4> QED BY <1>1, <2>1, <4>1, <4>2 DEF ProbesOrdered
    <3> QED BY <1>1, <3>1, <3>2 DEF Passed
  <2>3. d.sec >= 0 /\ d.usec >= 0
    BY <1>1, <2>1, <2>2, MinusNotNegative
  <2>4. differences' \subseteq differences \cup {d}
    BY <1>4 DEF ProbeFound
  <2>5. last_timestamp' = t /\ first_timestamp' \in {t, first_timestamp} /\ seq_num' = seq_num + 1
    BY <1>4 DEF ProbeFound
  <2> HIDE DEF d
  <2>6. NotAfter(first_timestamp', last_timestamp')
    <3>1. NotAfter(t, t)
      BY <1>1, <2>1 DEF ProbesOrdered
    <3> QED BY <1>1, <2>1, <2>2, <2>5, <3>1, NotAfterTransitive
  <2>7. Passed(last_timestamp)' /\ Passed(first_timestamp)'
    BY <1>1, <2>1, <2>5 DEF Passed, ProbesOrdered
  <2>8. DifferencesNotNegative'
    BY <1>1, <2>3, <2>4 DEF DifferencesNotNegative
  <2> QED BY <1>1, <1>2, <2>5, <2>6, <2>7, <2>8 DEF OrderInv
<1>5. CASE ProbeMissing \/ EndResults
  <2> DEFINE d == Minus(last_timestamp, first_timestamp)
  <2>1. d.sec >= 0 /\ d.usec >= 0
    BY <1>1, MinusNotNegative
  <2>2. differences' \subseteq differences \cup {d}
    BY <1>5 DEF ProbeMissing, EndResults
  <2>3. UNCHANGED <<probes, first_timestamp, last_timestamp>> /\ seq_num' \in {seq_num, seq_num + 1}
    BY <1>5 DEF ProbeMissing, EndResults
  <2> HIDE DEF d
  <2>4. Passed(last_timestamp)' /\ Passed(first_timestamp)'
    BY <1>1, <2>3 DEF Passed, ProbesOrdered
  <2>5. DifferencesNotNegative'
    BY <1>1, <2>1, <2>2 DEF DifferencesNotNegative
  <2> QED BY <1>1, <1>2, <2>3, <2>4, <2>5 DEF OrderInv
<1> QED BY <1>3, <1>4, <1>5

\* While the network keeps the order of the probes OrderInv holds.
LEMMA OrderInvariant == Spec => [](in_order => OrderInv)
<1> DEFINE IInv == in_order => OrderInv
<1>1. Init => IInv
  BY InitOrder
<1>2. ASSUME IInv, [Next]_vars PROVE IInv'
  <2> SUFFICES ASSUME in_order' PROVE OrderInv'
    OBVIOUS
  <2>1. in_order
    BY <1>2 DEF Next, Arrivals, Results, vars, Tick, ProbeArrives, StartResults,
                ProbeFound, ProbeMissing, EndResults
  <2>2. OrderInv
    BY <1>2, <2>1
  <2>3. CASE UNCHANGED vars
    BY <2>2, <2>3 DEF vars, locals, OrderInv, ProbesOrdered, Passed, DifferencesNotNegative
  <2>4. CASE \E s \in SeqNum : ProbeArrives(s)
    BY <2>2, <2>4, ArrivalOrder
  <2> QED BY <1>2, <2>2, <2>3, <2>4, TickOrder, ResultsOrder DEF Next, Arrivals
<1> QED BY <1>1, <1>2, PTL DEF Spec

\* While the network keeps the order of the probes, "x >= y in both respects"
\* (time.h) is true of every subtraction behind a report, for bursts of any
\* length received over any time.
THEOREM NoNegativeTimes == Spec => []InOrderNotNegative
<1>1. (in_order => OrderInv) => InOrderNotNegative
  BY DEF OrderInv, InOrderNotNegative
<1> QED BY <1>1, OrderInvariant, PTL

-----------------------------------------------------------------------------
(* What the loop of the constructor computes, in whichever order the       *)
(* probes arrived.                                                         *)

\* The microsecond at which a probe was received, the probes the loop has
\* passed, and the gaps between those.
At(s) == InMicros(probes[s])
Seen  == {r \in DOMAIN probes : r < seq_num}
GapsSeen == {At(p[2]) - At(p[1]) : p \in {n \in Neighbours : n[2] < seq_num}}

\* Probes have a normal time, a second at least after the epoch: the loop
\* takes no seconds for no time.
Stamped ==
    /\ clock \in MILLION..(MILLION + MaxClock)
    /\ \E S \in SUBSET SeqNum : probes \in [S -> Time]
    /\ \A r \in DOMAIN probes : Normal(probes[r]) /\ probes[r].sec >= 1

\* The timestamps are those of the first and the last probe passed.
EndsInv ==
    IF Seen = {} THEN first_timestamp = Zero /\ last_timestamp = Zero
    ELSE \E f, l \in Seen : /\ \A r \in Seen : f <= r /\ r <= l
                            /\ first_timestamp = probes[f]
                            /\ last_timestamp = probes[l]

\* The unbroken run before the first drop, and its time.
RunInv ==
    /\ num_contiguous \in 0..seq_num
    /\ \A k \in 0..(num_contiguous - 1) : k \in DOMAIN probes
    /\ IF found_dropped
       THEN /\ num_contiguous < seq_num
            /\ num_contiguous \notin DOMAIN probes
            /\ InMicros(time_contiguous) =
                  IF num_contiguous = 0 THEN 0 ELSE At(num_contiguous - 1) - At(0)
       ELSE num_contiguous = seq_num /\ time_contiguous = Zero

\* The shortest time is the smallest gap passed, if none is zero.
ShortestInv ==
    0 \notin GapsSeen =>
        IF GapsSeen = {} THEN InMicros(time_shortest) = 0
        ELSE /\ InMicros(time_shortest) \in GapsSeen
             /\ \A g \in GapsSeen : InMicros(time_shortest) <= g

\* What the loop's variables are.
LoopTypes ==
    /\ pc \in {"receiving", "loop", "done"}
    /\ found_dropped \in BOOLEAN
    /\ in_order \in BOOLEAN
    /\ seq_num \in 0..num_sent
    /\ pc = "receiving" => seq_num = 0
    /\ pc = "done" => seq_num = num_sent
    /\ {time_overall, time_contiguous, time_shortest} \subseteq Time
    /\ differences \subseteq Time

\* The invariant of the loop.
TimesInv ==
    /\ Stamped
    /\ LoopTypes
    /\ EndsInv
    /\ RunInv
    /\ ShortestInv
    /\ num_received = Cardinality(Seen)
    /\ pc = "done" =>
          InMicros(time_overall) = InMicros(last_timestamp) - InMicros(first_timestamp)

\* Facts about constants and times used throughout.
LEMMA TimeFacts ==
    /\ MILLION \in Nat \ {0} /\ BurstLen \in Nat \ {0} /\ MaxClock \in Nat
    /\ Zero \in Time /\ InMicros(Zero) = 0 /\ Normal(Zero)
    /\ \A t : Normal(t) => t \in Time /\ InMicros(t) \in Int
<1>1. MILLION \in Nat \ {0} /\ BurstLen \in Nat \ {0} /\ MaxClock \in Nat
  BY TimesAssumption
<1>2. Zero \in Time /\ InMicros(Zero) = 0
  <2>1. 0 * MILLION = 0
    BY <1>1
  <2> QED BY <2>1 DEF Zero, Time, InMicros
<1>3. ASSUME NEW t, Normal(t)
      PROVE  t \in Time /\ InMicros(t) \in Int
  <2>1. t.sec \in Nat /\ t.usec \in Nat /\ t \in Time
    BY <1>1, <1>3 DEF Normal, Time
  <2>2. t.sec * MILLION \in Int
    BY <1>1, <2>1, Z3
  <2> QED BY <2>1, <2>2 DEF InMicros
<1> QED BY <1>1, <1>2, <1>3, ZeroFirst

\* A difference of normal times is a time.
LEMMA MinusIsTime ==
    ASSUME NEW x, NEW y, Normal(x), Normal(y)
    PROVE  Minus(x, y) \in Time
<1>1. Minus(x, y).sec \in Int /\ Minus(x, y).usec \in Int
  BY SubtractionExact, MillionPositive
<1>2. Minus(x, y) = [sec |-> Minus(x, y).sec, usec |-> Minus(x, y).usec]
  BY DEF Minus
<1> QED BY <1>1, <1>2 DEF Time

\* In the loop the timestamps are normal, and zero seconds say that no probe
\* was passed.
LEMMA EndsFacts ==
    ASSUME TimesInv
    PROVE  /\ Normal(first_timestamp) /\ Normal(last_timestamp)
           /\ first_timestamp.sec = 0 <=> Seen = {}
           /\ last_timestamp.sec = 0 <=> Seen = {}
<1>1. Zero.sec = 0 /\ Normal(Zero)
  BY TimeFacts DEF Zero
<1>2. CASE Seen = {}
  BY <1>1, <1>2 DEF TimesInv, EndsInv
<1>3. CASE Seen # {}
  <2>1. PICK f, l \in Seen : first_timestamp = probes[f] /\ last_timestamp = probes[l]
    BY <1>3 DEF TimesInv, EndsInv
  <2>2. /\ Normal(probes[f]) /\ probes[f].sec >= 1
        /\ Normal(probes[l]) /\ probes[l].sec >= 1
    BY DEF TimesInv, Stamped, Seen
  <2>3. probes[f].sec # 0 /\ probes[l].sec # 0
    BY <2>2 DEF Normal
  <2> QED BY <1>3, <2>1, <2>2, <2>3
<1> QED BY <1>2, <1>3

\* The domain of the probes.
LEMMA DomainFacts ==
    ASSUME Stamped
    PROVE  /\ DOMAIN probes \subseteq 0..(BurstLen - 1)
           /\ DOMAIN probes \subseteq Nat
           /\ IsFiniteSet(DOMAIN probes)
           /\ DOMAIN probes = {} => probes = <<>>
<1>1. PICK S \in SUBSET SeqNum : probes \in [S -> Time]
  BY DEF Stamped
<1>2. DOMAIN probes = S /\ S \subseteq 0..(BurstLen - 1)
  BY <1>1 DEF SeqNum
<1>3. IsFiniteSet(0..(BurstLen - 1))
  <2> DEFINE last == BurstLen - 1
  <2>1. 0 \in Int /\ last \in Int
    BY TimeFacts
  <2> HIDE DEF last
  <2>2. IsFiniteSet(0..last)
    BY <2>1, FS_Interval
  <2> QED BY <2>2 DEF last
<1>4. IsFiniteSet(S)
  BY <1>2, <1>3, FS_Subset
<1>5. S = {} => probes = <<>>
  BY <1>1
<1>6. S \subseteq Nat
  BY <1>2
<1> QED BY <1>2, <1>4, <1>5, <1>6

\* The invariant holds before anything arrived.
LEMMA InitTimes == Init => TimesInv
<1> SUFFICES ASSUME Init PROVE TimesInv
  OBVIOUS
<1> USE DEF Init
<1>1. DOMAIN probes = {} /\ num_sent = 0
  BY DEF num_sent
<1>2. Seen = {} /\ GapsSeen = {}
  BY <1>1 DEF Seen, GapsSeen, Neighbours
<1>3. Stamped
  <2>1. clock \in MILLION..(MILLION + MaxClock)
    BY TimeFacts
  <2>2. {} \in SUBSET SeqNum /\ probes \in [{} -> Time]
    OBVIOUS
  <2> QED BY <1>1, <2>1, <2>2 DEF Stamped
<1>4. LoopTypes
  <2>1. found_dropped \in BOOLEAN /\ in_order \in BOOLEAN
    BY Zenon
  <2> QED BY <1>1, <2>1, TimeFacts DEF LoopTypes
<1>5. EndsInv /\ RunInv
  BY <1>2 DEF EndsInv, RunInv
<1>6. ShortestInv
  BY <1>2, TimeFacts DEF ShortestInv
<1>7. num_received = Cardinality(Seen)
  BY <1>2, FS_EmptySet
<1> QED BY <1>3, <1>4, <1>5, <1>6, <1>7 DEF TimesInv

\* While the burst is received the loop has passed nothing.
LEMMA BeforeLoop ==
    ASSUME Stamped', UNCHANGED <<pc, locals, results>>, pc = "receiving", TimesInv,
           in_order' \in BOOLEAN
    PROVE  TimesInv'
<1>1. DOMAIN probes \subseteq Nat /\ DOMAIN probes' \subseteq Nat
  BY DomainFacts DEF Stamped, TimesInv, SeqNum
<1>2. seq_num = 0 /\ seq_num' = 0
  BY DEF TimesInv, LoopTypes, locals
<1>3. Seen = {} /\ Seen' = {}
  BY <1>1, <1>2 DEF Seen
<1>4. GapsSeen = {} /\ GapsSeen' = {}
  <2>1. \A n \in Neighbours : ~(n[2] < 0)
    BY <1>1 DEF Neighbours
  <2>2. \A n \in Neighbours' : ~(n[2] < 0)
    BY <1>1 DEF Neighbours
  <2> QED BY <1>2, <2>1, <2>2 DEF GapsSeen
<1>5. LoopTypes'
  <2>1. num_sent' \in Nat
    BY TimeFacts DEF num_sent
  <2> QED BY <1>2, <2>1 DEF TimesInv, LoopTypes, locals, results
<1>6. EndsInv'
  BY <1>3 DEF TimesInv, EndsInv, locals
<1>7. RunInv'
  BY <1>2 DEF TimesInv, RunInv, locals, results
<1>8. ShortestInv'
  BY <1>4 DEF TimesInv, ShortestInv, results
<1> QED BY <1>3, <1>5, <1>6, <1>7, <1>8 DEF TimesInv, results

\* Time and probes keep the invariant.
LEMMA ArrivalsTimes == TimesInv /\ Arrivals => TimesInv'
<1> SUFFICES ASSUME TimesInv, Arrivals PROVE TimesInv'
  OBVIOUS
<1>1. CASE Tick
  <2>1. /\ clock' = clock + 1 /\ clock < MaxClock /\ probes' = probes /\ in_order' = in_order
        /\ pc = "receiving" /\ UNCHANGED <<pc, locals, results>>
    BY <1>1 DEF Tick
  <2>2. clock' \in MILLION..(MILLION + MaxClock)
    BY <2>1, TimeFacts DEF TimesInv, Stamped
  <2>3. Stamped'
    BY <2>1, <2>2 DEF TimesInv, Stamped
  <2>4. in_order' \in BOOLEAN
    BY <2>1 DEF TimesInv, LoopTypes
  <2> QED BY <2>1, <2>3, <2>4, BeforeLoop
<1>2. ASSUME NEW s \in SeqNum, ProbeArrives(s)
      PROVE  TimesInv'
  <2>1. /\ probes' = IF s \in DOMAIN probes THEN probes
                     ELSE [r \in DOMAIN probes \cup {s} |->
                              IF r = s THEN AsTime(clock) ELSE probes[r]]
        /\ pc = "receiving" /\ UNCHANGED <<clock, pc, locals, results>>
    BY <1>2 DEF ProbeArrives
  <2>2. Normal(AsTime(clock)) /\ AsTime(clock).sec >= 1 /\ AsTime(clock) \in Time
    <3>1. clock \in Nat /\ clock >= MILLION
      BY TimeFacts DEF TimesInv, Stamped
    <3>2. clock \div MILLION >= 1
      BY <3>1, TimeFacts, Z3
    <3> QED BY <3>1, <3>2, AsTimeNormal, TimeFacts DEF AsTime
  <2>3. PICK S \in SUBSET SeqNum : probes \in [S -> Time]
    BY DEF TimesInv, Stamped
  <2>4. CASE s \in DOMAIN probes
    <3>1. Stamped'
      BY <2>1, <2>4 DEF TimesInv, Stamped
    <3>2. in_order' \in BOOLEAN
      BY <1>2 DEF ProbeArrives
    <3> QED BY <2>1, <3>1, <3>2, BeforeLoop
  <2>5. CASE s \notin DOMAIN probes
    <3>1. probes' \in [S \cup {s} -> Time] /\ S \cup {s} \in SUBSET SeqNum
      BY <2>1, <2>2, <2>3, <2>5
    <3>2. \A r \in DOMAIN probes' : Normal(probes'[r]) /\ probes'[r].sec >= 1
      BY <2>1, <2>2, <2>5 DEF TimesInv, Stamped
    <3>3. Stamped'
      BY <2>1, <3>1, <3>2 DEF TimesInv, Stamped
    <3>4. in_order' \in BOOLEAN
      BY <1>2 DEF ProbeArrives
    <3> QED BY <2>1, <3>3, <3>4, BeforeLoop
  <2> QED BY <2>4, <2>5
<1> QED BY <1>1, <1>2 DEF Arrivals

\* What passing a probe that arrived adds to those passed.
LEMMA SeenGrows ==
    ASSUME TimesInv, seq_num \in DOMAIN probes, probes' = probes, seq_num' = seq_num + 1
    PROVE  /\ Seen' = Seen \cup {seq_num} /\ seq_num \notin Seen
           /\ \A r \in Seen : r < seq_num
           /\ Cardinality(Seen') = Cardinality(Seen) + 1
<1>1. DOMAIN probes \subseteq Nat /\ IsFiniteSet(DOMAIN probes)
  BY DomainFacts DEF TimesInv
<1>2. Seen' = Seen \cup {seq_num} /\ seq_num \notin Seen /\ \A r \in Seen : r < seq_num
  BY <1>1 DEF Seen
<1>3. IsFiniteSet(Seen)
  <2>1. Seen \in SUBSET DOMAIN probes
    BY DEF Seen
  <2> QED BY <1>1, <2>1, FS_Subset
<1> QED BY <1>2, <1>3, FS_AddElement

\* Passing a number of which nothing arrived adds none.
LEMMA SeenStays ==
    ASSUME TimesInv, seq_num \notin DOMAIN probes, probes' = probes, seq_num' = seq_num + 1
    PROVE  Seen' = Seen /\ GapsSeen' = GapsSeen
<1>1. DOMAIN probes \subseteq Nat /\ seq_num \in Nat
  <2>1. num_sent \in Nat
    BY TimeFacts DEF num_sent
  <2> QED BY <2>1, DomainFacts DEF TimesInv, LoopTypes
<1>2. \A r \in DOMAIN probes : r < seq_num' <=> r < seq_num
  BY <1>1
<1>3. Seen' = Seen
  BY <1>2 DEF Seen
<1>4. /\ \A p \in Neighbours : p[2] < seq_num' <=> p[2] < seq_num
      /\ Neighbours' = Neighbours /\ \A s : At(s)' = At(s)
  BY <1>2 DEF Neighbours, At
<1> QED BY <1>3, <1>4 DEF GapsSeen

\* The gap a probe that arrived adds is that to the last one passed.
LEMMA GapsGrow ==
    ASSUME TimesInv, seq_num \in DOMAIN probes, probes' = probes, seq_num' = seq_num + 1
    PROVE  GapsSeen' = IF Seen = {} THEN GapsSeen
                       ELSE GapsSeen \cup {At(seq_num) - InMicros(last_timestamp)}
<1>1. DOMAIN probes \subseteq Nat /\ seq_num \in Nat
  BY DomainFacts DEF TimesInv
<1>2. Neighbours' = Neighbours /\ \A s : At(s)' = At(s)
  BY DEF Neighbours, At
<1> DEFINE Before == {n \in Neighbours : n[2] < seq_num}
           Here   == {n \in Neighbours : n[2] = seq_num}
           Gap(n) == At(n[2]) - At(n[1])
<1>3. \A n \in Neighbours : /\ n[1] \in DOMAIN probes /\ n[2] \in DOMAIN probes
                            /\ n[1] < n[2] /\ n = <<n[1], n[2]>>
  BY DEF Neighbours
<1>4. {n \in Neighbours' : n[2] < seq_num'} = Before \cup Here
  BY <1>1, <1>2, <1>3
<1>5. GapsSeen' = {Gap(n) : n \in Before \cup Here}
  BY <1>2, <1>4 DEF GapsSeen
<1>6. GapsSeen = {Gap(n) : n \in Before}
  BY DEF GapsSeen
<1>7. CASE Seen = {}
  <2>1. Here = {}
    BY <1>1, <1>3, <1>7 DEF Seen
  <2> QED BY <1>5, <1>6, <1>7, <2>1
<1>8. CASE Seen # {}
  <2>1. PICK l \in Seen : (\A r \in Seen : r <= l) /\ last_timestamp = probes[l]
    BY <1>8 DEF TimesInv, EndsInv
  <2>2. l \in DOMAIN probes /\ l < seq_num /\ l \in Nat
    BY <1>1 DEF Seen
  <2>3. <<l, seq_num>> \in Here
    <3>1. ~\E c \in DOMAIN probes : l < c /\ c < seq_num
      BY <1>1, <2>1, <2>2 DEF Seen
    <3> QED BY <2>2, <3>1 DEF Neighbours
  <2>4. ASSUME NEW n \in Here
        PROVE  n = <<l, seq_num>>
    <3>1. n[1] \in Seen /\ n[1] \in Nat
      BY <1>1, <1>3 DEF Seen
    <3>2. n[1] <= l
      BY <2>1, <3>1
    <3>3. ~(n[1] < l)
      BY <2>2 DEF Neighbours
    <3>4. n[1] = l
      BY <2>2, <3>1, <3>2, <3>3
    <3> QED BY <1>3, <3>4
  <2>5. Here = {<<l, seq_num>>}
    BY <2>3, <2>4
  <2>6. Gap(<<l, seq_num>>) = At(seq_num) - InMicros(last_timestamp)
    BY <2>1 DEF At
  <2> HIDE DEF Gap, Before, Here
  <2> QED BY <1>5, <1>6, <1>8, <2>5, <2>6
<1> QED BY <1>7, <1>8

\* Every gap is a whole number of microseconds.
LEMMA GapsAreNumbers ==
    ASSUME Stamped
    PROVE  /\ \A r \in DOMAIN probes : At(r) \in Int
           /\ Gaps \subseteq Int /\ GapsSeen \subseteq Int
<1>1. \A r \in DOMAIN probes : At(r) \in Int
  BY TimeFacts DEF Stamped, At
<1>2. \A n \in Neighbours : n[1] \in DOMAIN probes /\ n[2] \in DOMAIN probes
  BY DEF Neighbours
<1>3. \A n \in Neighbours : At(n[2]) - At(n[1]) \in Int
  BY <1>1, <1>2
<1>4. Gaps \subseteq Int /\ GapsSeen \subseteq Int
  BY <1>3 DEF Gaps, GapsSeen, At
<1> QED BY <1>1, <1>4

\* The steps of the constructor keep the invariant: its start,
LEMMA StartTimes == TimesInv /\ StartResults => TimesInv'
<1> SUFFICES ASSUME TimesInv, StartResults PROVE TimesInv'
  OBVIOUS
<1>1. /\ pc' = "loop"
      /\ clock' = clock /\ probes' = probes /\ in_order' = in_order
      /\ UNCHANGED <<locals, results>>
  BY DEF StartResults
<1>2. Stamped' /\ EndsInv' /\ RunInv' /\ ShortestInv' /\ Seen' = Seen
  BY <1>1 DEF TimesInv, Stamped, EndsInv, RunInv, ShortestInv, Seen, GapsSeen, Neighbours, At,
              locals, results
<1>3. LoopTypes'
  BY <1>1 DEF TimesInv, LoopTypes, num_sent, locals, results
<1> QED BY <1>1, <1>2, <1>3 DEF TimesInv, results

\* a probe that arrived,
LEMMA FoundTimes == TimesInv /\ ProbeFound => TimesInv'
<1> SUFFICES ASSUME TimesInv, ProbeFound PROVE TimesInv'
  OBVIOUS
<1> DEFINE t == probes[seq_num]
           d == Minus(t, last_timestamp)
<1>1. /\ pc = "loop" /\ pc' = "loop"
      /\ seq_num \in DOMAIN probes /\ seq_num < num_sent /\ seq_num' = seq_num + 1
      /\ clock' = clock /\ probes' = probes /\ in_order' = in_order
      /\ first_timestamp' = IF first_timestamp.sec = 0 THEN t ELSE first_timestamp
      /\ last_timestamp' = t
      /\ time_shortest' =
            IF last_timestamp.sec # 0 /\ Replaces(d) THEN d ELSE time_shortest
      /\ differences' = IF last_timestamp.sec = 0 THEN differences ELSE differences \cup {d}
      /\ num_received' = num_received + 1
      /\ num_contiguous' = IF found_dropped THEN num_contiguous ELSE num_contiguous + 1
      /\ found_dropped' = found_dropped
      /\ time_overall' = time_overall /\ time_contiguous' = time_contiguous
  BY DEF ProbeFound
<1>2. /\ Normal(t) /\ t.sec >= 1 /\ Normal(last_timestamp)
      /\ last_timestamp.sec = 0 <=> Seen = {}
      /\ first_timestamp.sec = 0 <=> Seen = {}
  BY <1>1, EndsFacts DEF TimesInv, Stamped
<1>3. d \in Time /\ InMicros(d) = At(seq_num) - InMicros(last_timestamp) /\ InMicros(d) \in Int
  <2>1. d \in Time /\ InMicros(d) = InMicros(t) - InMicros(last_timestamp)
    BY <1>2, MinusIsTime, SubtractionExact
  <2>2. InMicros(t) \in Int /\ InMicros(last_timestamp) \in Int
    BY <1>2, TimeFacts
  <2> QED BY <2>1, <2>2 DEF At
<1>4. num_sent \in Nat /\ num_sent' = num_sent /\ seq_num \in Nat
  BY <1>1, TimeFacts DEF TimesInv, LoopTypes, num_sent
<1> HIDE DEF d
<1>5. Stamped' /\ \A s : At(s)' = At(s)
  BY <1>1 DEF TimesInv, Stamped, At
<1>6. LoopTypes'
  <2>1. seq_num' \in 0..num_sent'
    BY <1>1, <1>4
  <2>2. differences' \subseteq Time
    BY <1>1, <1>3 DEF TimesInv, LoopTypes
  <2>3. time_shortest' \in Time /\ time_overall' \in Time /\ time_contiguous' \in Time
    BY <1>1, <1>3 DEF TimesInv, LoopTypes
  <2>4. found_dropped' \in BOOLEAN /\ in_order' \in BOOLEAN
    BY <1>1 DEF TimesInv, LoopTypes
  <2> QED BY <1>1, <2>1, <2>2, <2>3, <2>4 DEF LoopTypes
<1>7. /\ Seen' = Seen \cup {seq_num}
      /\ \A r \in Seen : r < seq_num
      /\ Cardinality(Seen') = Cardinality(Seen) + 1
  BY <1>1, SeenGrows
<1>8. EndsInv'
  <2>1. Seen \subseteq Nat
    BY DomainFacts DEF Seen, TimesInv
  <2>2. CASE Seen = {}
    <3>1. Seen' = {seq_num} /\ first_timestamp' = probes'[seq_num] /\ last_timestamp' = probes'[seq_num]
      BY <1>1, <1>2, <1>7, <2>2
    <3> QED BY <1>4, <3>1 DEF EndsInv
  <2>3. CASE Seen # {}
    <3>1. PICK f \in Seen : (\A r \in Seen : f <= r) /\ first_timestamp = probes[f]
      BY <2>3 DEF TimesInv, EndsInv
    <3>2. first_timestamp' = probes'[f] /\ last_timestamp' = probes'[seq_num]
      BY <1>1, <1>2, <2>3, <3>1
    <3>3. f \in Seen' /\ seq_num \in Seen' /\ \A r \in Seen' : f <= r /\ r <= seq_num
      BY <1>4, <1>7, <2>1, <3>1
    <3> QED BY <3>2, <3>3 DEF EndsInv
  <2> QED BY <2>2, <2>3
<1>9. RunInv'
  <2>1. CASE found_dropped
    <3>1. /\ num_contiguous \in 0..seq_num /\ num_contiguous < seq_num
          /\ num_contiguous' = num_contiguous
      BY <1>1, <2>1 DEF TimesInv, RunInv
    <3>2. num_contiguous' \in 0..seq_num' /\ num_contiguous' < seq_num'
      BY <1>1, <1>4, <3>1
    <3> QED BY <1>1, <1>5, <2>1, <3>1, <3>2 DEF TimesInv, RunInv
  <2>2. CASE ~found_dropped
    <3>1. num_contiguous = seq_num /\ num_contiguous' = seq_num' /\ time_contiguous = Zero
      BY <1>1, <2>2 DEF TimesInv, RunInv
    <3>2. \A k \in 0..(num_contiguous' - 1) : k \in DOMAIN probes'
      <4>1. \A k \in 0..(seq_num - 1) : k \in DOMAIN probes
        BY <3>1 DEF TimesInv, RunInv
      <4>2. \A k \in 0..((seq_num + 1) - 1) : k \in 0..(seq_num - 1) \/ k = seq_num
        BY <1>4
      <4> QED BY <1>1, <3>1, <4>1, <4>2
    <3>3. num_contiguous' \in 0..seq_num'
      BY <1>1, <1>4, <3>1
    <3> QED BY <1>1, <2>2, <3>1, <3>2, <3>3 DEF RunInv
  <2> QED BY <2>1, <2>2
<1>10. ShortestInv'
  <2>1. GapsSeen' = IF Seen = {} THEN GapsSeen ELSE GapsSeen \cup {InMicros(d)}
    BY <1>1, <1>3, GapsGrow
  <2>2. GapsSeen \subseteq Int /\ ShortestInv
    BY GapsAreNumbers DEF TimesInv
  <2> SUFFICES ASSUME 0 \notin GapsSeen'
               PROVE  IF GapsSeen' = {} THEN InMicros(time_shortest)' = 0
                      ELSE /\ InMicros(time_shortest)' \in GapsSeen'
                           /\ \A g \in GapsSeen' : InMicros(time_shortest)' <= g
    BY DEF ShortestInv
  <2>3. InMicros(time_shortest)' = InMicros(time_shortest')
    BY DEF InMicros
  <2>4. CASE Seen = {}
    <3>1. time_shortest' = time_shortest /\ GapsSeen' = GapsSeen
      BY <1>1, <1>2, <2>1, <2>4
    <3> QED BY <2>2, <2>3, <3>1 DEF ShortestInv
  <2>5. CASE Seen # {}
    <3> DEFINE x == InMicros(time_shortest)
               g == InMicros(d)
    <3>1. GapsSeen' = GapsSeen \cup {g} /\ 0 \notin GapsSeen
      BY <2>1, <2>5
    <3>2. IF GapsSeen = {} THEN x = 0 ELSE x \in GapsSeen /\ \A h \in GapsSeen : x <= h
      BY <2>2, <3>1 DEF ShortestInv
    <3>3. InMicros(time_shortest)' = IF x = 0 \/ g < x THEN g ELSE x
      BY <1>1, <1>2, <2>3, <2>5 DEF Replaces
    <3> HIDE DEF x, g
    <3>4. g \in Int
      BY <1>3 DEF g
    <3>5. CASE GapsSeen = {}
      BY <3>1, <3>2, <3>3, <3>4, <3>5
    <3>6. CASE GapsSeen # {}
      <4>1. x \in Int /\ x # 0 /\ x \in GapsSeen /\ \A h \in GapsSeen : x <= h /\ h \in Int
        BY <2>2, <3>1, <3>2, <3>6
      <4> QED BY <3>1, <3>3, <3>4, <4>1
    <3> QED BY <3>5, <3>6
  <2> QED BY <2>4, <2>5
<1> QED BY <1>1, <1>5, <1>6, <1>7, <1>8, <1>9, <1>10 DEF TimesInv

\* a probe that did not,
LEMMA MissingTimes == TimesInv /\ ProbeMissing => TimesInv'
<1> SUFFICES ASSUME TimesInv, ProbeMissing PROVE TimesInv'
  OBVIOUS
<1> DEFINE d == Minus(last_timestamp, first_timestamp)
<1>1. /\ pc = "loop" /\ pc' = "loop"
      /\ seq_num \notin DOMAIN probes /\ seq_num < num_sent /\ seq_num' = seq_num + 1
      /\ clock' = clock /\ probes' = probes /\ in_order' = in_order
      /\ first_timestamp' = first_timestamp /\ last_timestamp' = last_timestamp
      /\ time_shortest' = time_shortest /\ num_received' = num_received
      /\ time_overall' = time_overall /\ num_contiguous' = num_contiguous
      /\ found_dropped' = TRUE
      /\ IF found_dropped
         THEN time_contiguous' = time_contiguous /\ differences' = differences
         ELSE time_contiguous' = d /\ differences' = differences \cup {d}
  BY DEF ProbeMissing
<1>2. Normal(first_timestamp) /\ Normal(last_timestamp)
  BY EndsFacts
<1>3. d \in Time /\ InMicros(d) = InMicros(last_timestamp) - InMicros(first_timestamp)
  BY <1>2, MinusIsTime, SubtractionExact
<1> HIDE DEF d
<1>4. num_sent \in Nat /\ num_sent' = num_sent /\ seq_num \in Nat
  BY <1>1, TimeFacts DEF TimesInv, LoopTypes, num_sent
<1>5. Stamped' /\ \A s : At(s)' = At(s)
  BY <1>1 DEF TimesInv, Stamped, At
<1>6. LoopTypes'
  <2>1. seq_num' \in 0..num_sent'
    BY <1>1, <1>4
  <2>2. differences' \subseteq Time /\ time_contiguous' \in Time
    BY <1>1, <1>3 DEF TimesInv, LoopTypes
  <2>3. time_shortest' \in Time /\ time_overall' \in Time
    BY <1>1 DEF TimesInv, LoopTypes
  <2>4. found_dropped' \in BOOLEAN /\ in_order' \in BOOLEAN
    BY <1>1 DEF TimesInv, LoopTypes
  <2> QED BY <1>1, <2>1, <2>2, <2>3, <2>4 DEF LoopTypes
<1>7. Seen' = Seen /\ GapsSeen' = GapsSeen
  BY <1>1, SeenStays
<1>8. EndsInv' /\ ShortestInv'
  BY <1>1, <1>7 DEF TimesInv, EndsInv, ShortestInv, InMicros
<1>9. RunInv'
  <2>1. CASE found_dropped
    <3>1. /\ num_contiguous \in 0..seq_num /\ num_contiguous < seq_num
          /\ num_contiguous' = num_contiguous /\ time_contiguous' = time_contiguous
      BY <1>1, <2>1 DEF TimesInv, RunInv
    <3>2. num_contiguous' \in 0..seq_num' /\ num_contiguous' < seq_num'
      BY <1>1, <1>4, <3>1
    <3> QED BY <1>1, <1>5, <2>1, <3>1, <3>2 DEF TimesInv, RunInv, InMicros
  <2>2. CASE ~found_dropped
    <3>1. num_contiguous = seq_num /\ \A k \in 0..(seq_num - 1) : k \in DOMAIN probes
      BY <2>2 DEF TimesInv, RunInv
    <3>2. num_contiguous' \in 0..seq_num' /\ num_contiguous' < seq_num'
      BY <1>1, <1>4, <3>1
    <3>3. InMicros(d) = IF seq_num = 0 THEN 0 ELSE At(seq_num - 1) - At(0)
      <4>1. CASE seq_num = 0
        <5>1. Seen = {}
          BY <4>1, DomainFacts DEF Seen, TimesInv
        <5>2. first_timestamp = Zero /\ last_timestamp = Zero
          BY <5>1 DEF TimesInv, EndsInv
        <5> QED BY <1>3, <4>1, <5>2, TimeFacts
      <4>2. CASE seq_num # 0
        <5>1. DOMAIN probes \subseteq Nat
          BY DomainFacts DEF TimesInv
        <5>2. 0 \in Seen /\ seq_num - 1 \in Seen
          BY <1>4, <3>1, <4>2 DEF Seen
        <5>3. PICK f, l \in Seen : /\ \A r \in Seen : f <= r /\ r <= l
                                   /\ first_timestamp = probes[f]
                                   /\ last_timestamp = probes[l]
          BY <5>2 DEF TimesInv, EndsInv
        <5>4. f \in Nat /\ l \in Nat /\ l < seq_num
          BY <5>1 DEF Seen
        <5>5. f = 0 /\ l = seq_num - 1
          BY <1>4, <5>2, <5>3, <5>4
        <5> QED BY <1>3, <4>2, <5>3, <5>5 DEF At
      <4> QED BY <4>1, <4>2
    <3>4. InMicros(time_contiguous)' = InMicros(d)
      BY <1>1, <2>2 DEF InMicros
    <3>5. \A k \in 0..(num_contiguous' - 1) : k \in DOMAIN probes'
      BY <1>1, <3>1
    <3> QED BY <1>1, <1>5, <3>1, <3>2, <3>3, <3>4, <3>5 DEF RunInv
  <2> QED BY <2>1, <2>2
<1> QED BY <1>1, <1>5, <1>6, <1>7, <1>8, <1>9 DEF TimesInv

\* and its end.
LEMMA EndTimes == TimesInv /\ EndResults => TimesInv'
<1> SUFFICES ASSUME TimesInv, EndResults PROVE TimesInv'
  OBVIOUS
<1> DEFINE d == Minus(last_timestamp, first_timestamp)
<1>1. /\ pc' = "done" /\ seq_num = num_sent /\ seq_num' = seq_num
      /\ clock' = clock /\ probes' = probes /\ in_order' = in_order
      /\ first_timestamp' = first_timestamp /\ last_timestamp' = last_timestamp
      /\ time_shortest' = time_shortest /\ num_received' = num_received
      /\ num_contiguous' = num_contiguous /\ time_contiguous' = time_contiguous
      /\ found_dropped' = found_dropped
      /\ time_overall' = d /\ differences' = differences \cup {d}
  BY DEF EndResults
<1>2. d \in Time /\ InMicros(d) = InMicros(last_timestamp) - InMicros(first_timestamp)
  BY EndsFacts, MinusIsTime, SubtractionExact
<1> HIDE DEF d
<1>3. Stamped' /\ EndsInv' /\ RunInv' /\ ShortestInv' /\ Seen' = Seen
  BY <1>1 DEF TimesInv, Stamped, EndsInv, RunInv, ShortestInv, Seen, GapsSeen, Neighbours, At,
              InMicros
<1>4. LoopTypes'
  <2>1. differences' \subseteq Time /\ time_overall' \in Time
    BY <1>1, <1>2 DEF TimesInv, LoopTypes
  <2> QED BY <1>1, <2>1 DEF TimesInv, LoopTypes, num_sent
<1>5. InMicros(time_overall)' = InMicros(last_timestamp)' - InMicros(first_timestamp)'
  BY <1>1, <1>2 DEF InMicros
<1> QED BY <1>1, <1>3, <1>4, <1>5 DEF TimesInv

\* The invariant holds of every behaviour.
LEMMA TimesHold == Spec => []TimesInv
<1>1. ASSUME TimesInv, [Next]_vars PROVE TimesInv'
  <2>1. CASE UNCHANGED vars
    BY <1>1, <2>1 DEF vars, locals, results, TimesInv, Stamped, LoopTypes, EndsInv, RunInv,
                      ShortestInv, Seen, GapsSeen, Neighbours, At, InMicros, num_sent
  <2>2. CASE Next
    BY <1>1, <2>2, ArrivalsTimes, StartTimes, FoundTimes, MissingTimes, EndTimes
       DEF Next, Results
  <2> QED BY <1>1, <2>1, <2>2
<1> QED BY <1>1, InitTimes, PTL DEF Spec

\* A set of numbers with a greatest one has it for its Max.
LEMMA MaxIs ==
    ASSUME NEW S, S \subseteq Nat, NEW l \in S, \A r \in S : r <= l
    PROVE  Max(S) = l
<1>1. \A r \in S : l >= r
  OBVIOUS
<1>2. Max(S) \in S /\ \A r \in S : Max(S) >= r
  BY <1>1 DEF Max
<1> DEFINE x == Max(S)
<1>3. x \in Nat /\ l \in Nat /\ x <= l /\ x >= l
  BY <1>2
<1> HIDE DEF x
<1>4. x = l
  BY <1>3
<1> QED BY <1>4 DEF x

\* One with a least one has it for its Min.
LEMMA MinIs ==
    ASSUME NEW S, S \subseteq Int, NEW f \in S, \A r \in S : f <= r
    PROVE  Min(S) = f
<1>1. Min(S) \in S /\ \A r \in S : Min(S) <= r
  BY DEF Min
<1> DEFINE x == Min(S)
<1>2. x \in Int /\ f \in Int /\ x <= f /\ f <= x
  BY <1>1
<1> HIDE DEF x
<1>3. x = f
  BY <1>2
<1> QED BY <1>3 DEF x

\* When all numbers are passed, the run ends before the first missing one.
LEMMA RunIsContiguous ==
    ASSUME TimesInv, pc = "done", DOMAIN probes # {}
    PROVE  LET missing == (0..(BurstLen - 1)) \ DOMAIN probes IN
           /\ seq_num = BurstLen /\ Seen = DOMAIN probes
           /\ found_dropped <=> missing # {}
           /\ found_dropped => num_contiguous = Min(missing)
           /\ ~found_dropped => num_contiguous = BurstLen
<1> DEFINE missing == (0..(BurstLen - 1)) \ DOMAIN probes
<1>1. seq_num = BurstLen /\ BurstLen \in Nat
  BY TimeFacts DEF TimesInv, LoopTypes, num_sent
<1>2. DOMAIN probes \subseteq 0..(BurstLen - 1)
  BY DomainFacts DEF TimesInv
<1>3. Seen = DOMAIN probes
  BY <1>1, <1>2 DEF Seen
<1>4. RunInv
  BY DEF TimesInv
<1>5. CASE found_dropped
  <2>1. /\ num_contiguous \in missing /\ num_contiguous \in Nat
        /\ \A k \in 0..(num_contiguous - 1) : k \in DOMAIN probes
    BY <1>1, <1>4, <1>5 DEF RunInv
  <2>2. \A k \in missing : num_contiguous <= k
    BY <2>1
  <2>3. missing \subseteq Int
    OBVIOUS
  <2> HIDE DEF missing
  <2>4. Min(missing) = num_contiguous
    BY <2>1, <2>2, <2>3, MinIs
  <2> USE DEF missing
  <2> QED BY <1>1, <1>3, <1>5, <2>1, <2>4
<1>6. CASE ~found_dropped
  <2>1. num_contiguous = BurstLen /\ \A k \in 0..(BurstLen - 1) : k \in DOMAIN probes
    BY <1>1, <1>4, <1>6 DEF RunInv
  <2>2. missing = {}
    BY <2>1
  <2> QED BY <1>1, <1>3, <1>6, <2>1, <2>2
<1>7. found_dropped \in BOOLEAN
  BY DEF TimesInv, LoopTypes
<1> QED BY <1>5, <1>6, <1>7

\* The state of the loop has its types.
THEOREM TimesTyped == Spec => []TypeOK
<1>1. TimesInv => TypeOK
  <2> SUFFICES ASSUME TimesInv PROVE TypeOK
    OBVIOUS
  <2>1. seq_num \in 0..BurstLen /\ num_contiguous \in 0..BurstLen
    <3>1. num_sent \in 0..BurstLen
      BY TimeFacts DEF num_sent
    <3> QED BY <3>1, TimeFacts DEF TimesInv, LoopTypes, RunInv
  <2>2. num_received \in 0..BurstLen
    <3> DEFINE last == BurstLen - 1
    <3>1. 0 \in Int /\ last \in Int /\ (IF 0 > last THEN 0 ELSE last - 0 + 1) = BurstLen
      BY TimeFacts
    <3>2. Seen \in SUBSET (0..last)
      BY DomainFacts DEF Seen, TimesInv
    <3> HIDE DEF last
    <3>3. IsFiniteSet(0..last) /\ Cardinality(0..last) = IF 0 > last THEN 0 ELSE last - 0 + 1
      BY <3>1, FS_Interval, Zenon
    <3>4. Cardinality(Seen) <= Cardinality(0..last) /\ IsFiniteSet(Seen)
      BY <3>2, <3>3, FS_Subset
    <3>5. Cardinality(Seen) \in Nat
      BY <3>4, FS_CardinalityType
    <3> QED BY <3>1, <3>3, <3>4, <3>5, TimeFacts DEF TimesInv
  <2>3. first_timestamp \in Time /\ last_timestamp \in Time
    BY EndsFacts, TimeFacts
  <2>4. found_dropped \in BOOLEAN /\ in_order \in BOOLEAN
    BY DEF TimesInv, LoopTypes
  <2>5. {found_dropped, in_order} \subseteq BOOLEAN
    BY <2>4, Zenon
  <2> QED BY <2>1, <2>2, <2>3, <2>5 DEF TimesInv, LoopTypes, Stamped, SeqNum, TypeOK
<1> QED BY <1>1, TimesHold, PTL

\* The counts the loop keeps are those of the definition.
THEOREM CountsExact == Spec => []CountsAreSummary
<1>1. TimesInv => CountsAreSummary
  <2> SUFFICES ASSUME TimesInv, pc = "done" PROVE CountsAreSummary
    BY DEF CountsAreSummary
  <2>1. CASE DOMAIN probes = {}
    <3>1. num_sent = 0 /\ Seen = {} /\ num_contiguous = 0
      BY <2>1 DEF num_sent, Seen, TimesInv, LoopTypes, RunInv
    <3>2. num_received = 0
      BY <3>1, FS_EmptySet DEF TimesInv
    <3>3. Summary(0, {}).num_received = 0 /\ Summary(0, {}).num_contiguous = 0
      <4>1. {} \cap (0..(0 - 1)) = {} /\ (0..(0 - 1)) \ {} = {}
        OBVIOUS
      <4> QED BY <4>1, FS_EmptySet DEF Summary
    <3> QED BY <2>1, <3>1, <3>2, <3>3 DEF CountsAreSummary
  <2>2. CASE DOMAIN probes # {}
    <3> DEFINE D       == DOMAIN probes
               missing == (0..(BurstLen - 1)) \ D
    <3>1. num_sent = BurstLen
      BY <2>2 DEF num_sent
    <3>2. D \cap (0..(BurstLen - 1)) = D
      BY DomainFacts DEF TimesInv
    <3>3. /\ Seen = D
          /\ num_contiguous = IF missing = {} THEN BurstLen ELSE Min(missing)
      BY <2>2, RunIsContiguous
    <3>4. Summary(BurstLen, D) =
             [num_sent |-> BurstLen, num_received |-> Cardinality(D),
              num_contiguous |-> IF missing = {} THEN BurstLen ELSE Min(missing)]
      BY <3>2 DEF Summary
    <3> HIDE DEF D, missing
    <3>5. num_received = Cardinality(D)
      BY <3>3 DEF TimesInv
    <3>6. Summary(num_sent, D).num_received = num_received
          /\ Summary(num_sent, D).num_contiguous = num_contiguous
      BY <3>1, <3>3, <3>4, <3>5
    <3> QED BY <3>6 DEF CountsAreSummary, D
  <2> QED BY <2>1, <2>2
<1> QED BY <1>1, TimesHold, PTL

\* The overall and the contiguous time are exact to the microsecond.
THEOREM SpansExact == Spec => []TimesAreSpans
<1>1. TimesInv => TimesAreSpans
  <2> SUFFICES ASSUME TimesInv, pc = "done", probes # <<>> PROVE TimesAreSpans
    BY DEF TimesAreSpans
  <2> DEFINE D       == DOMAIN probes
             missing == (0..(BurstLen - 1)) \ D
  <2>1. D # {} /\ D \subseteq Nat
    BY DomainFacts DEF TimesInv
  <2>2. /\ seq_num = BurstLen /\ Seen = D
        /\ found_dropped <=> missing # {}
        /\ found_dropped => num_contiguous = Min(missing)
    BY <2>1, RunIsContiguous
  <2>3. PICK f, l \in D : /\ \A r \in D : f <= r /\ r <= l
                          /\ first_timestamp = probes[f] /\ last_timestamp = probes[l]
    BY <2>1, <2>2 DEF TimesInv, EndsInv
  <2> HIDE DEF D
  <2>4. Max(D) = l /\ Min(D) = f
    <3>1. D \subseteq Int /\ l \in D /\ f \in D
      BY <2>1, <2>3
    <3>2. Max(D) = l
      BY <2>1, <2>3, <3>1, MaxIs
    <3>3. Min(D) = f
      BY <2>3, <3>1, MinIs
    <3> QED BY <3>2, <3>3
  <2>5. InMicros(time_overall) = InMicros(probes[Max(D)]) - InMicros(probes[Min(D)])
    BY <2>3, <2>4 DEF TimesInv
  <2>6. InMicros(time_contiguous) =
           IF missing = {} \/ Min(missing) = 0 THEN 0
           ELSE InMicros(probes[Min(missing) - 1]) - InMicros(probes[0])
    <3>1. CASE missing = {}
      <4>1. ~found_dropped
        BY <2>2, <3>1
      <4>2. time_contiguous = Zero
        BY <4>1 DEF TimesInv, RunInv
      <4> QED BY <3>1, <4>2, TimeFacts
    <3>2. CASE missing # {}
      <4>1. found_dropped /\ num_contiguous = Min(missing)
        BY <2>2, <3>2
      <4> HIDE DEF missing
      <4> QED BY <3>2, <4>1 DEF TimesInv, RunInv, At
    <3> QED BY <3>1, <3>2
  <2> QED BY <2>5, <2>6 DEF TimesAreSpans, D
<1> QED BY <1>1, TimesHold, PTL

\* The shortest time is the smallest gap between neighbours.
THEOREM ShortestExact == Spec => []ShortestIsSmallestGap
<1>1. TimesInv => ShortestIsSmallestGap
  <2> SUFFICES ASSUME TimesInv, pc = "done", Gaps # {}, 0 \notin Gaps
               PROVE  InMicros(time_shortest) = Min(Gaps)
    BY DEF ShortestIsSmallestGap
  <2>1. DOMAIN probes # {}
    BY DEF Gaps, Neighbours
  <2>2. Seen = DOMAIN probes
    BY <2>1, RunIsContiguous
  <2>3. \A n \in Neighbours : n[2] < seq_num
    BY <2>2 DEF Seen, Neighbours
  <2>4. GapsSeen = Gaps
    BY <2>3 DEF GapsSeen, Gaps, At
  <2>5. /\ InMicros(time_shortest) \in Gaps
        /\ \A g \in Gaps : InMicros(time_shortest) <= g
    BY <2>4 DEF TimesInv, ShortestInv
  <2>6. Gaps \subseteq Int
    BY GapsAreNumbers DEF TimesInv
  <2> QED BY <2>5, <2>6, MinIs
<1> QED BY <1>1, TimesHold, PTL
=============================================================================
