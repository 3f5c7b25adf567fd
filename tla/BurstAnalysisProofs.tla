------------------------ MODULE BurstAnalysisProofs ------------------------
(***************************************************************************)
(* Proofs about BurstAnalysis: both servers find the same capacity in the  *)
(* same datagrams, and the times they find for it are related as           *)
(* VersionsAgree says; for bursts of any length, received over any time.   *)
(* And proofs about RunningStats, as BurstAnalysis uses it: count, mean,   *)
(* squares, minimum and maximum are those of all samples, and a mean is    *)
(* lost when and only when a burst took no time; for any number of bursts. *)
(***************************************************************************)
EXTENDS BurstAnalysis, ArrivalTimesProofs

-----------------------------------------------------------------------------
(* The server of version 1 disturbs nothing: the results of version 2 are  *)
(* those ArrivalTimes describes.                                           *)

\* A step of the analysis is one of ArrivalTimes, or leaves that alone.
LEMMA StepsOfTimes == [AnalysisNext]_allVars => [Next]_vars
<1> SUFFICES ASSUME [AnalysisNext]_allVars PROVE [Next]_vars
  OBVIOUS
<1>1. CASE \E s \in SeqNum : Receive(s)
  BY <1>1 DEF Receive, Next, Arrivals
<1>2. CASE Version2
  BY <1>2 DEF Version2, Next, Arrivals
<1>3. CASE PrintResults \/ StartAnalysis \/ MessageFound \/ EndLoop \/ OtherBurst
  BY <1>3 DEF PrintResults, StartAnalysis, MessageFound, EndLoop, OtherBurst
<1>4. CASE UNCHANGED allVars
  BY <1>4 DEF allVars
<1> QED BY <1>1, <1>2, <1>3, <1>4 DEF AnalysisNext

\* What is proved of ArrivalTimes holds here.
THEOREM AnalysisImplementsTimes == AnalysisSpec => Spec
<1>1. AnalysisInit => Init
  BY DEF AnalysisInit
<1> QED BY <1>1, StepsOfTimes, PTL DEF AnalysisSpec, Spec

-----------------------------------------------------------------------------
(* The invariant, in three parts.                                          *)

\* A time after the first second of the epoch, which the code tells from
\* "none yet".
Stamp(t) == Normal(t) /\ t.sec >= 1

\* Both servers store the same numbers, version 2 the first time a probe came,
\* version 1 the last.
StoresInv ==
    /\ clock \in Nat /\ clock >= MILLION
    /\ DOMAIN probes \subseteq SeqNum
    /\ DOMAIN messages = DOMAIN probes
    /\ first_arrival \in [DOMAIN probes -> Nat]
    /\ last_arrival \in [DOMAIN probes -> Nat]
    /\ \A r \in DOMAIN probes :
          /\ probes[r] = AsTime(first_arrival[r]) /\ Stamp(probes[r])
          /\ messages[r] = AsTime(last_arrival[r]) /\ Stamp(messages[r])

\* No arrival is later than now; and as long as no probe is overtaken, the last
\* arrivals come in the order of the numbers.
ArrivalsInv ==
    /\ \A r \in DOMAIN probes : last_arrival[r] <= clock
    /\ in_order => \A r, t \in DOMAIN probes : r <= t => last_arrival[r] <= last_arrival[t]

\* Version 2: as long as nothing was found missing the two timestamps are the
\* ends of the run so far; afterwards the time of the run is kept.
CountingInv ==
    /\ {seq_num, num_contiguous} \subseteq Nat
    /\ found_dropped \in BOOLEAN
    /\ pc = "receiving" => seq_num = 0 /\ ~found_dropped
    /\ 0..(num_contiguous - 1) \subseteq DOMAIN probes
    /\ ~found_dropped =>
          /\ num_contiguous = seq_num
          /\ seq_num = 0 => first_timestamp = Zero /\ last_timestamp = Zero
          /\ seq_num > 0 => /\ first_timestamp = probes[0]
                            /\ last_timestamp = probes[seq_num - 1]
    /\ found_dropped =>
          /\ num_contiguous < seq_num
          /\ num_contiguous \notin DOMAIN probes
          /\ num_contiguous > 0
                => time_contiguous = Minus(probes[num_contiguous - 1], probes[0])
    /\ pc = "done" =>
          /\ seq_num = num_sent
          /\ ~found_dropped => time_overall = Minus(last_timestamp, first_timestamp)

\* Version 1: earliest and latest are times of messages passed, with those of
\* all others between them.
Between(n) ==
    /\ \E r \in 0..(n - 1) : earliest = messages[r]
    /\ \E r \in 0..(n - 1) : latest = messages[r]
    /\ \A r \in 0..(n - 1) : NotAfter(earliest, messages[r]) /\ NotAfter(messages[r], latest)

LoopInv ==
    /\ printed => pc = "done"
    /\ analysis # "waiting" => pc = "done"
    /\ message_num \in Nat
    /\ analysis = "waiting" => message_num = 0
    /\ 0..(message_num - 1) \subseteq DOMAIN messages
    /\ message_num > 0 => Between(message_num)
    /\ Analysed => /\ message_num > 0
                   /\ message_num \notin DOMAIN messages
                   /\ time_diff = Minus(latest, earliest)

BothInv == StoresInv /\ ArrivalsInv /\ CountingInv /\ LoopInv

\* The two assumptions the proofs use.
LEMMA BoundsPositive == MILLION \in Nat \ {0} /\ BurstLen \in Nat \ {0}
BY TimesAssumption

\* A reading of the clock after the first second is a Stamp.
LEMMA StampOfClock ==
    ASSUME NEW a \in Nat, a >= MILLION
    PROVE  Stamp(AsTime(a))
<1>1. /\ MILLION \in Nat \ {0}
      /\ a \div MILLION \in Nat /\ a % MILLION \in 0..(MILLION - 1)
      /\ a = MILLION * (a \div MILLION) + (a % MILLION)
  BY BoundsPositive, Quotient
<1>2. a \div MILLION >= 1
  <2> SUFFICES ASSUME a \div MILLION = 0 PROVE FALSE
    BY <1>1
  <2>1. MILLION * (a \div MILLION) = 0
    BY <1>1, Z3
  <2> QED BY <1>1, <2>1
<1>3. AsTime(a).sec = a \div MILLION
  BY DEF AsTime
<1> QED BY <1>2, <1>3, AsTimeNormal DEF Stamp

\* The microseconds of a reading are the reading.
LEMMA MicrosOfClock ==
    ASSUME NEW a \in Nat
    PROVE  InMicros(AsTime(a)) = a
<1>1. /\ MILLION \in Nat \ {0}
      /\ a \div MILLION \in Nat /\ a % MILLION \in 0..(MILLION - 1)
      /\ a = MILLION * (a \div MILLION) + (a % MILLION)
  BY BoundsPositive, Quotient
<1>2. MILLION * (a \div MILLION) = (a \div MILLION) * MILLION
  BY <1>1, Z3
<1>3. InMicros(AsTime(a)) = (a \div MILLION) * MILLION + (a % MILLION)
  BY DEF AsTime, InMicros
<1> QED BY <1>1, <1>2, <1>3

\* The order of normal times is that of their microseconds.
LEMMA NotAfterInMicros ==
    ASSUME NEW s, NEW t, Normal(s), Normal(t), NotAfter(s, t)
    PROVE  InMicros(s) \in Int /\ InMicros(t) \in Int /\ InMicros(s) <= InMicros(t)
<1>1. /\ MILLION \in Nat \ {0}
      /\ s.sec \in Nat /\ s.usec \in 0..(MILLION - 1)
      /\ t.sec \in Nat /\ t.usec \in 0..(MILLION - 1)
  BY BoundsPositive DEF Normal
<1>2. s.sec * MILLION \in Nat /\ t.sec * MILLION \in Nat
  BY <1>1, Z3
<1>3. CASE s.sec = t.sec
  BY <1>1, <1>2, <1>3 DEF NotAfter, InMicros
<1>4. CASE s.sec < t.sec
  <2>1. s.sec * MILLION + MILLION <= t.sec * MILLION
    BY <1>1, <1>4, Z3
  <2> QED BY <1>1, <1>2, <2>1 DEF InMicros
<1> QED BY <1>3, <1>4 DEF NotAfter

\* Two normal times neither of which is after the other are the same.
LEMMA NotAfterAntisymmetric ==
    ASSUME NEW s, NEW t, Normal(s), Normal(t), NotAfter(s, t), NotAfter(t, s)
    PROVE  s = t
BY BoundsPositive DEF Normal, NotAfter

\* timercmp decides the order.
LEMMA BeforeOrNot ==
    ASSUME NEW s, NEW t, Normal(s), Normal(t)
    PROVE  /\ Before(s, t) => NotAfter(s, t)
           /\ ~Before(s, t) => NotAfter(t, s)
           /\ NotAfter(s, s)
BY BoundsPositive DEF Normal, NotAfter, Before

-----------------------------------------------------------------------------
(* The invariant holds initially, and every step preserves it.             *)

\* Nothing has arrived and nothing was looked at.
LEMMA InitBoth == AnalysisInit => BothInv
<1> SUFFICES ASSUME AnalysisInit PROVE BothInv
  OBVIOUS
<1>1. /\ DOMAIN probes = {} /\ DOMAIN messages = {} /\ first_arrival = <<>> /\ last_arrival = <<>>
      /\ clock \in Nat /\ clock >= MILLION
      /\ pc = "receiving" /\ seq_num = 0 /\ num_contiguous = 0 /\ found_dropped = FALSE
      /\ first_timestamp = Zero /\ last_timestamp = Zero
      /\ analysis = "waiting" /\ message_num = 0 /\ printed = FALSE
  BY BoundsPositive DEF AnalysisInit, Init
<1>2. StoresInv /\ ArrivalsInv
  BY <1>1 DEF StoresInv, ArrivalsInv
<1>3. CountingInv
  <2>1. 0..(num_contiguous - 1) \subseteq DOMAIN probes
    BY <1>1
  <2>2. found_dropped \in BOOLEAN /\ ~found_dropped
    BY <1>1, Zenon
  <2>3. /\ pc # "done" /\ {seq_num, num_contiguous} \subseteq Nat
        /\ num_contiguous = seq_num /\ ~(seq_num > 0)
    BY <1>1
  <2> QED BY <1>1, <2>1, <2>2, <2>3 DEF CountingInv
<1>4. LoopInv
  BY <1>1 DEF LoopInv, Analysed
<1> QED BY <1>2, <1>3, <1>4 DEF BothInv

\* A datagram is stored by both, at the same time.
LEMMA ReceiveStores ==
    ASSUME BothInv, NEW s \in SeqNum, Receive(s)
    PROVE  StoresInv' /\ ArrivalsInv'
<1>1. /\ clock' = clock
      /\ probes' = IF s \in DOMAIN probes THEN probes
                   ELSE [r \in DOMAIN probes \cup {s} |->
                            IF r = s THEN AsTime(clock) ELSE probes[r]]
      /\ messages' = [r \in DOMAIN messages \cup {s} |->
                          IF r = s THEN AsTime(clock) ELSE messages[r]]
      /\ first_arrival' = [r \in DOMAIN first_arrival \cup {s} |->
                              IF r \in DOMAIN first_arrival THEN first_arrival[r] ELSE clock]
      /\ last_arrival' = [r \in DOMAIN last_arrival \cup {s} |->
                             IF r = s THEN clock ELSE last_arrival[r]]
      /\ in_order' = (in_order /\ \A r \in DOMAIN probes : r <= s)
  BY DEF Receive, ProbeArrives
<1>2. /\ clock \in Nat /\ clock >= MILLION /\ Stamp(AsTime(clock))
      /\ DOMAIN messages = DOMAIN probes /\ DOMAIN probes \subseteq SeqNum
      /\ first_arrival \in [DOMAIN probes -> Nat] /\ last_arrival \in [DOMAIN probes -> Nat]
      /\ \A r \in DOMAIN probes :
            /\ probes[r] = AsTime(first_arrival[r]) /\ Stamp(probes[r])
            /\ messages[r] = AsTime(last_arrival[r]) /\ Stamp(messages[r])
      /\ ArrivalsInv
  BY StampOfClock DEF BothInv, StoresInv
<1>3. /\ DOMAIN probes' = DOMAIN probes \cup {s}
      /\ DOMAIN messages' = DOMAIN probes \cup {s}
      /\ first_arrival' \in [DOMAIN probes' -> Nat]
      /\ last_arrival' \in [DOMAIN probes' -> Nat]
  BY <1>1, <1>2
<1>4. ASSUME NEW r \in DOMAIN probes'
      PROVE  /\ probes'[r] = AsTime(first_arrival'[r]) /\ Stamp(probes'[r])
             /\ messages'[r] = AsTime(last_arrival'[r]) /\ Stamp(messages'[r])
  <2>1. probes'[r] = AsTime(first_arrival'[r]) /\ Stamp(probes'[r])
    <3>1. CASE r \in DOMAIN probes
      <4>1. probes'[r] = probes[r] /\ first_arrival'[r] = first_arrival[r]
        BY <1>1, <1>2, <3>1
      <4> QED BY <1>2, <3>1, <4>1
    <3>2. CASE r \notin DOMAIN probes
      <4>1. r = s /\ probes'[r] = AsTime(clock) /\ first_arrival'[r] = clock
        BY <1>1, <1>2, <1>3, <3>2
      <4> QED BY <1>2, <4>1
    <3> QED BY <3>1, <3>2
  <2>2. messages'[r] = AsTime(last_arrival'[r]) /\ Stamp(messages'[r])
    <3>1. CASE r = s
      <4>1. messages'[r] = AsTime(clock) /\ last_arrival'[r] = clock
        BY <1>1, <1>2, <3>1
      <4> QED BY <1>2, <4>1
    <3>2. CASE r # s
      <4>1. r \in DOMAIN probes /\ messages'[r] = messages[r] /\ last_arrival'[r] = last_arrival[r]
        BY <1>1, <1>2, <1>3, <3>2
      <4> QED BY <1>2, <4>1
    <3> QED BY <3>1, <3>2
  <2> QED BY <2>1, <2>2
<1>5. ASSUME NEW r \in DOMAIN probes'
      PROVE  last_arrival'[r] <= clock /\ (r # s => r \in DOMAIN probes
                                             /\ last_arrival'[r] = last_arrival[r])
  BY <1>1, <1>2, <1>3 DEF ArrivalsInv
<1>6. ASSUME in_order', NEW r \in DOMAIN probes', NEW t \in DOMAIN probes', r <= t
      PROVE  last_arrival'[r] <= last_arrival'[t]
  <2>0. in_order /\ \A u \in DOMAIN probes : u <= s
    BY <1>1, <1>6, Zenon
  <2>1. CASE t = s
    <3>1. last_arrival'[t] = clock
      BY <1>1, <1>2, <2>1
    <3> QED BY <1>5, <3>1
  <2>2. CASE t # s /\ r = s
    <3>1. t \in DOMAIN probes /\ s <= t
      BY <1>5, <1>6, <2>2
    <3>2. t <= s
      BY <2>0, <3>1
    <3>3. t \in Int /\ s \in Int
      BY <1>2, <3>1, BoundsPositive DEF SeqNum
    <3> QED BY <2>2, <3>1, <3>2, <3>3
  <2>3. CASE t # s /\ r # s
    BY <1>2, <1>5, <1>6, <2>0, <2>3 DEF ArrivalsInv
  <2> QED BY <2>1, <2>2, <2>3
<1>7. ArrivalsInv'
  BY <1>1, <1>5, <1>6 DEF ArrivalsInv
<1>8. StoresInv'
  BY <1>1, <1>2, <1>3, <1>4 DEF StoresInv
<1> QED BY <1>7, <1>8

\* The stores do not change otherwise.
LEMMA StoresStep == BothInv /\ [AnalysisNext]_allVars => StoresInv' /\ ArrivalsInv'
<1> SUFFICES ASSUME BothInv, [AnalysisNext]_allVars PROVE StoresInv' /\ ArrivalsInv'
  OBVIOUS
<1>1. CASE \E s \in SeqNum : Receive(s)
  BY <1>1, ReceiveStores
<1>2. ASSUME UNCHANGED <<probes, messages, heard, in_order>>, clock' \in {clock, clock + 1}
      PROVE  StoresInv' /\ ArrivalsInv'
  <2>1. StoresInv'
    BY <1>2, BoundsPositive DEF BothInv, StoresInv, heard
  <2>2. \A r \in DOMAIN probes : last_arrival[r] \in Nat /\ clock \in Nat
    BY DEF BothInv, StoresInv
  <2>3. ArrivalsInv'
    BY <1>2, <2>2 DEF BothInv, ArrivalsInv, heard
  <2> QED BY <2>1, <2>3
<1>3. CASE Version2
  BY <1>2, <1>3 DEF Version2, Results, Tick, StartResults, ProbeFound, ProbeMissing,
                    EndResults, analysisVars
<1>4. CASE PrintResults \/ StartAnalysis \/ MessageFound \/ EndLoop \/ OtherBurst
  BY <1>2, <1>4 DEF PrintResults, StartAnalysis, MessageFound, EndLoop, OtherBurst, vars
<1>5. CASE UNCHANGED allVars
  BY <1>2, <1>5 DEF allVars, vars, analysisVars
<1> QED BY <1>1, <1>3, <1>4, <1>5 DEF AnalysisNext

\* The iteration for a probe that arrived prolongs the run, if it is not over.
LEMMA FoundRun == BothInv /\ ProbeFound => CountingInv'
<1> SUFFICES ASSUME BothInv, ProbeFound PROVE CountingInv'
  OBVIOUS
<1> DEFINE t == probes[seq_num]
<1>1. /\ seq_num \in DOMAIN probes
      /\ first_timestamp' = IF first_timestamp.sec = 0 THEN t ELSE first_timestamp
      /\ last_timestamp' = t
      /\ num_contiguous' = IF found_dropped THEN num_contiguous ELSE num_contiguous + 1
      /\ seq_num' = seq_num + 1
      /\ pc' = "loop"
      /\ UNCHANGED <<probes, found_dropped, time_contiguous>>
  BY DEF ProbeFound
<1>2. CountingInv /\ seq_num \in Nat /\ num_contiguous \in Nat
  BY DEF BothInv, CountingInv
<1>3. CASE found_dropped
  BY <1>1, <1>2, <1>3 DEF CountingInv
<1>4. CASE ~found_dropped
  <2>1. num_contiguous = seq_num /\ num_contiguous' = seq_num + 1 /\ ~found_dropped'
    BY <1>1, <1>2, <1>4 DEF CountingInv
  <2>2. 0..(num_contiguous' - 1) \subseteq DOMAIN probes'
    <3>1. 0..(num_contiguous' - 1) = 0..(seq_num - 1) \cup {seq_num}
      BY <1>2, <2>1
    <3> QED BY <1>1, <1>2, <2>1, <3>1 DEF CountingInv
  <2>3. first_timestamp' = probes[0]
    <3>1. CASE seq_num = 0
      BY <1>1, <1>2, <1>4, <3>1 DEF CountingInv, Zero
    <3>2. CASE seq_num > 0
      <4>1. 0 \in DOMAIN probes /\ first_timestamp = probes[0]
        BY <1>2, <1>4, <2>1, <3>2 DEF CountingInv
      <4>2. probes[0].sec >= 1 /\ probes[0].sec \in Nat
        BY <4>1 DEF BothInv, StoresInv, Stamp, Normal
      <4> QED BY <1>1, <4>1, <4>2
    <3> QED BY <1>2, <3>1, <3>2
  <2>4. last_timestamp' = probes'[seq_num' - 1] /\ seq_num' > 0 /\ seq_num' \in Nat
    BY <1>1, <1>2
  <2> QED BY <1>1, <1>2, <1>4, <2>1, <2>2, <2>3, <2>4 DEF CountingInv
<1> QED BY <1>2, <1>3, <1>4 DEF CountingInv

\* The one for a probe that did not ends it,
LEMMA MissingRun == BothInv /\ ProbeMissing => CountingInv'
<1> SUFFICES ASSUME BothInv, ProbeMissing PROVE CountingInv'
  OBVIOUS
<1>1. /\ seq_num \notin DOMAIN probes
      /\ ~found_dropped => time_contiguous' = Minus(last_timestamp, first_timestamp)
      /\ found_dropped => time_contiguous' = time_contiguous
      /\ found_dropped' = TRUE
      /\ seq_num' = seq_num + 1
      /\ pc' = "loop"
      /\ UNCHANGED <<probes, num_contiguous>>
  BY DEF ProbeMissing
<1>2. CountingInv /\ seq_num \in Nat /\ num_contiguous \in Nat
  BY DEF BothInv, CountingInv
<1>3. CASE found_dropped
  BY <1>1, <1>2, <1>3 DEF CountingInv
<1>4. CASE ~found_dropped
  BY <1>1, <1>2, <1>4 DEF CountingInv
<1> QED BY <1>2, <1>3, <1>4 DEF CountingInv

\* and the other steps of ArrivalTimes leave it as it is.
LEMMA RunStep == BothInv /\ [Next]_vars => CountingInv'
<1> SUFFICES ASSUME BothInv, [Next]_vars PROVE CountingInv'
  OBVIOUS
<1>1. CountingInv
  BY DEF BothInv
<1>2. CASE Tick \/ StartResults
  BY <1>1, <1>2 DEF Tick, StartResults, CountingInv, locals, results
<1>3. ASSUME NEW s \in SeqNum, ProbeArrives(s) PROVE CountingInv'
  <2>1. pc = "receiving" /\ UNCHANGED <<pc, locals, results>>
    BY <1>3 DEF ProbeArrives
  <2>2. seq_num = 0 /\ ~found_dropped /\ num_contiguous = 0
    BY <1>1, <2>1 DEF CountingInv
  <2> QED BY <1>1, <2>1, <2>2 DEF CountingInv, locals, results
<1>4. CASE EndResults
  BY <1>1, <1>4 DEF EndResults, CountingInv, num_sent
<1>5. CASE UNCHANGED vars
  BY <1>1, <1>5 DEF vars, locals, results, CountingInv, num_sent
<1> QED BY <1>2, <1>3, <1>4, <1>5, FoundRun, MissingRun DEF Next, Arrivals, Results

-----------------------------------------------------------------------------
(* The loop of version 1.                                                  *)

\* The message it looks at is counted, and the span takes its time in.
LEMMA MessageLoop == BothInv /\ MessageFound => LoopInv'
<1> SUFFICES ASSUME BothInv, MessageFound PROVE LoopInv'
  OBVIOUS
<1> DEFINE n == message_num
           a == messages[n]
<1>1. /\ analysis = "loop" /\ n \in DOMAIN messages
      /\ earliest' = IF n = 0 \/ Before(a, earliest) THEN a ELSE earliest
      /\ latest' = IF n = 0 \/ Before(latest, a) THEN a ELSE latest
      /\ message_num' = n + 1
      /\ UNCHANGED <<pc, messages, analysis, printed>>
  BY DEF MessageFound, vars, printVars
<1>2. /\ LoopInv /\ n \in Nat /\ 0..(n - 1) \subseteq DOMAIN messages
      /\ \A r \in DOMAIN messages : Normal(messages[r])
  BY DEF BothInv, LoopInv, StoresInv, Stamp
<1>3. 0..(message_num' - 1) = 0..(n - 1) \cup {n}
  BY <1>1, <1>2
<1>4. Between(message_num)'
  <2>1. Normal(a) /\ NotAfter(a, a)
    BY <1>1, <1>2, BeforeOrNot
  <2>2. CASE n = 0
    BY <1>1, <1>3, <2>1, <2>2 DEF Between
  <2>3. CASE n > 0
    <3>1. Between(n)
      BY <1>2, <2>3 DEF LoopInv
    <3>2. Normal(earliest) /\ Normal(latest)
      BY <1>2, <3>1 DEF Between
    <3>3. /\ \E r \in 0..n : earliest' = messages[r]
          /\ \E r \in 0..n : latest' = messages[r]
      BY <1>1, <1>2, <2>3, <3>1 DEF Between
    <3>4. /\ Normal(earliest') /\ Normal(latest')
          /\ NotAfter(earliest', earliest) /\ NotAfter(earliest', a)
          /\ NotAfter(latest, latest') /\ NotAfter(a, latest')
      BY <1>1, <1>2, <2>1, <2>3, <3>2, BeforeOrNot
    <3>5. ASSUME NEW r \in 0..n
          PROVE  NotAfter(earliest', messages[r]) /\ NotAfter(messages[r], latest')
      <4>1. CASE r = n
        BY <3>4, <4>1
      <4>2. CASE r # n
        <5>1. r \in 0..(n - 1) /\ Normal(messages[r])
          BY <1>2, <3>5, <4>2
        <5>2. NotAfter(earliest, messages[r]) /\ NotAfter(messages[r], latest)
          BY <3>1, <5>1 DEF Between
        <5> QED BY <3>2, <3>4, <5>1, <5>2, NotAfterTransitive
      <4> QED BY <4>1, <4>2
    <3>6. message_num' - 1 = n
      BY <1>1, <1>2
    <3> QED BY <1>1, <3>3, <3>5, <3>6 DEF Between
  <2> QED BY <1>2, <2>2, <2>3
<1>5. 0..(message_num' - 1) \subseteq DOMAIN messages' /\ message_num' \in Nat
  BY <1>1, <1>2, <1>3
<1>6. ~Analysed'
  BY <1>1 DEF Analysed
<1> HIDE DEF n, a
<1> QED BY <1>1, <1>2, <1>4, <1>5, <1>6 DEF LoopInv

\* It ends with the difference of the two.
LEMMA EndOfLoop == BothInv /\ EndLoop => LoopInv'
<1> SUFFICES ASSUME BothInv, EndLoop PROVE LoopInv'
  OBVIOUS
<1>1. /\ analysis = "loop" /\ message_num \notin DOMAIN messages
      /\ analysis' \in {"crashed", "done"}
      /\ analysis' = "done" => message_num # 0 /\ time_diff' = Minus(latest, earliest)
      /\ UNCHANGED <<pc, messages, message_num, earliest, latest, printed>>
  BY DEF EndLoop, vars, timeval_subtract
<1>2. LoopInv /\ message_num \in Nat
  BY DEF BothInv, LoopInv
<1>3. message_num > 0 => Between(message_num)'
  BY <1>1, <1>2 DEF LoopInv, Between
<1>4. Analysed' => message_num > 0 /\ time_diff' = Minus(latest, earliest)
  BY <1>1, <1>2 DEF Analysed
<1> QED BY <1>1, <1>2, <1>3, <1>4 DEF LoopInv

\* All other steps leave the loop alone, or come before it.
LEMMA LoopStep == BothInv /\ [AnalysisNext]_allVars => LoopInv'
<1> SUFFICES ASSUME BothInv, [AnalysisNext]_allVars PROVE LoopInv'
  OBVIOUS
<1>1. LoopInv
  BY DEF BothInv
<1>2. ASSUME NEW s \in SeqNum, Receive(s) PROVE LoopInv'
  <2>1. pc = "receiving" /\ UNCHANGED <<pc, loopVars, printVars>>
    BY <1>2 DEF Receive, ProbeArrives
  <2>2. ~printed /\ analysis = "waiting" /\ message_num = 0
    BY <1>1, <2>1 DEF LoopInv
  <2>3. ~printed' /\ analysis' = "waiting" /\ message_num' = 0 /\ ~Analysed'
    BY <2>1, <2>2 DEF loopVars, printVars, Analysed
  <2> QED BY <2>3 DEF LoopInv
<1>3. CASE Version2
  <2>1. UNCHANGED <<messages, loopVars, printed>>
    BY <1>3 DEF Version2, analysisVars, printVars
  <2>2. pc = "done" => pc' = "done"
    BY <1>3 DEF Version2, Results, Tick, StartResults, ProbeFound, ProbeMissing, EndResults
  <2> QED BY <1>1, <2>1, <2>2 DEF LoopInv, loopVars, Between, Analysed
<1>4. CASE PrintResults
  BY <1>1, <1>4 DEF PrintResults, LoopInv, vars, loopVars, Between, Analysed
<1>5. CASE StartAnalysis
  <2>1. /\ analysis = "waiting" /\ printed
        /\ analysis' = IF messages = <<>> THEN "done" ELSE "loop"
        /\ UNCHANGED <<pc, messages, message_num, earliest, latest, time_diff, printed>>
    BY <1>5 DEF StartAnalysis, vars, printVars
  <2>2. message_num = 0 /\ pc = "done" /\ ~Analysed'
    BY <1>1, <2>1 DEF LoopInv, Analysed
  <2> QED BY <1>1, <2>1, <2>2 DEF LoopInv
<1>6. CASE OtherBurst
  BY <1>1, <1>6 DEF OtherBurst, LoopInv, vars, loopVars, Between, Analysed
<1>7. CASE UNCHANGED allVars
  BY <1>1, <1>7 DEF allVars, vars, analysisVars, printVars, LoopInv, loopVars, Between, Analysed
<1> QED BY <1>2, <1>3, <1>4, <1>5, <1>6, <1>7, MessageLoop, EndOfLoop DEF AnalysisNext

\* The invariant holds always.
LEMMA BothInvariant == AnalysisSpec => []BothInv
<1>1. BothInv /\ [AnalysisNext]_allVars => BothInv'
  BY StoresStep, RunStep, LoopStep, StepsOfTimes DEF BothInv
<1> QED BY InitBoth, <1>1, PTL DEF AnalysisSpec

-----------------------------------------------------------------------------
(* The theorems.                                                           *)

\* What the invariant says when the analysis is over: the run counted by both
\* is the same, and the times are those of its messages.
LEMMA RunAnalysed ==
    ASSUME BothInv, Analysed
    PROVE  /\ message_num \in Nat \ {0} /\ message_num = num_contiguous
           /\ 0..(message_num - 1) \subseteq DOMAIN messages
           /\ \A r \in DOMAIN messages : Normal(messages[r])
           /\ Between(message_num) /\ Normal(earliest) /\ Normal(latest)
           /\ time_diff = Minus(latest, earliest)
           /\ (IF num_contiguous = num_sent THEN time_overall ELSE time_contiguous)
                 = Minus(probes[num_contiguous - 1], probes[0])
<1>1. /\ message_num \in Nat /\ message_num > 0 /\ message_num \notin DOMAIN messages
      /\ 0..(message_num - 1) \subseteq DOMAIN messages
      /\ Between(message_num) /\ pc = "done"
      /\ time_diff = Minus(latest, earliest)
  BY DEF BothInv, LoopInv, Analysed
<1>2. /\ DOMAIN messages = DOMAIN probes /\ DOMAIN probes \subseteq SeqNum
      /\ \A r \in DOMAIN messages : Normal(messages[r])
  BY DEF BothInv, StoresInv, Stamp
<1>3. Normal(earliest) /\ Normal(latest)
  BY <1>1, <1>2 DEF Between
<1>4. 0 \in DOMAIN probes /\ num_sent = BurstLen /\ BurstLen \in Nat \ {0}
  BY <1>1, <1>2, BoundsPositive DEF num_sent
<1>5. /\ CountingInv /\ seq_num = BurstLen /\ num_contiguous \in Nat
      /\ 0..(num_contiguous - 1) \subseteq DOMAIN probes
  BY <1>1, <1>4 DEF BothInv, CountingInv
<1>6. num_contiguous \notin DOMAIN probes
  <2>1. CASE found_dropped
    BY <1>5, <2>1 DEF CountingInv
  <2>2. CASE ~found_dropped
    <3>1. num_contiguous = BurstLen
      BY <1>5, <2>2 DEF CountingInv
    <3> QED BY <1>2, <1>4, <3>1 DEF SeqNum
  <2> QED BY <1>5, <2>1, <2>2
<1>7. message_num = num_contiguous
  <2>1. ASSUME message_num < num_contiguous PROVE FALSE
    BY <1>1, <1>2, <1>5, <2>1
  <2>2. ASSUME num_contiguous < message_num PROVE FALSE
    BY <1>1, <1>2, <1>5, <1>6, <2>2
  <2> QED BY <1>1, <1>5, <2>1, <2>2
<1>8. (IF num_contiguous = num_sent THEN time_overall ELSE time_contiguous)
         = Minus(probes[num_contiguous - 1], probes[0])
  <2>1. CASE found_dropped
    <3>1. num_contiguous < BurstLen
      BY <1>5, <2>1 DEF CountingInv
    <3>2. time_contiguous = Minus(probes[num_contiguous - 1], probes[0])
      BY <1>1, <1>5, <1>7, <2>1 DEF CountingInv
    <3> QED BY <1>4, <1>5, <3>1, <3>2
  <2>2. CASE ~found_dropped
    <3>1. num_contiguous = seq_num /\ time_overall = Minus(last_timestamp, first_timestamp)
      BY <1>1, <1>5, <2>2 DEF CountingInv
    <3>2. first_timestamp = probes[0] /\ last_timestamp = probes[seq_num - 1]
      BY <1>4, <1>5, <2>2 DEF CountingInv
    <3> QED BY <1>4, <1>5, <3>1, <3>2
  <2> QED BY <1>5, <2>1, <2>2
<1> QED BY <1>1, <1>2, <1>3, <1>7, <1>8

\* What the clock said is what the messages have.
LEMMA MicrosStored ==
    ASSUME BothInv, NEW r \in DOMAIN messages
    PROVE  /\ first_arrival[r] \in Nat /\ last_arrival[r] \in Nat
           /\ InMicros(probes[r]) = first_arrival[r] /\ Normal(probes[r])
           /\ InMicros(messages[r]) = last_arrival[r] /\ Normal(messages[r])
<1>1. /\ first_arrival[r] \in Nat /\ last_arrival[r] \in Nat
      /\ probes[r] = AsTime(first_arrival[r]) /\ messages[r] = AsTime(last_arrival[r])
      /\ Normal(probes[r]) /\ Normal(messages[r])
  BY DEF BothInv, StoresInv, Stamp
<1>2. InMicros(AsTime(first_arrival[r])) = first_arrival[r]
  BY <1>1, MicrosOfClock
<1>3. InMicros(AsTime(last_arrival[r])) = last_arrival[r]
  BY <1>1, MicrosOfClock
<1> QED BY <1>1, <1>2, <1>3

\* The time version 1 divides by is the exact span of the messages it counts.
LEMMA SpanAnalysed == BothInv => SpanIsExact
<1> SUFFICES ASSUME BothInv, Analysed
             PROVE  /\ \A r, s \in 0..(message_num - 1) :
                          last_arrival[r] - last_arrival[s] <= InMicros(time_diff)
                    /\ \E r, s \in 0..(message_num - 1) :
                          last_arrival[r] - last_arrival[s] = InMicros(time_diff)
                    /\ time_diff.sec >= 0 /\ time_diff.usec >= 0
  BY DEF SpanIsExact
<1> DEFINE counted == 0..(message_num - 1)
<1>1. /\ counted \subseteq DOMAIN messages
      /\ \A r \in counted : Normal(messages[r])
      /\ Normal(earliest) /\ Normal(latest)
      /\ time_diff = Minus(latest, earliest)
      /\ Between(message_num)
  BY RunAnalysed
<1>2. InMicros(time_diff) = InMicros(latest) - InMicros(earliest)
  BY <1>1, SubtractionExact
<1>3. \A r \in counted : NotAfter(earliest, messages[r]) /\ NotAfter(messages[r], latest)
  BY <1>1 DEF Between
<1>4. PICK p \in counted : earliest = messages[p]
  BY <1>1 DEF Between
<1>5. PICK q \in counted : latest = messages[q]
  BY <1>1 DEF Between
<1>6. \A r \in counted : InMicros(messages[r]) = last_arrival[r] /\ last_arrival[r] \in Int
  BY <1>1, MicrosStored
<1>7. ASSUME NEW r \in counted, NEW s \in counted
      PROVE  last_arrival[r] - last_arrival[s] <= InMicros(time_diff)
  <2>1. /\ InMicros(latest) \in Int
        /\ InMicros(messages[r]) <= InMicros(latest)
    BY <1>1, <1>3, NotAfterInMicros
  <2>2. /\ InMicros(earliest) \in Int
        /\ InMicros(earliest) <= InMicros(messages[s])
    BY <1>1, <1>3, NotAfterInMicros
  <2> QED BY <1>2, <1>6, <2>1, <2>2
<1>8. last_arrival[q] - last_arrival[p] = InMicros(time_diff)
  BY <1>2, <1>4, <1>5, <1>6
<1>9. NotAfter(earliest, latest)
  BY <1>3, <1>5
<1>10. time_diff.sec >= 0 /\ time_diff.usec >= 0
  BY <1>1, <1>9, MinusNotNegative
<1> QED BY <1>7, <1>8, <1>10

\* Version 1 divides by the exact span of the messages it counts, whichever
\* of them come first, how often they come and however long the burst is.
THEOREM SpanExact == AnalysisSpec => []SpanIsExact
BY SpanAnalysed, BothInvariant, PTL

\* The two servers agree on the capacity; the time of version 2 is that of the
\* first arrivals, the time of version 1 that of the last.
LEMMA AgreeAnalysed == BothInv => VersionsAgree
<1> SUFFICES ASSUME BothInv, Analysed
             PROVE  LET contiguous == IF num_contiguous = num_sent THEN time_overall
                                      ELSE time_contiguous
                        final      == message_num - 1
                    IN  /\ message_num = num_contiguous
                        /\ InMicros(contiguous) = first_arrival[final] - first_arrival[0]
                        /\ InMicros(time_diff) >= last_arrival[final] - last_arrival[0]
                        /\ in_order
                             => InMicros(time_diff) = last_arrival[final] - last_arrival[0]
  BY DEF VersionsAgree
<1> DEFINE counted == 0..(message_num - 1)
           final == message_num - 1
           contiguous == IF num_contiguous = num_sent THEN time_overall ELSE time_contiguous
<1>1. /\ message_num \in Nat \ {0} /\ message_num = num_contiguous
      /\ counted \subseteq DOMAIN messages
      /\ contiguous = Minus(probes[final], probes[0])
  BY RunAnalysed
<1>2. 0 \in counted /\ final \in counted
  BY <1>1
<1>3. \A r \in counted : /\ InMicros(probes[r]) = first_arrival[r] /\ Normal(probes[r])
                         /\ last_arrival[r] \in Int
  BY <1>1, MicrosStored
<1>4. InMicros(contiguous) = first_arrival[final] - first_arrival[0]
  <2>1. InMicros(Minus(probes[final], probes[0])) = InMicros(probes[final]) - InMicros(probes[0])
    BY <1>2, <1>3, SubtractionExact
  <2> QED BY <1>1, <1>2, <1>3, <2>1
<1>5. /\ \A r, s \in counted : last_arrival[r] - last_arrival[s] <= InMicros(time_diff)
      /\ \E r, s \in counted : last_arrival[r] - last_arrival[s] = InMicros(time_diff)
  BY SpanAnalysed DEF SpanIsExact
<1>6. PICK p \in counted, q \in counted : last_arrival[q] - last_arrival[p] = InMicros(time_diff)
  BY <1>5
<1> HIDE DEF contiguous
<1>7. InMicros(time_diff) \in Int /\ last_arrival[final] - last_arrival[0] <= InMicros(time_diff)
  BY <1>2, <1>3, <1>5, <1>6
<1>8. ASSUME in_order PROVE InMicros(time_diff) <= last_arrival[final] - last_arrival[0]
  <2>1. \A r, t \in counted : r <= t => last_arrival[r] <= last_arrival[t]
    BY <1>1, <1>8 DEF BothInv, ArrivalsInv, StoresInv
  <2>2. 0 <= p /\ q <= final
    BY <1>1
  <2>3. last_arrival[0] <= last_arrival[p] /\ last_arrival[q] <= last_arrival[final]
    BY <1>2, <2>1, <2>2
  <2> QED BY <1>2, <1>3, <1>6, <2>3
<1>9. in_order => InMicros(time_diff) = last_arrival[final] - last_arrival[0]
  BY <1>2, <1>3, <1>7, <1>8
<1>10. InMicros(time_diff) >= last_arrival[final] - last_arrival[0]
  BY <1>2, <1>3, <1>7
<1> QED BY <1>1, <1>4, <1>9, <1>10 DEF contiguous

\* In the same datagrams both versions find the same buffer capacity; they
\* differ in its time just by the way they treat duplicates and disorder.
THEOREM BothVersionsAgree == AnalysisSpec => []VersionsAgree
BY AgreeAnalysed, BothInvariant, PTL

-----------------------------------------------------------------------------
(* Fractions in lowest terms.  What a fraction is worth is said by a       *)
(* numerator and a denominator it may be written with.                     *)

\* In lowest terms only one divides both parts.
Lowest(x) ==
    /\ x \in [num : Int, den : Nat \ {0}]
    /\ \A k \in Nat \ {0} : \A u, v \in Int : (x.num = k * u /\ x.den = k * v) => k = 1

\* x is p / q.
Is(x, p, q) == x.num * q = p * x.den

\* A set of naturals with a bound has a greatest member.
LEMMA MaxOfBounded ==
    ASSUME NEW S, S \subseteq Nat, S # {}, NEW b \in Nat, \A m \in S : m <= b
    PROVE  Max(S) \in S /\ \A m \in S : m <= Max(S)
<1> DEFINE rest == {b - m : m \in S}
<1>1. rest \subseteq Nat /\ rest # {}
  <2>1. \A m \in S : b - m \in Nat
    OBVIOUS
  <2>2. PICK m \in S : TRUE
    OBVIOUS
  <2>3. b - m \in rest
    OBVIOUS
  <2>4. \A r \in rest : r \in Nat
    BY <2>1
  <2> QED BY <2>3, <2>4
<1>2. Min(rest) \in rest /\ \A r \in rest : Min(rest) <= r
  <2> HIDE DEF rest
  <2> QED BY <1>1, MinOfNaturals
<1>3. PICK g \in S : Min(rest) = b - g
  BY <1>2
<1>4. \A m \in S : m <= g
  BY <1>2, <1>3
<1>5. \E x \in S : \A y \in S : x >= y
  BY <1>4
<1>6. Max(S) \in S /\ \A y \in S : Max(S) >= y
  BY <1>5 DEF Max
<1> QED BY <1>6

\* Arithmetic the provers need to be told.  Factors are cancelled.
LEMMA Cancel ==
    ASSUME NEW a \in Int, NEW b \in Int, NEW c \in Int, c # 0, a * c = b * c
    PROVE  a = b
OBVIOUS

\* A multiple has no remainder,
LEMMA MultipleRemainder ==
    ASSUME NEW m \in Nat, m > 0, NEW w \in Int
    PROVE  (m * w) % m = 0
<1> DEFINE q == (m * w) \div m
           r == (m * w) % m
<1>1. m * w \in Int
  OBVIOUS
<1>2. q \in Int /\ r \in 0..(m - 1) /\ m * w = m * q + r
  <2>1. \A a \in Int : \A b \in Nat : b > 0 => /\ a \div b \in Int /\ a % b \in 0..(b - 1)
                                              /\ a = b * (a \div b) + (a % b)
    OBVIOUS
  <2> QED BY <1>1, <2>1
<1> HIDE DEF q, r
<1>3. m * (w - q) = r
  BY <1>2
<1>4. w - q \in Int
  BY <1>2
<1>5. CASE w - q >= 1
  <2>1. m * (w - q) >= m
    BY <1>4, <1>5
  <2> QED BY <1>2, <1>3, <2>1
<1>6. CASE w - q <= -1
  <2>1. m * (w - q) <= -m
    BY <1>4, <1>6
  <2> QED BY <1>2, <1>3, <2>1
<1>7. CASE w - q = 0
  <2>1. r = 0
    BY <1>2, <1>3, <1>7
  <2> QED BY <2>1 DEF r
<1> QED BY <1>4, <1>5, <1>6, <1>7

\* and what has none is a multiple.
LEMMA NoRemainder ==
    ASSUME NEW m \in Nat, m > 0, NEW a \in Int, a % m = 0
    PROVE  a \div m \in Int /\ a = m * (a \div m)
<1>1. \A x \in Int : \A b \in Nat : b > 0 => x \div b \in Int /\ x = b * (x \div b) + (x % b)
  OBVIOUS
<1> QED BY <1>1

\* Reduced brings a fraction to lowest terms and keeps what it is worth.
LEMMA ReducedIs ==
    ASSUME NEW n \in Int, NEW d \in Int, d # 0
    PROVE  /\ Lowest(Reduced(Fraction(n, d)))
           /\ Is(Reduced(Fraction(n, d)), n, d)
<1> DEFINE f == Fraction(n, d)
           c == Max(Common(f))
           sign == IF d < 0 THEN -1 ELSE 1
           u == n \div c
           v == d \div c
           x == Reduced(f)
<1>1. f.num = n /\ f.den = d
  BY DEF Fraction
<1>2. Common(f) = {k \in 1..Size(d) : n % k = 0 /\ d % k = 0}
  BY <1>1 DEF Common
<1>3. Size(d) \in Nat \ {0} /\ (Size(d) = d \/ Size(d) = -d)
  BY DEF Size
<1>4. c \in Common(f) /\ \A k \in Common(f) : k <= c
  <2>1. 1 \in Common(f)
    <3>1. n % 1 = 0 /\ d % 1 = 0
      OBVIOUS
    <3> QED BY <1>2, <1>3, <3>1
  <2>2. Common(f) \subseteq Nat /\ \A k \in Common(f) : k <= Size(d)
    BY <1>2, <1>3
  <2> QED BY <1>3, <2>1, <2>2, MaxOfBounded
<1>5. c \in Nat /\ c > 0 /\ n % c = 0 /\ d % c = 0
  BY <1>2, <1>3, <1>4
<1>6. x = Fraction(sign * u, sign * v)
  BY <1>1 DEF Reduced
<1> HIDE DEF c
<1>7. u \in Int /\ n = c * u /\ v \in Int /\ d = c * v
  BY <1>5, NoRemainder
<1>8. x = [num |-> sign * u, den |-> sign * v] /\ x.num = sign * u /\ x.den = sign * v
  BY <1>6 DEF Fraction
<1> HIDE DEF u, v, x, f
<1>9. sign * v \in Nat \ {0} /\ sign * u \in Int
  <2>1. CASE d < 0
    <3>1. v < 0
      <4> SUFFICES ASSUME v >= 0 PROVE FALSE
        BY <1>7
      <4>1. c * v >= 0
        BY <1>5, <1>7
      <4> QED BY <1>7, <2>1, <4>1
    <3> QED BY <1>7, <2>1, <3>1
  <2>2. CASE ~(d < 0)
    <3>1. v > 0
      <4> SUFFICES ASSUME v <= 0 PROVE FALSE
        BY <1>7
      <4>1. c * v <= 0
        BY <1>5, <1>7
      <4> QED BY <1>7, <2>2, <4>1
    <3> QED BY <1>7, <2>2, <3>1
  <2> QED BY <2>1, <2>2
<1>10. sign \in Int /\ sign * sign = 1
  OBVIOUS
<1> HIDE DEF sign
<1>11. ASSUME NEW k \in Nat \ {0}, NEW a \in Int, NEW b \in Int, sign * u = k * a, sign * v = k * b
       PROVE  k = 1
  <2>1. u = k * (sign * a) /\ v = k * (sign * b)
    <3>1. sign * (sign * u) = sign * (k * a) /\ sign * (sign * v) = sign * (k * b)
      BY <1>11
    <3>2. sign * (sign * u) = u /\ sign * (sign * v) = v
      <4>1. sign * (sign * u) = (sign * sign) * u /\ sign * (sign * v) = (sign * sign) * v
        BY <1>7, <1>10
      <4> QED BY <1>7, <1>10, <4>1
    <3>3. sign * (k * a) = k * (sign * a) /\ sign * (k * b) = k * (sign * b)
      BY <1>10
    <3> QED BY <3>1, <3>2, <3>3
  <2> DEFINE m == c * k
  <2>2. n = m * (sign * a) /\ d = m * (sign * b) /\ sign * a \in Int /\ sign * b \in Int
    BY <1>5, <1>7, <1>10, <2>1
  <2>3. m \in Nat /\ m > 0
    BY <1>5
  <2>4. m <= Size(d)
    <3> DEFINE e == sign * b
    <3>1. d = m * e /\ e \in Int
      BY <2>2
    <3> HIDE DEF m, e
    <3>2. e # 0
      BY <2>3, <3>1
    <3>3. CASE e >= 1
      <4>1. m * e >= m
        BY <2>3, <3>1, <3>3
      <4> QED BY <1>3, <2>3, <3>1, <4>1
    <3>4. CASE e <= -1
      <4>1. m * e <= -m
        BY <2>3, <3>1, <3>4
      <4> QED BY <1>3, <2>3, <3>1, <4>1
    <3> QED BY <3>1, <3>2, <3>3, <3>4
  <2>5. n % m = 0 /\ d % m = 0
    <3> HIDE DEF m
    <3>1. (m * (sign * a)) % m = 0
      BY <2>2, <2>3, MultipleRemainder
    <3>2. (m * (sign * b)) % m = 0
      BY <2>2, <2>3, MultipleRemainder
    <3> QED BY <2>2, <3>1, <3>2
  <2>6. m \in Common(f)
    BY <1>2, <1>3, <2>3, <2>4, <2>5
  <2>7. c * k <= c
    BY <1>4, <2>6
  <2> QED BY <1>5, <2>7
<1>12. Lowest(x)
  BY <1>8, <1>9, <1>11 DEF Lowest
<1>13. Is(x, n, d)
  <2>1. (sign * u) * (c * v) = (c * u) * (sign * v)
    BY <1>5, <1>7, <1>10
  <2> QED BY <1>7, <1>8, <2>1 DEF Is
<1> QED BY <1>12, <1>13 DEF x, f

\* A fraction is worth the same whichever way it is written,
LEMMA Rewritten ==
    ASSUME NEW x, Lowest(x), NEW p \in Int, NEW q \in Int \ {0}, Is(x, p, q),
           NEW r \in Int, NEW s \in Int, p * s = r * q
    PROVE  Is(x, r, s)
<1>1. x.num \in Int /\ x.den \in Int /\ x.num * q = p * x.den
  BY DEF Lowest, Is
<1>2. (x.num * s) * q = (r * x.den) * q
  <2>1. (x.num * s) * q = (x.num * q) * s
    BY <1>1
  <2>2. (p * x.den) * s = (p * s) * x.den
    BY <1>1
  <2>3. (r * q) * x.den = (r * x.den) * q
    BY <1>1
  <2> QED BY <1>1, <2>1, <2>2, <2>3
<1>3. x.num * s \in Int /\ r * x.den \in Int
  BY <1>1
<1>4. x.num * s = r * x.den
  BY <1>2, <1>3, Cancel
<1> QED BY <1>4 DEF Is

\* and two fractions in lowest terms worth the same are the same: the least
\* denominator d their value p / d can be written with divides that of each,
IsLeast(d, a, b) == \A r \in Nat \ {0} : \A t \in Int : t * b = a * r => d <= r

\* The least denominator goes into every other, and the numerators follow.
LEMMA LeastDivides ==
    ASSUME NEW a \in Int, NEW b \in Nat \ {0}, NEW p \in Int, NEW d \in Nat \ {0},
           p * b = a * d, IsLeast(d, a, b)
    PROVE  \E k \in Nat \ {0} : a = k * p /\ b = k * d
<1> DEFINE k == b \div d
           r == b % d
<1>1. k \in Int /\ r \in 0..(d - 1) /\ b = d * k + r
  <2>1. \A x \in Int : \A y \in Nat : y > 0 => /\ x \div y \in Int /\ x % y \in 0..(y - 1)
                                              /\ x = y * (x \div y) + (x % y)
    OBVIOUS
  <2> QED BY <2>1
<1> HIDE DEF k, r
<1>2. r = 0
  <2> SUFFICES ASSUME r # 0 PROVE FALSE
    OBVIOUS
  <2>1. (a - k * p) * b = a * r
    <3>1. (a - k * p) * b = a * b - k * (p * b)
      BY <1>1
    <3>2. a * b - k * (p * b) = a * b - k * (a * d)
      BY <1>1
    <3>3. a * r = a * (b - d * k)
      BY <1>1
    <3>4. a * (b - d * k) = a * b - k * (a * d)
      BY <1>1
    <3> QED BY <3>1, <3>2, <3>3, <3>4
  <2>2. a - k * p \in Int /\ r \in Nat \ {0}
    BY <1>1
  <2>3. d <= r
    BY <2>1, <2>2 DEF IsLeast
  <2> QED BY <1>1, <2>3
<1>3. b = k * d
  BY <1>1, <1>2
<1>4. a = k * p
  <2>1. p * (k * d) = a * d
    BY <1>3
  <2>2. (k * p) * d = a * d
    BY <1>1, <2>1
  <2>3. k * p \in Int
    BY <1>1
  <2> QED BY <2>2, <2>3, Cancel
<1>5. k > 0
  <2> SUFFICES ASSUME k <= 0 PROVE FALSE
    BY <1>1
  <2>1. k * d <= 0
    BY <1>1
  <2> QED BY <1>3, <2>1
<1> QED BY <1>1, <1>3, <1>4, <1>5

\* so that both are written with it.
LEMMA SameFraction ==
    ASSUME NEW x, NEW y, Lowest(x), Lowest(y), NEW p \in Int, NEW q \in Int \ {0},
           Is(x, p, q), Is(y, p, q)
    PROVE  x = y
<1>1. /\ x = [num |-> x.num, den |-> x.den] /\ x.num \in Int /\ x.den \in Nat \ {0}
      /\ y = [num |-> y.num, den |-> y.den] /\ y.num \in Int /\ y.den \in Nat \ {0}
      /\ x.num * q = p * x.den /\ y.num * q = p * y.den
  BY DEF Lowest, Is
<1>2. x.num * y.den = y.num * x.den
  <2>1. (x.num * y.den) * q = (x.num * q) * y.den
    BY <1>1
  <2>2. (p * x.den) * y.den = (p * y.den) * x.den
    BY <1>1
  <2>3. (y.num * q) * x.den = (y.num * x.den) * q
    BY <1>1
  <2>4. (x.num * y.den) * q = (y.num * x.den) * q
    BY <1>1, <2>1, <2>2, <2>3
  <2>5. x.num * y.den \in Int /\ y.num * x.den \in Int
    BY <1>1
  <2> QED BY <2>4, <2>5, Cancel
<1> DEFINE dens == {r \in Nat \ {0} : \E t \in Int : t * x.den = x.num * r}
           d == Min(dens)
<1>3. d \in dens /\ \A r \in dens : d <= r
  <2>1. x.den \in dens
    BY <1>1
  <2> HIDE DEF dens
  <2>2. dens \subseteq Nat
    BY DEF dens
  <2> QED BY <2>1, <2>2, MinOfNaturals
<1>4. d \in Nat \ {0}
  BY <1>3
<1>5. PICK t \in Int : t * x.den = x.num * d
  BY <1>3
<1>6. IsLeast(d, x.num, x.den)
  BY <1>3 DEF IsLeast
<1> HIDE DEF d, dens
<1>7. ASSUME NEW s \in Int, NEW r \in Int
      PROVE  s * x.den = x.num * r <=> s * y.den = y.num * r
  <2>1. (x.num * r) * y.den = (y.num * r) * x.den
    <3>1. (x.num * r) * y.den = (x.num * y.den) * r
      BY <1>1
    <3>2. (y.num * r) * x.den = (y.num * x.den) * r
      BY <1>1
    <3> QED BY <1>2, <3>1, <3>2
  <2>2. x.num * r \in Int /\ y.num * r \in Int /\ s * x.den \in Int /\ s * y.den \in Int
    BY <1>1
  <2>3. ASSUME s * x.den = x.num * r PROVE s * y.den = y.num * r
    <3>1. (s * y.den) * x.den = (s * x.den) * y.den
      BY <1>1
    <3>2. (s * y.den) * x.den = (y.num * r) * x.den
      BY <2>1, <2>3, <3>1
    <3> QED BY <1>1, <2>2, <3>2, Cancel
  <2>4. ASSUME s * y.den = y.num * r PROVE s * x.den = x.num * r
    <3>1. (s * y.den) * x.den = (s * x.den) * y.den
      BY <1>1
    <3>2. (s * x.den) * y.den = (x.num * r) * y.den
      BY <2>1, <2>4, <3>1
    <3> QED BY <1>1, <2>2, <3>2, Cancel
  <2> QED BY <2>3, <2>4
<1>8. \E k \in Nat \ {0} : x.num = k * t /\ x.den = k * d
  BY <1>1, <1>4, <1>5, <1>6, LeastDivides
<1>9. \E k \in Nat \ {0} : y.num = k * t /\ y.den = k * d
  <2>1. t * y.den = y.num * d
    BY <1>4, <1>5, <1>7
  <2>2. IsLeast(d, y.num, y.den)
    <3> SUFFICES ASSUME NEW r \in Nat \ {0}, NEW s \in Int, s * y.den = y.num * r PROVE d <= r
      BY DEF IsLeast
    <3>1. s * x.den = x.num * r
      BY <1>7
    <3> QED BY <1>6, <3>1 DEF IsLeast
  <2> QED BY <1>1, <1>4, <2>1, <2>2, LeastDivides
<1>10. x.num = t /\ x.den = d
  <2>1. PICK k \in Nat \ {0} : x.num = k * t /\ x.den = k * d
    BY <1>8
  <2>2. k = 1
    BY <1>4, <2>1 DEF Lowest
  <2> QED BY <1>4, <2>1, <2>2
<1>11. y.num = t /\ y.den = d
  <2>1. PICK k \in Nat \ {0} : y.num = k * t /\ y.den = k * d
    BY <1>9
  <2>2. k = 1
    BY <1>4, <2>1 DEF Lowest
  <2> QED BY <1>4, <2>1, <2>2
<1> QED BY <1>1, <1>10, <1>11

-----------------------------------------------------------------------------
(* The arithmetic of fractions is that of what they are worth.             *)

\* Whole numbers.
LEMMA WholeIs ==
    ASSUME NEW n \in Int
    PROVE  Lowest(Whole(n)) /\ Is(Whole(n), n, 1)
<1>1. Whole(n) = [num |-> n, den |-> 1]
  BY DEF Whole, Fraction
<1>2. \A k \in Nat \ {0} : \A v \in Int : 1 = k * v => k = 1
  <2> SUFFICES ASSUME NEW k \in Nat \ {0}, NEW v \in Int, 1 = k * v, k >= 2 PROVE FALSE
    OBVIOUS
  <2>1. v >= 1
    <3> SUFFICES ASSUME v <= 0 PROVE FALSE
      OBVIOUS
    <3>1. k * v <= 0
      OBVIOUS
    <3> QED BY <3>1
  <2>2. k * v >= k
    BY <2>1
  <2> QED BY <2>2
<1> QED BY <1>1, <1>2 DEF Lowest, Is

\* Sums,
LEMMA PlusIs ==
    ASSUME NEW x, NEW y, Lowest(x), Lowest(y), NEW p \in Int, NEW r \in Int, NEW q \in Int \ {0},
           Is(x, p, q), Is(y, r, q)
    PROVE  Lowest(Plus(x, y)) /\ Is(Plus(x, y), p + r, q)
<1>1. /\ x.num \in Int /\ x.den \in Int /\ x.den # 0 /\ x.num * q = p * x.den
      /\ y.num \in Int /\ y.den \in Int /\ y.den # 0 /\ y.num * q = r * y.den
  BY DEF Lowest, Is
<1> DEFINE n == x.num * y.den + y.num * x.den
           d == x.den * y.den
<1>2. Plus(x, y) = Reduced(Fraction(n, d))
  <2>1. ~(x = y /\ ~IsFinite(x))
    BY <1>1 DEF IsFinite
  <2> QED BY <2>1 DEF Plus
<1>3. n \in Int /\ d \in Int /\ d # 0
  <2>1. x.num \in Int /\ x.den \in Int /\ x.den # 0 /\ y.num \in Int /\ y.den \in Int /\ y.den # 0
    BY <1>1
  <2>2. \A a, b \in Int : (a # 0 /\ b # 0) => a * b # 0
    OBVIOUS
  <2>3. \A a, b \in Int : a * b \in Int /\ a + b \in Int
    OBVIOUS
  <2> QED BY <2>1, <2>2, <2>3
<1>4. n * q = (p + r) * d
  <2>1. n * q = (x.num * q) * y.den + (y.num * q) * x.den
    BY <1>1
  <2>2. (p + r) * d = (p * x.den) * y.den + (r * y.den) * x.den
    BY <1>1
  <2> QED BY <1>1, <2>1, <2>2
<1> HIDE DEF n, d
<1>5. Lowest(Plus(x, y)) /\ Is(Plus(x, y), n, d)
  BY <1>2, <1>3, ReducedIs
<1>6. p + r \in Int
  OBVIOUS
<1> QED BY <1>3, <1>4, <1>5, <1>6, Rewritten

\* differences,
LEMMA SubtractIs ==
    ASSUME NEW x, NEW y, Lowest(x), Lowest(y), NEW p \in Int, NEW r \in Int, NEW q \in Int \ {0},
           Is(x, p, q), Is(y, r, q)
    PROVE  Lowest(Subtract(x, y)) /\ Is(Subtract(x, y), p - r, q)
<1>1. /\ x.num \in Int /\ x.den \in Int /\ x.den # 0 /\ x.num * q = p * x.den
      /\ y.num \in Int /\ y.den \in Int /\ y.den # 0 /\ y.num * q = r * y.den
  BY DEF Lowest, Is
<1> DEFINE n == x.num * y.den + (-y.num) * x.den
           d == x.den * y.den
<1>2. Subtract(x, y) = Reduced(Fraction(n, d))
  <2> DEFINE z == Fraction(-y.num, y.den)
  <2>1. z.num = -y.num /\ z.den = y.den
    BY DEF Fraction
  <2>2. ~(x = z /\ ~IsFinite(x))
    BY <1>1 DEF IsFinite
  <2> HIDE DEF z
  <2>3. Plus(x, z) = Reduced(Fraction(x.num * z.den + z.num * x.den, x.den * z.den))
    BY <2>2 DEF Plus
  <2>4. Subtract(x, y) = Plus(x, z)
    BY DEF Subtract, z
  <2> QED BY <2>1, <2>3, <2>4
<1>3. n \in Int /\ d \in Int /\ d # 0
  <2>3. (-y.num) \in Int
    BY <1>1
  <2>1. x.num \in Int /\ x.den \in Int /\ x.den # 0 /\ y.num \in Int /\ y.den \in Int /\ y.den # 0
    BY <1>1
  <2>2. \A a, b \in Int : (a # 0 /\ b # 0) => a * b # 0
    OBVIOUS
  <2>4. \A a, b \in Int : a * b \in Int /\ a + b \in Int
    OBVIOUS
  <2> QED BY <2>1, <2>2, <2>3, <2>4
<1>4. n * q = (p - r) * d
  <2>1. n * q = (x.num * q) * y.den - (y.num * q) * x.den
    BY <1>1
  <2>2. (p - r) * d = (p * x.den) * y.den - (r * y.den) * x.den
    BY <1>1
  <2> QED BY <1>1, <2>1, <2>2
<1> HIDE DEF n, d
<1>5. Lowest(Subtract(x, y)) /\ Is(Subtract(x, y), n, d)
  BY <1>2, <1>3, ReducedIs
<1>6. p - r \in Int
  OBVIOUS
<1> QED BY <1>3, <1>4, <1>5, <1>6, Rewritten

\* products,
LEMMA TimesIs ==
    ASSUME NEW x, NEW y, Lowest(x), Lowest(y), NEW p \in Int, NEW q \in Int \ {0},
           NEW r \in Int, NEW s \in Int \ {0}, Is(x, p, q), Is(y, r, s)
    PROVE  Lowest(Times(x, y)) /\ Is(Times(x, y), p * r, q * s)
<1>1. /\ x.num \in Int /\ x.den \in Int /\ x.den # 0 /\ x.num * q = p * x.den
      /\ y.num \in Int /\ y.den \in Int /\ y.den # 0 /\ y.num * s = r * y.den
  BY DEF Lowest, Is
<1> DEFINE n == x.num * y.num
           d == x.den * y.den
<1>2. Times(x, y) = Reduced(Fraction(n, d))
  BY DEF Times
<1>3. n \in Int /\ d \in Int /\ d # 0
  <2>1. x.num \in Int /\ x.den \in Int /\ x.den # 0 /\ y.num \in Int /\ y.den \in Int /\ y.den # 0
    BY <1>1
  <2>2. \A a, b \in Int : (a # 0 /\ b # 0) => a * b # 0
    OBVIOUS
  <2>4. \A a, b \in Int : a * b \in Int
    OBVIOUS
  <2> QED BY <2>1, <2>2, <2>4
<1>4. n * (q * s) = (p * r) * d
  <2>1. n * (q * s) = (x.num * q) * (y.num * s)
    BY <1>1
  <2>2. (p * r) * d = (p * x.den) * (r * y.den)
    BY <1>1
  <2> QED BY <1>1, <2>1, <2>2
<1> HIDE DEF n, d
<1>5. Lowest(Times(x, y)) /\ Is(Times(x, y), n, d)
  BY <1>2, <1>3, ReducedIs
<1>6. p * r \in Int /\ q * s \in Int
  OBVIOUS
<1> QED BY <1>3, <1>4, <1>5, <1>6, Rewritten

\* and quotients by a count.
LEMMA OverIs ==
    ASSUME NEW x, Lowest(x), NEW p \in Int, NEW q \in Int \ {0}, Is(x, p, q), NEW m \in Nat \ {0}
    PROVE  Lowest(Over(x, m)) /\ Is(Over(x, m), p, q * m)
<1>1. x.num \in Int /\ x.den \in Int /\ x.den # 0 /\ x.num * q = p * x.den
  BY DEF Lowest, Is
<1> DEFINE d == x.den * m
<1>2. Over(x, m) = Reduced(Fraction(x.num, d))
  BY DEF Over
<1>3. d \in Int /\ d # 0
  BY <1>1
<1>4. x.num * (q * m) = p * d
  <2>1. x.num * (q * m) = (x.num * q) * m
    BY <1>1
  <2>2. p * d = (p * x.den) * m
    BY <1>1
  <2> QED BY <1>1, <2>1, <2>2
<1> HIDE DEF d
<1>5. Lowest(Over(x, m)) /\ Is(Over(x, m), x.num, d)
  BY <1>1, <1>2, <1>3, ReducedIs
<1>6. q * m \in Int
  OBVIOUS
<1> QED BY <1>1, <1>3, <1>4, <1>5, <1>6, Rewritten

-----------------------------------------------------------------------------
(* Sums.  Samples written with one denominator add up as their numerators  *)
(* do, and the moments are those of the numerators.                        *)

\* The sums SumOf goes through, and those of integers.
Running(values) ==
    LET upTo[n \in Nat] == IF n = 0 THEN Whole(0) ELSE Plus(upTo[n - 1], values[n])
    IN  upTo
Sums(a) ==
    LET upTo[n \in Nat] == IF n = 0 THEN 0 ELSE upTo[n - 1] + a[n]
    IN  upTo

\* The sum is the last of the running sums.
LEMMA SumIsRunning ==
    ASSUME NEW values
    PROVE  SumOf(values) = Running(values)[Len(values)]
BY DEF SumOf, Running

\* What the recursion says of each running sum of fractions,
LEMMA RunningSteps ==
    ASSUME NEW values
    PROVE  /\ Running(values)[0] = Whole(0)
           /\ \A n \in Nat : Running(values)[n + 1] = Plus(Running(values)[n], values[n + 1])
<1> DEFINE upTo == Running(values)
<1>1. NatInductiveDefHypothesis(upTo, Whole(0), LAMBDA v, n : Plus(v, values[n]))
  BY DEF NatInductiveDefHypothesis, Running
<1> HIDE DEF upTo
<1>2. NatInductiveDefConclusion(upTo, Whole(0), LAMBDA v, n : Plus(v, values[n]))
  BY <1>1, NatInductiveDef, Zenon
<1>3. upTo = [n \in Nat |-> IF n = 0 THEN Whole(0) ELSE Plus(upTo[n - 1], values[n])]
  BY <1>2 DEF NatInductiveDefConclusion
<1>4. \A n \in Nat : upTo[n] = IF n = 0 THEN Whole(0) ELSE Plus(upTo[n - 1], values[n])
  BY <1>3
<1>5. ASSUME NEW n \in Nat PROVE upTo[n + 1] = Plus(upTo[n], values[n + 1])
  <2>1. n + 1 \in Nat /\ n + 1 # 0 /\ (n + 1) - 1 = n
    OBVIOUS
  <2> QED BY <1>4, <2>1
<1>6. upTo[0] = Whole(0)
  BY <1>4
<1> QED BY <1>5, <1>6 DEF upTo

\* and of integers.
LEMMA SumsSteps ==
    ASSUME NEW a
    PROVE  /\ Sums(a)[0] = 0
           /\ \A n \in Nat : Sums(a)[n + 1] = Sums(a)[n] + a[n + 1]
<1> DEFINE upTo == Sums(a)
<1>1. NatInductiveDefHypothesis(upTo, 0, LAMBDA v, n : v + a[n])
  BY DEF NatInductiveDefHypothesis, Sums
<1> HIDE DEF upTo
<1>2. NatInductiveDefConclusion(upTo, 0, LAMBDA v, n : v + a[n])
  BY <1>1, NatInductiveDef, Zenon
<1>3. upTo = [n \in Nat |-> IF n = 0 THEN 0 ELSE upTo[n - 1] + a[n]]
  BY <1>2 DEF NatInductiveDefConclusion
<1>4. \A n \in Nat : upTo[n] = IF n = 0 THEN 0 ELSE upTo[n - 1] + a[n]
  BY <1>3
<1>5. ASSUME NEW n \in Nat PROVE upTo[n + 1] = upTo[n] + a[n + 1]
  <2>1. n + 1 \in Nat /\ n + 1 # 0 /\ (n + 1) - 1 = n
    OBVIOUS
  <2> QED BY <1>4, <2>1
<1>6. upTo[0] = 0
  BY <1>4
<1> QED BY <1>5, <1>6 DEF upTo

\* The first n members of s are written with the numerators a and one
\* denominator.
Written(s, n, a, q) ==
    /\ n \in Nat /\ q \in Nat \ {0}
    /\ \A i \in 1..n : Lowest(s[i]) /\ a[i] \in Int /\ Is(s[i], a[i], q)

\* Sums of integers are integers,
LEMMA SumsAreIntegers ==
    ASSUME NEW a, NEW n \in Nat, \A i \in 1..n : a[i] \in Int
    PROVE  \A k \in 0..n : Sums(a)[k] \in Int
<1> DEFINE wrong == {k \in Nat : k <= n /\ Sums(a)[k] \notin Int}
<1>1. \A k \in wrong : \E l \in wrong : l < k
  <2> SUFFICES ASSUME NEW k \in Nat, k <= n, Sums(a)[k] \notin Int PROVE \E l \in wrong : l < k
    OBVIOUS
  <2>1. k # 0
    BY SumsSteps
  <2>2. k - 1 \in Nat /\ (k - 1) + 1 = k /\ k \in 1..n
    BY <2>1
  <2>3. Sums(a)[k] = Sums(a)[k - 1] + a[k]
    BY <2>2, SumsSteps
  <2>4. Sums(a)[k - 1] \notin Int
    BY <2>2, <2>3
  <2> QED BY <2>2, <2>4
<1> HIDE DEF wrong
<1>2. wrong = {}
  BY <1>1, NoDescent DEF wrong
<1> QED BY <1>2 DEF wrong

\* and the numerators of the sums of fractions with one denominator.
LEMMA SumWritten ==
    ASSUME NEW s, NEW n, NEW a, NEW q, Written(s, n, a, q)
    PROVE  \A k \in 0..n : Lowest(Running(s)[k]) /\ Is(Running(s)[k], Sums(a)[k], q)
<1>1. n \in Nat /\ q \in Int \ {0} /\ \A i \in 1..n : Lowest(s[i]) /\ a[i] \in Int /\ Is(s[i], a[i], q)
  BY DEF Written
<1>2. \A k \in 0..n : Sums(a)[k] \in Int
  BY <1>1, SumsAreIntegers
<1> DEFINE Good(k) == Lowest(Running(s)[k]) /\ Is(Running(s)[k], Sums(a)[k], q)
           wrong   == {k \in Nat : k <= n /\ ~Good(k)}
<1>3. ASSUME NEW k \in wrong PROVE \E l \in wrong : l < k
  <2>1. k \in Nat /\ k <= n /\ ~Good(k)
    OBVIOUS
  <2>2. k # 0
    <3>1. Running(s)[0] = Whole(0) /\ Sums(a)[0] = 0
      BY RunningSteps, SumsSteps
    <3>2. Lowest(Whole(0)) /\ Is(Whole(0), 0, q)
      <4>1. Lowest(Whole(0)) /\ Is(Whole(0), 0, 1)
        BY WholeIs
      <4>2. 0 * q = 0 * 1 /\ q \in Int /\ 0 \in Int /\ 1 \in Int \ {0}
        BY <1>1
      <4> QED BY <4>1, <4>2, Rewritten
    <3>3. Good(0)
      BY <3>1, <3>2
    <3> QED BY <2>1, <3>3
  <2>3. k - 1 \in Nat /\ (k - 1) + 1 = k /\ k \in 1..n /\ k - 1 \in 0..n
    BY <1>1, <2>1, <2>2
  <2>4. Running(s)[k] = Plus(Running(s)[k - 1], s[k]) /\ Sums(a)[k] = Sums(a)[k - 1] + a[k]
    BY <2>3, RunningSteps, SumsSteps
  <2>5. ~Good(k - 1)
    <3> SUFFICES ASSUME Good(k - 1) PROVE FALSE
      OBVIOUS
    <3>1. /\ Lowest(Running(s)[k - 1]) /\ Lowest(s[k])
          /\ Sums(a)[k - 1] \in Int /\ a[k] \in Int
          /\ Is(Running(s)[k - 1], Sums(a)[k - 1], q) /\ Is(s[k], a[k], q)
      BY <1>1, <1>2, <2>3
    <3>2. Good(k)
      BY <1>1, <2>4, <3>1, PlusIs
    <3> QED BY <2>1, <3>2
  <2> QED BY <2>1, <2>3, <2>5
<1> HIDE DEF wrong
<1>4. wrong = {}
  BY <1>3, NoDescent DEF wrong
<1> QED BY <1>4 DEF wrong

\* The sum of the squared deviations from a mean t / n of numerators a: what
\* the sum of the squares exceeds it by.
Deviations(a, n, t) == [i \in 1..n |-> (n * a[i] - t) * (n * a[i] - t)]
\* The squares of the numerators.
Squares(a) == [i \in Nat |-> a[i] * a[i]]

\* The squared deviations add up to what the other two sums say.
LEMMA DeviationsAddUp ==
    ASSUME NEW n \in Nat, NEW a, \A i \in 1..n : a[i] \in Int, NEW t \in Int
    PROVE  \A k \in 0..n : /\ Sums(a)[k] \in Int /\ Sums(Squares(a))[k] \in Int
                           /\ Sums(Deviations(a, n, t))[k]
                                 = n * n * Sums(Squares(a))[k] - 2 * n * t * Sums(a)[k] + k * t * t
<1> DEFINE sq  == Squares(a)
           dev == Deviations(a, n, t)
           Good(k) == Sums(dev)[k] = n * n * Sums(sq)[k] - 2 * n * t * Sums(a)[k] + k * t * t
           wrong == {k \in Nat : k <= n /\ ~Good(k)}
<1>1. \A i \in 1..n : /\ sq[i] = a[i] * a[i] /\ sq[i] \in Int
                      /\ dev[i] = (n * a[i] - t) * (n * a[i] - t)
  BY DEF Squares, Deviations
<1> HIDE DEF sq, dev
<1>2. \A k \in 0..n : Sums(a)[k] \in Int
  BY SumsAreIntegers
<1>3. \A k \in 0..n : Sums(sq)[k] \in Int
  BY <1>1, SumsAreIntegers
<1>4. ASSUME NEW k \in wrong PROVE \E l \in wrong : l < k
  <2>1. k \in Nat /\ k <= n /\ ~Good(k)
    OBVIOUS
  <2>2. k # 0
    <3>1. Sums(a)[0] = 0 /\ Sums(sq)[0] = 0 /\ Sums(dev)[0] = 0
      BY SumsSteps
    <3>2. n * n * 0 - 2 * n * t * 0 + 0 * t * t = 0
      OBVIOUS
    <3> QED BY <2>1, <3>1, <3>2
  <2>3. k - 1 \in Nat /\ (k - 1) + 1 = k /\ k \in 1..n /\ k - 1 \in 0..n
    BY <2>1, <2>2
  <2>4. /\ Sums(a)[k] = Sums(a)[k - 1] + a[k]
        /\ Sums(sq)[k] = Sums(sq)[k - 1] + sq[k]
        /\ Sums(dev)[k] = Sums(dev)[k - 1] + dev[k]
    BY <2>3, SumsSteps
  <2>5. ~Good(k - 1)
    <3> SUFFICES ASSUME Good(k - 1) PROVE FALSE
      OBVIOUS
    <3> DEFINE A == Sums(a)[k - 1]
               B == Sums(sq)[k - 1]
               x == a[k]
    <3>1. A \in Int /\ B \in Int /\ x \in Int
      BY <1>2, <1>3, <2>3
    <3>2. Sums(dev)[k - 1] = n * n * B - 2 * n * t * A + (k - 1) * t * t
      OBVIOUS
    <3>3. Sums(dev)[k] = (n * n * B - 2 * n * t * A + (k - 1) * t * t) + (n * x - t) * (n * x - t)
      BY <1>1, <2>3, <2>4, <3>2
    <3>4. Sums(sq)[k] = B + x * x /\ Sums(a)[k] = A + x
      BY <1>1, <2>3, <2>4
    <3> HIDE DEF A, B, x
    <3>5. (n * n * B - 2 * n * t * A + (k - 1) * t * t) + (n * x - t) * (n * x - t)
             = n * n * (B + x * x) - 2 * n * t * (A + x) + k * t * t
      BY <2>1, <3>1
    <3>6. Good(k)
      BY <3>3, <3>4, <3>5
    <3> QED BY <2>1, <3>6
  <2> QED BY <2>1, <2>3, <2>5
<1> HIDE DEF wrong
<1>5. wrong = {}
  BY <1>4, NoDescent DEF wrong
<1>6. \A k \in 0..n : Good(k)
  BY <1>5 DEF wrong
<1> QED BY <1>2, <1>3, <1>6 DEF sq, dev

-----------------------------------------------------------------------------
(* The moments.                                                            *)

\* Any fractions can be written with one denominator.
LEMMA CommonDenominator ==
    ASSUME NEW s, NEW n \in Nat, \A i \in 1..n : Lowest(s[i])
    PROVE  \E a, q : Written(s, n, a, q)
<1> DEFINE wrong == {k \in Nat : k <= n /\ ~ \E a, q : Written(s, k, a, q)}
<1>1. ASSUME NEW k \in wrong PROVE \E l \in wrong : l < k
  <2>1. k \in Nat /\ k <= n /\ ~ \E a, q : Written(s, k, a, q)
    OBVIOUS
  <2>2. k # 0
    <3>1. Written(s, 0, <<>>, 1)
      BY DEF Written
    <3> QED BY <2>1, <3>1
  <2>3. k - 1 \in Nat /\ (k - 1) + 1 = k /\ k \in 1..n /\ k - 1 <= n
    BY <2>1, <2>2
  <2>4. ASSUME NEW a, NEW q, Written(s, k - 1, a, q) PROVE FALSE
    <3> DEFINE m == s[k].num
               d == s[k].den
               b == [i \in 1..k |-> IF i < k THEN a[i] * d ELSE m * q]
    <3>1. Lowest(s[k]) /\ m \in Int /\ d \in Nat \ {0}
      BY <2>3 DEF Lowest
    <3>2. q \in Nat \ {0} /\ \A i \in 1..(k - 1) : Lowest(s[i]) /\ a[i] \in Int /\ Is(s[i], a[i], q)
      BY <2>4 DEF Written
    <3>3. Is(s[k], m, d)
      BY DEF Is
    <3>4. \A i \in 1..k : b[i] = IF i < k THEN a[i] * d ELSE m * q
      OBVIOUS
    <3> HIDE DEF m, d, b
    <3>5. q * d \in Nat \ {0}
      <4>1. \A x, y \in Nat \ {0} : x * y \in Nat \ {0}
        OBVIOUS
      <4> QED BY <3>1, <3>2, <4>1
    <3>6. ASSUME NEW i \in 1..k PROVE Lowest(s[i]) /\ b[i] \in Int /\ Is(s[i], b[i], q * d)
      <4>1. CASE i < k
        <5>1. i \in 1..(k - 1)
          BY <2>1, <4>1
        <5>2. Lowest(s[i]) /\ a[i] \in Int /\ q \in Int \ {0} /\ Is(s[i], a[i], q) /\ b[i] = a[i] * d
          BY <3>2, <3>4, <4>1, <5>1
        <5>3. a[i] * d \in Int /\ q * d \in Int /\ a[i] * (q * d) = (a[i] * d) * q
          BY <3>1, <5>2
        <5> QED BY <5>2, <5>3, Rewritten
      <4>2. CASE ~(i < k)
        <5>1. i = k /\ b[i] = m * q
          BY <2>1, <3>4, <4>2
        <5>2. m * q \in Int /\ q * d \in Int /\ m * (q * d) = (m * q) * d /\ d \in Int \ {0}
          BY <3>1, <3>2
        <5> QED BY <3>1, <3>3, <5>1, <5>2, Rewritten
      <4> QED BY <4>1, <4>2
    <3>7. Written(s, k, b, q * d)
      BY <2>1, <3>5, <3>6 DEF Written
    <3> QED BY <2>1, <3>7
  <2>5. k - 1 \in wrong
    BY <2>3, <2>4
  <2> QED BY <2>1, <2>5
<1> HIDE DEF wrong
<1>2. wrong = {}
  BY <1>1, NoDescent DEF wrong
<1> QED BY <1>2 DEF wrong

\* Products of numbers.
LEMMA Products ==
    /\ \A x, y \in Int : x * y \in Int /\ x + y \in Int /\ x - y \in Int
    /\ \A x, y \in Nat \ {0} : x * y \in Nat \ {0}
    /\ \A x, y \in Int \ {0} : x * y \in Int \ {0}
OBVIOUS

\* The mean, and the sum of the squared deviations from it.
LEMMA MeanWritten ==
    ASSUME NEW s, NEW n \in Nat \ {0}, n = Len(s), NEW a, NEW q, Written(s, n, a, q)
    PROVE  /\ Lowest(MeanOf(s)) /\ Is(MeanOf(s), Sums(a)[n], q * n)
           /\ Sums(a)[n] \in Int
<1>1. q \in Int \ {0} /\ \A i \in 1..n : a[i] \in Int
  BY DEF Written
<1>2. Lowest(Running(s)[n]) /\ Is(Running(s)[n], Sums(a)[n], q) /\ Sums(a)[n] \in Int
  <2>1. n \in 0..n /\ n \in Nat
    OBVIOUS
  <2>2. \A k \in 0..n : Sums(a)[k] \in Int
    BY <1>1, <2>1, SumsAreIntegers
  <2>3. \A k \in 0..n : Lowest(Running(s)[k]) /\ Is(Running(s)[k], Sums(a)[k], q)
    BY SumWritten
  <2> QED BY <2>1, <2>2, <2>3
<1>3. MeanOf(s) = Over(Running(s)[n], n)
  BY SumIsRunning DEF MeanOf
<1> QED BY <1>1, <1>2, <1>3, OverIs

\* The sum of the squared deviations, of samples with one denominator.
LEMMA SquaresWritten ==
    ASSUME NEW s, NEW n \in Nat \ {0}, n = Len(s), DOMAIN s = 1..n,
           NEW a, NEW q, Written(s, n, a, q)
    PROVE  LET t == Sums(a)[n]
               u == Sums(Squares(a))[n]
           IN  /\ t \in Int /\ u \in Int
               /\ Lowest(SquaresOf(s)) /\ Is(SquaresOf(s), n * u - t * t, q * q * n)
<1> DEFINE t == Sums(a)[n]
           u == Sums(Squares(a))[n]
           mean == MeanOf(s)
           dev == [i \in 1..n |-> Times(Subtract(s[i], mean), Subtract(s[i], mean))]
           b == Deviations(a, n, t)
           r == q * n
<1>1. /\ q \in Nat \ {0} /\ r \in Nat \ {0} /\ r * r \in Nat \ {0}
      /\ \A i \in 1..n : a[i] \in Int /\ Lowest(s[i]) /\ Is(s[i], a[i], q)
  <2>1. q \in Nat \ {0} /\ \A i \in 1..n : a[i] \in Int /\ Lowest(s[i]) /\ Is(s[i], a[i], q)
    BY DEF Written
  <2> QED BY <2>1, Products
<1>2. t \in Int /\ u \in Int /\ Sums(b)[n] = n * n * u - 2 * n * t * t + n * t * t
  <2>2. n \in 0..n /\ n \in Nat
    OBVIOUS
  <2>3. \A i \in 1..n : a[i] \in Int
    BY <1>1
  <2>5. \A k \in 0..n : Sums(a)[k] \in Int
    BY <2>2, <2>3, SumsAreIntegers
  <2>1. t \in Int
    BY <2>2, <2>5
  <2>6. n \in Nat
    OBVIOUS
  <2> HIDE DEF t
  <2>4. \A k \in 0..n : /\ Sums(a)[k] \in Int /\ Sums(Squares(a))[k] \in Int
                        /\ Sums(Deviations(a, n, t))[k]
                              = n * n * Sums(Squares(a))[k] - 2 * n * t * Sums(a)[k] + k * t * t
    BY <2>1, <2>6, <2>3, DeviationsAddUp, Zenon
  <2> QED BY <2>1, <2>2, <2>4 DEF t
<1>3. Lowest(mean) /\ Is(mean, t, r)
  BY MeanWritten
<1>4. SquaresOf(s) = SumOf(dev)
  BY DEF SquaresOf
<1>5. Len(dev) = n /\ \A i \in 1..n : dev[i] = Times(Subtract(s[i], mean), Subtract(s[i], mean))
  OBVIOUS
<1>6. \A i \in 1..n : b[i] = (n * a[i] - t) * (n * a[i] - t)
  BY DEF Deviations
<1> HIDE DEF t, u, mean, dev, b
<1>7. ASSUME NEW i \in 1..n PROVE Lowest(dev[i]) /\ b[i] \in Int /\ Is(dev[i], b[i], r * r)
  <2> DEFINE v == n * a[i]
  <2>1. v \in Int /\ v - t \in Int /\ r \in Int \ {0}
    BY <1>1, <1>2
  <2>2. Lowest(s[i]) /\ Is(s[i], v, r)
    <3>1. Lowest(s[i]) /\ a[i] \in Int /\ Is(s[i], a[i], q) /\ q \in Int \ {0}
      BY <1>1
    <3>2. a[i] * r = v * q
      <4>1. a[i] \in Int /\ q \in Int /\ n \in Int
        BY <3>1
      <4>2. a[i] * (q * n) = (n * a[i]) * q
        BY <4>1
      <4> QED BY <4>2
    <3> HIDE DEF r, v
    <3> QED BY <2>1, <3>1, <3>2, Rewritten
  <2> HIDE DEF v, r
  <2>3. Lowest(Subtract(s[i], mean)) /\ Is(Subtract(s[i], mean), v - t, r)
    BY <1>2, <1>3, <2>1, <2>2, SubtractIs
  <2>4. Lowest(dev[i]) /\ Is(dev[i], (v - t) * (v - t), r * r)
    BY <1>5, <2>1, <2>3, TimesIs
  <2>5. (v - t) * (v - t) \in Int
    BY <2>1
  <2> QED BY <1>6, <2>4, <2>5 DEF v
<1> HIDE DEF r
<1>8. Written(dev, n, b, r * r)
  BY <1>1, <1>7 DEF Written
<1>9. Lowest(Running(dev)[n]) /\ Is(Running(dev)[n], Sums(b)[n], r * r)
  BY <1>8, SumWritten
<1>10. SquaresOf(s) = Running(dev)[n]
  BY <1>4, <1>5, SumIsRunning
<1>11. Is(SquaresOf(s), n * u - t * t, q * q * n)
  <2> DEFINE p == n * n * u - 2 * n * t * t + n * t * t
             z == n * u - t * t
             w == q * q * n
  <2>1. p \in Int /\ z \in Int /\ w \in Int
    BY <1>1, <1>2
  <2>2. p * w = z * (r * r)
    <3>1. p = n * z
      BY <1>2
    <3>2. r * r = n * w
      BY <1>1 DEF r
    <3> HIDE DEF p, z, w
    <3>3. (n * z) * w = z * (n * w)
      BY <2>1
    <3> QED BY <3>1, <3>2, <3>3
  <2>3. Is(SquaresOf(s), p, r * r) /\ Lowest(SquaresOf(s)) /\ r * r \in Int \ {0}
    BY <1>1, <1>2, <1>9, <1>10
  <2> HIDE DEF p, z, w
  <2>4. Is(SquaresOf(s), z, w)
    BY <2>1, <2>2, <2>3, Rewritten
  <2> QED BY <2>4 DEF z, w
<1> QED BY <1>2, <1>9, <1>10, <1>11 DEF t, u

-----------------------------------------------------------------------------
\* Fractions as they come out of Reduced.
Fractions == [num : Int, den : Nat]

\* The identity behind Welford's method, for numerators with sum t and sum of
\* squares u, and one more, b.
LEMMA WelfordIdentity ==
    ASSUME NEW n \in Int, NEW t \in Int, NEW u \in Int, NEW b \in Int
    PROVE  ((n + 1) * (u + b * b) - (t + b) * (t + b)) * n
              = (n * u - t * t) * (n + 1) + (b * n - t) * (b * n - t)
OBVIOUS

\* One more sample moves the moments as addSample moves them.
LEMMA WelfordStep ==
    ASSUME NEW s \in Seq(Fractions), s # <<>>, \A i \in 1..Len(s) : Lowest(s[i]),
           NEW x \in Fractions, Lowest(x),
           NEW mean, mean = Plus(MeanOf(s), Over(Subtract(x, MeanOf(s)), Len(s) + 1))
    PROVE  /\ mean = MeanOf(Append(s, x))
           /\ Plus(SquaresOf(s), Times(Subtract(x, MeanOf(s)), Subtract(x, mean)))
                 = SquaresOf(Append(s, x))
<1> DEFINE l == Append(s, x)
           n == Len(s)
           m == n + 1
<1>1. n \in Nat \ {0} /\ m \in Nat \ {0} /\ DOMAIN s = 1..n
  OBVIOUS
<1>2. /\ Len(l) = m /\ DOMAIN l = 1..m /\ l[m] = x
      /\ \A i \in 1..n : l[i] = s[i]
  OBVIOUS
<1> HIDE DEF l
<1>3. \A i \in 1..m : Lowest(l[i])
  BY <1>1, <1>2
<1>4. PICK a, q : Written(l, m, a, q)
  BY <1>1, <1>3, CommonDenominator
<1> DEFINE t == Sums(a)[n]
           u == Sums(Squares(a))[n]
           b == a[m]
<1>5. /\ q \in Nat \ {0} /\ q \in Int \ {0}
      /\ \A i \in 1..m : a[i] \in Int /\ Lowest(l[i]) /\ Is(l[i], a[i], q)
  BY <1>4 DEF Written
<1>6. Written(s, n, a, q)
  BY <1>1, <1>2, <1>5 DEF Written
<1>7. b \in Int /\ Is(x, b, q)
  BY <1>1, <1>2, <1>5
<1>8. /\ t \in Int /\ u \in Int
      /\ Lowest(MeanOf(s)) /\ Is(MeanOf(s), t, q * n)
      /\ Lowest(SquaresOf(s)) /\ Is(SquaresOf(s), n * u - t * t, q * q * n)
  <2> HIDE DEF n, m
  <2>1. Lowest(MeanOf(s)) /\ Is(MeanOf(s), t, q * n) /\ t \in Int
    BY <1>1, <1>6, MeanWritten DEF n
  <2>2. u \in Int /\ Lowest(SquaresOf(s)) /\ Is(SquaresOf(s), n * u - t * t, q * q * n)
    BY <1>1, <1>6, SquaresWritten DEF n
  <2> QED BY <2>1, <2>2
<1>9. Sums(a)[m] = t + b /\ Sums(Squares(a))[m] = u + b * b
  <2>1. Sums(a)[m] = t + a[m] /\ Sums(Squares(a))[m] = u + Squares(a)[m]
    BY <1>1, SumsSteps
  <2>2. Squares(a)[m] = b * b
    BY <1>1 DEF Squares
  <2> QED BY <2>1, <2>2
<1> HIDE DEF t, u, b
<1>10. /\ Lowest(MeanOf(l)) /\ Is(MeanOf(l), t + b, q * m)
       /\ Lowest(SquaresOf(l))
       /\ Is(SquaresOf(l), m * (u + b * b) - (t + b) * (t + b), q * q * m)
  <2> HIDE DEF n, m
  <2>1. Lowest(MeanOf(l)) /\ Is(MeanOf(l), t + b, q * m)
    BY <1>1, <1>2, <1>4, <1>9, MeanWritten
  <2>2. Lowest(SquaresOf(l)) /\ Is(SquaresOf(l), m * (u + b * b) - (t + b) * (t + b), q * q * m)
    BY <1>1, <1>2, <1>4, <1>9, SquaresWritten
  <2> QED BY <2>1, <2>2
<1>11. n \in Int \ {0} /\ m \in Int \ {0} /\ q * n \in Int \ {0} /\ q * m \in Int \ {0}
       /\ q * q * n \in Int \ {0} /\ q * q * m \in Int \ {0} /\ (q * n) * m \in Int \ {0}
       /\ (q * q * n) * m \in Int \ {0}
  <2>1. n \in Int \ {0} /\ m \in Int \ {0} /\ q \in Int \ {0}
    BY <1>1, <1>5
  <2> HIDE DEF n, m
  <2> QED BY <2>1, Products
<1>12. m = n + 1
  OBVIOUS
<1> HIDE DEF n, m
<1> DEFINE delta == Subtract(x, MeanOf(s))
           e == b * n - t
<1>13. e \in Int
  BY <1>7, <1>8, <1>11
<1>14. Lowest(delta) /\ Is(delta, e, q * n)
  <2>1. b * n \in Int /\ b * (q * n) = (b * n) * q
    BY <1>5, <1>7, <1>11
  <2>2. Is(x, b * n, q * n)
    BY <1>5, <1>7, <1>11, <2>1, Rewritten
  <2> HIDE DEF e
  <2>3. Lowest(delta) /\ Is(delta, b * n - t, q * n)
    BY <1>8, <1>11, <2>1, <2>2, SubtractIs
  <2> QED BY <2>3 DEF e
<1> HIDE DEF delta, e
<1>15. Lowest(mean) /\ Is(mean, t + b, q * m)
  <2>1. Lowest(Over(delta, m)) /\ Is(Over(delta, m), e, (q * n) * m)
    BY <1>1, <1>11, <1>13, <1>14, OverIs
  <2>2. Is(MeanOf(s), t * m, (q * n) * m)
    <3>1. t * m \in Int /\ t * ((q * n) * m) = (t * m) * (q * n)
      BY <1>5, <1>8, <1>11
    <3> QED BY <1>8, <1>11, <3>1, Rewritten
  <2>3. mean = Plus(MeanOf(s), Over(delta, m))
    BY DEF delta, m, n
  <2>4. t * m \in Int
    BY <1>8, <1>11
  <2>5. Lowest(mean) /\ Is(mean, t * m + e, (q * n) * m)
    BY <1>8, <1>11, <1>13, <2>1, <2>2, <2>3, <2>4, PlusIs
  <2>6. t * m + e \in Int /\ t + b \in Int
    BY <1>7, <1>8, <1>13, <2>4
  <2>7. (t * m + e) * (q * m) = (t + b) * ((q * n) * m)
    <3>1. t * m + e = (t + b) * n
      BY <1>7, <1>8, <1>11, <1>12 DEF e
    <3>2. ((t + b) * n) * (q * m) = (t + b) * ((q * n) * m)
      BY <1>5, <1>7, <1>8, <1>11
    <3> QED BY <3>1, <3>2
  <2> QED BY <1>11, <2>5, <2>6, <2>7, Rewritten
<1>16. mean = MeanOf(l)
  <2>1. t + b \in Int
    BY <1>7, <1>8
  <2> QED BY <1>10, <1>11, <1>15, <2>1, SameFraction
<1> DEFINE after == Subtract(x, mean)
           sum == Plus(SquaresOf(s), Times(delta, after))
           z == n * u - t * t
           w == m * (u + b * b) - (t + b) * (t + b)
           d == (q * q * n) * m
<1>17. z \in Int /\ w \in Int /\ e * e \in Int /\ z * m \in Int /\ d \in Int \ {0}
  BY <1>7, <1>8, <1>11, <1>13
<1>18. Lowest(after) /\ Is(after, e, q * m)
  <2>1. b * m \in Int /\ b * (q * m) = (b * m) * q
    BY <1>5, <1>7, <1>11
  <2>2. Is(x, b * m, q * m)
    BY <1>5, <1>7, <1>11, <2>1, Rewritten
  <2>3. t + b \in Int
    BY <1>7, <1>8
  <2>4. Lowest(after) /\ Is(after, b * m - (t + b), q * m)
    BY <1>11, <1>15, <2>1, <2>2, <2>3, SubtractIs
  <2>5. b * m - (t + b) = e
    BY <1>7, <1>8, <1>11, <1>12 DEF e
  <2> QED BY <2>4, <2>5
<1> HIDE DEF after
<1>19. Lowest(Times(delta, after)) /\ Is(Times(delta, after), e * e, d)
  <2>1. Lowest(Times(delta, after)) /\ Is(Times(delta, after), e * e, (q * n) * (q * m))
    BY <1>11, <1>13, <1>14, <1>18, TimesIs
  <2>2. (q * n) * (q * m) = d
    BY <1>5, <1>11
  <2> QED BY <2>1, <2>2
<1>20. Is(SquaresOf(s), z * m, d)
  <2>1. z * d = (z * m) * (q * q * n)
    BY <1>5, <1>11, <1>17
  <2> HIDE DEF z, d
  <2>2. Lowest(SquaresOf(s)) /\ Is(SquaresOf(s), z, q * q * n)
    BY <1>8 DEF z
  <2> QED BY <1>11, <1>17, <2>1, <2>2, Rewritten
<1>21. Lowest(sum) /\ Is(sum, z * m + e * e, d)
  <2> HIDE DEF z, d, e
  <2> QED BY <1>8, <1>17, <1>19, <1>20, PlusIs
<1>22. z * m + e * e = w * n
  BY <1>7, <1>8, <1>11, <1>12, WelfordIdentity DEF e
<1>23. Is(sum, w, q * q * m)
  <2>1. z * m + e * e \in Int
    BY <1>17
  <2>2. (w * n) * (q * q * m) = w * d
    BY <1>5, <1>11, <1>17
  <2> HIDE DEF z, w, d, sum
  <2>3. (z * m + e * e) * (q * q * m) = w * d
    BY <1>22, <2>2
  <2> QED BY <1>11, <1>17, <1>21, <2>1, <2>3, Rewritten
<1>24. sum = SquaresOf(l)
  <2>1. Lowest(SquaresOf(l)) /\ Is(SquaresOf(l), w, q * q * m)
    BY <1>10
  <2> HIDE DEF sum, w
  <2> QED BY <1>11, <1>17, <1>21, <1>23, <2>1, SameFraction
<1> QED BY <1>16, <1>24 DEF sum, after, delta, l

-----------------------------------------------------------------------------
(* The special values, and the order.                                      *)

\* What has no denominator is one of three values,
LEMMA ReducedSpecial ==
    ASSUME NEW n \in Int
    PROVE  Reduced(Fraction(n, 0)) =
              IF n > 0 THEN Inf ELSE IF n < 0 THEN Fraction(-1, 0) ELSE NaN
<1>1. Fraction(n, 0).num = n /\ Fraction(n, 0).den = 0
  BY DEF Fraction
<1> QED BY <1>1 DEF Reduced, Inf, NaN

\* the last of which everything becomes that it touches.
LEMMA NaNSpoils ==
    ASSUME NEW x \in [num : Int, den : Int]
    PROVE  /\ Plus(x, NaN) = NaN /\ Plus(NaN, x) = NaN
           /\ Subtract(x, NaN) = NaN
           /\ Times(x, NaN) = NaN
<1>1. x.num \in Int /\ x.den \in Int
  OBVIOUS
<1>2. NaN.num = 0 /\ NaN.den = 0 /\ ~IsFinite(NaN) /\ Fraction(-NaN.num, NaN.den) = NaN
  BY DEF NaN, Fraction, IsFinite
<1>3. Reduced(Fraction(0, 0)) = NaN
  BY ReducedSpecial
<1>4. x.num * 0 + 0 * x.den = 0 /\ x.den * 0 = 0 /\ 0 * x.den + x.num * 0 = 0 /\ 0 * x.den = 0
      /\ x.num * 0 = 0
  BY <1>1
<1>5. Plus(x, NaN) = NaN
  BY <1>2, <1>3, <1>4 DEF Plus
<1>6. Plus(NaN, x) = NaN
  BY <1>2, <1>3, <1>4 DEF Plus
<1>7. Times(x, NaN) = NaN
  BY <1>2, <1>3, <1>4 DEF Times
<1>8. Subtract(x, NaN) = NaN
  BY <1>2, <1>5 DEF Subtract
<1> QED BY <1>5, <1>6, <1>7, <1>8

\* A fraction in lowest terms is finite, the special values are not.
LEMMA LowestFinite ==
    /\ \A x : Lowest(x) => IsFinite(x) /\ x \in Fractions /\ x \in [num : Int, den : Int]
    /\ Inf \in Fractions /\ NaN \in Fractions /\ ~IsFinite(Inf) /\ ~IsFinite(NaN)
    /\ Inf \in [num : Int, den : Int] /\ NaN \in [num : Int, den : Int]
    /\ Inf.num = 1 /\ Inf.den = 0
BY DEF Lowest, IsFinite, Fractions, Inf, NaN, Fraction

\* The first infinite sample makes the mean infinite and the deviation no
\* number;
LEMMA InfiniteFirst ==
    ASSUME NEW mean, Lowest(mean), NEW m2, Lowest(m2), NEW n \in Nat \ {0}
    PROVE  /\ Plus(mean, Over(Subtract(Inf, mean), n)) = Inf
           /\ Plus(m2, Times(Subtract(Inf, mean), Subtract(Inf, Inf))) = NaN
<1>1. /\ mean.num \in Int /\ mean.den \in Nat \ {0}
      /\ Inf.num = 1 /\ Inf.den = 0 /\ ~IsFinite(Inf) /\ IsFinite(mean)
      /\ Inf \in [num : Int, den : Int] /\ m2 \in [num : Int, den : Int]
  BY LowestFinite DEF Lowest
<1>2. Subtract(Inf, mean) = Inf
  <2> DEFINE y == Fraction(-mean.num, mean.den)
  <2>1. y.num = -mean.num /\ y.den = mean.den
    BY DEF Fraction
  <2>5. y # Inf
    BY <1>1, <2>1
  <2>2. Inf.num * y.den + y.num * Inf.den = mean.den /\ Inf.den * y.den = 0
    BY <1>1, <2>1
  <2> HIDE DEF y
  <2>3. Plus(Inf, y) = Reduced(Fraction(mean.den, 0))
    BY <2>2, <2>5 DEF Plus
  <2>4. Reduced(Fraction(mean.den, 0)) = Inf
    BY <1>1, ReducedSpecial
  <2> QED BY <2>3, <2>4 DEF Subtract, y
<1>3. Over(Inf, n) = Inf
  <2>1. 0 * n = 0 /\ Reduced(Fraction(1, 0)) = Inf
    BY ReducedSpecial
  <2> QED BY <1>1, <2>1 DEF Over
<1>4. Plus(mean, Inf) = Inf
  <2>1. mean.num * 0 + 1 * mean.den = mean.den /\ mean.den * 0 = 0 /\ mean # Inf
    BY <1>1
  <2>2. Reduced(Fraction(mean.den, 0)) = Inf
    BY <1>1, ReducedSpecial
  <2> QED BY <1>1, <2>1, <2>2 DEF Plus
<1>5. Subtract(Inf, Inf) = NaN
  <2> DEFINE y == Fraction(-1, 0)
  <2>1. y.num = -1 /\ y.den = 0 /\ y # Inf
    BY <1>1 DEF Fraction
  <2>2. 1 * 0 + (-1) * 0 = 0 /\ 0 * 0 = 0
    OBVIOUS
  <2> HIDE DEF y
  <2>3. Plus(Inf, y) = Reduced(Fraction(0, 0))
    BY <1>1, <2>1, <2>2 DEF Plus
  <2>4. Reduced(Fraction(0, 0)) = NaN
    BY ReducedSpecial
  <2> QED BY <1>1, <2>3, <2>4 DEF Subtract, y
<1>6. Times(Inf, NaN) = NaN /\ Plus(m2, NaN) = NaN
  BY <1>1, NaNSpoils
<1> QED BY <1>2, <1>3, <1>4, <1>5, <1>6

\* the next sample, whatever it is, makes both no number,
LEMMA InfiniteMean ==
    ASSUME NEW x, Lowest(x) \/ x = Inf, NEW n \in Nat \ {0}
    PROVE  /\ Plus(Inf, Over(Subtract(x, Inf), n)) = NaN
           /\ Plus(NaN, Times(Subtract(x, Inf), Subtract(x, NaN))) = NaN
<1> DEFINE y == Fraction(-1, 0)
<1>1. /\ x \in [num : Int, den : Int] /\ Inf \in [num : Int, den : Int]
      /\ NaN \in [num : Int, den : Int] /\ y \in [num : Int, den : Int]
      /\ Inf.num = 1 /\ Inf.den = 0 /\ y.num = -1 /\ y.den = 0 /\ y # Inf
  BY LowestFinite DEF Fraction
<1>2. Fraction(-Inf.num, Inf.den) = y
  BY <1>1
<1> HIDE DEF y
<1>3. Subtract(x, Inf) = y \/ Subtract(x, Inf) = NaN
  <2>1. x # y
    <3>1. Lowest(x) => x.den # 0
      BY DEF Lowest
    <3> QED BY <1>1, <3>1
  <2>2. Subtract(x, Inf) = Reduced(Fraction(x.num * 0 + (-1) * x.den, x.den * 0))
    BY <1>1, <1>2, <2>1 DEF Subtract, Plus
  <2>3. x.num \in Int /\ x.den \in Int /\ x.den >= 0
    BY <1>1 DEF Lowest
  <2>4. x.num * 0 + (-1) * x.den = -x.den /\ x.den * 0 = 0 /\ -x.den \in Int /\ ~(-x.den > 0)
    BY <2>3
  <2>5. Subtract(x, Inf) = Reduced(Fraction(-x.den, 0))
    BY <2>2, <2>4
  <2>6. Reduced(Fraction(-x.den, 0)) = y \/ Reduced(Fraction(-x.den, 0)) = NaN
    BY <2>4, ReducedSpecial DEF y
  <2> QED BY <2>5, <2>6
<1>4. Over(y, n) = y /\ Over(NaN, n) = NaN
  <2>1. 0 * n = 0 /\ NaN.num = 0 /\ NaN.den = 0
    BY DEF NaN, Fraction
  <2>2. Reduced(Fraction(-1, 0)) = y /\ Reduced(Fraction(0, 0)) = NaN
    BY ReducedSpecial DEF y
  <2> QED BY <1>1, <2>1, <2>2 DEF Over
<1>5. Plus(Inf, y) = NaN /\ Plus(Inf, NaN) = NaN
  <2>1. 1 * 0 + (-1) * 0 = 0 /\ 0 * 0 = 0
    OBVIOUS
  <2>2. Plus(Inf, y) = Reduced(Fraction(0, 0))
    BY <1>1, <2>1 DEF Plus
  <2>3. Reduced(Fraction(0, 0)) = NaN
    BY ReducedSpecial
  <2> QED BY <1>1, <2>2, <2>3, NaNSpoils
<1>6. Plus(Inf, Over(Subtract(x, Inf), n)) = NaN
  BY <1>3, <1>4, <1>5
<1>7. Subtract(x, NaN) = NaN /\ Plus(NaN, NaN) = NaN
  BY <1>1, NaNSpoils
<1>8. Times(Subtract(x, Inf), NaN) = NaN
  BY <1>1, <1>3, NaNSpoils
<1> QED BY <1>6, <1>7, <1>8

\* which they remain.
LEMMA NoNumberMean ==
    ASSUME NEW x, Lowest(x) \/ x = Inf, NEW n \in Nat \ {0}
    PROVE  /\ Plus(NaN, Over(Subtract(x, NaN), n)) = NaN
           /\ Plus(NaN, Times(Subtract(x, NaN), Subtract(x, NaN))) = NaN
<1>1. x \in [num : Int, den : Int] /\ NaN \in [num : Int, den : Int]
  BY LowestFinite
<1>2. Subtract(x, NaN) = NaN /\ Plus(NaN, NaN) = NaN /\ Times(NaN, NaN) = NaN
  BY <1>1, NaNSpoils
<1>3. Over(NaN, n) = NaN
  <2>1. 0 * n = 0 /\ NaN.num = 0 /\ NaN.den = 0
    BY DEF NaN, Fraction
  <2>2. Reduced(Fraction(0, 0)) = NaN
    BY ReducedSpecial
  <2> QED BY <2>1, <2>2 DEF Over
<1> QED BY <1>2, <1>3

\* The order is transitive.
LEMMA Chain ==
    ASSUME NEW x, NEW y, NEW z, Lowest(x), Lowest(y), Lowest(z), ~Less(x, y), ~Less(y, z)
    PROVE  ~Less(x, z)
<1>1. /\ x.num \in Int /\ x.den \in Nat \ {0} /\ y.num \in Int /\ y.den \in Nat \ {0}
      /\ z.num \in Int /\ z.den \in Nat \ {0}
  BY DEF Lowest
<1> DEFINE a == x.num
           b == x.den
           c == y.num
           d == y.den
           e == z.num
           f == z.den
<1>2. a * d >= c * b /\ c * f >= e * d
  <2>1. a * d \in Int /\ c * b \in Int /\ c * f \in Int /\ e * d \in Int
    BY <1>1
  <2> QED BY <2>1 DEF Less
<1>3. Less(x, z) <=> a * f < e * b
  BY DEF Less
<1> HIDE DEF a, b, c, d, e, f
<1>4. /\ a \in Int /\ b \in Nat \ {0} /\ c \in Int /\ d \in Nat \ {0} /\ e \in Int /\ f \in Nat \ {0}
  BY <1>1 DEF a, b, c, d, e, f
<1> SUFFICES ASSUME a * f < e * b PROVE FALSE
  BY <1>3
<1>5. \A u, v \in Int : \A w \in Nat \ {0} : u >= v => u * w >= v * w
  OBVIOUS
<1>6. \A u, v \in Int : \A w \in Nat \ {0} : u < v => u * w < v * w
  OBVIOUS
<1>7. a * d \in Int /\ c * b \in Int /\ c * f \in Int /\ e * d \in Int /\ a * f \in Int /\ e * b \in Int
  BY <1>4
<1>8. (a * d) * f >= (c * b) * f
  BY <1>2, <1>4, <1>5, <1>7
<1>9. (c * f) * b >= (e * d) * b
  BY <1>2, <1>4, <1>5, <1>7
<1>10. (a * f) * d < (e * b) * d
  BY <1>4, <1>6, <1>7
<1>11. (a * d) * f = (a * f) * d /\ (c * b) * f = (c * f) * b /\ (e * d) * b = (e * b) * d
  BY <1>4
<1>12. (a * f) * d \in Int /\ (c * f) * b \in Int /\ (e * b) * d \in Int
  BY <1>4
<1> QED BY <1>8, <1>9, <1>10, <1>11, <1>12

\* No value is less than one that is less than it, or than itself;
LEMMA LessNotLess ==
    ASSUME NEW x, NEW y, Lowest(x), Lowest(y)
    PROVE  (Less(x, y) => ~Less(y, x)) /\ ~Less(x, x)
<1>1. x.num * y.den \in Int /\ y.num * x.den \in Int /\ x.num * x.den \in Int
  BY DEF Lowest
<1> QED BY <1>1 DEF Less

\* infinity is above all others.
LEMMA InfinityAbove ==
    ASSUME NEW x, Lowest(x)
    PROVE  ~Less(Inf, x) /\ Less(x, Inf) /\ ~Less(Inf, Inf)
<1>1. x.num \in Int /\ x.den \in Nat \ {0} /\ Inf.num = 1 /\ Inf.den = 0
  BY LowestFinite DEF Lowest
<1>2. x.num * 0 = 0 /\ 1 * x.den = x.den /\ 1 * 0 = 0
  BY <1>1
<1> QED BY <1>1, <1>2 DEF Less

\* Of two that differ one is less.
LEMMA EqualIfNeither ==
    ASSUME NEW x, NEW y, Lowest(x), Lowest(y), ~Less(x, y), ~Less(y, x)
    PROVE  x = y
<1>1. /\ x.num \in Int /\ x.den \in Nat \ {0} /\ y.num \in Int /\ y.den \in Nat \ {0}
  BY DEF Lowest
<1>2. x.num * y.den = y.num * x.den
  <2>1. x.num * y.den \in Int /\ y.num * x.den \in Int
    BY <1>1
  <2> QED BY <2>1 DEF Less
<1>3. Is(x, y.num, y.den)
  BY <1>2 DEF Is
<1>4. Is(y, y.num, y.den) /\ y.den \in Int \ {0}
  BY <1>1 DEF Is
<1> QED BY <1>1, <1>3, <1>4, SameFraction

-----------------------------------------------------------------------------
(* The invariant of the statistics of one name.                            *)

\* No sample is greater than the largest double, unless it is infinite.
IsSample(x) ==
    \/ x = Inf
    \/ Lowest(x) /\ ~Less(Whole(DBL_MAX), x) /\ ~Less(x, Whole(-DBL_MAX))

\* All samples are finite, or all but the last.
AllFinite(ss) == \A i \in 1..Len(ss) : IsFinite(ss[i])
FiniteBefore(ss) == \A i \in 1..(Len(ss) - 1) : IsFinite(ss[i])

\* Minimum and maximum bound the samples and are among them.  The maximum of
\* finite samples is finite.
ExtremesInv(min, max, ss) ==
    /\ Lowest(min)
    /\ Lowest(max) \/ max = Inf
    /\ ss = <<>> => min = Whole(DBL_MAX) /\ max = Whole(-DBL_MAX)
    /\ \A i \in 1..Len(ss) : ~Less(ss[i], min) /\ ~Less(max, ss[i])
    /\ (AllFinite(ss) /\ ss # <<>>)
          => (\E i \in 1..Len(ss) : min = ss[i]) /\ (\E i \in 1..Len(ss) : max = ss[i])

\* The moments are those of the samples, or lost.
MomentsInv(mean, m2, ss) ==
    /\ ss = <<>> => mean = Whole(0) /\ m2 = Whole(0)
    /\ (AllFinite(ss) /\ ss # <<>>) => mean = MeanOf(ss) /\ m2 = SquaresOf(ss)
    /\ ~AllFinite(ss) => /\ mean = IF FiniteBefore(ss) THEN Inf ELSE NaN
                         /\ m2 = NaN

\* The statistics st are in order, given the samples ss.
StatInv(st, ss) ==
    /\ ss \in Seq(Fractions)
    /\ \A i \in 1..Len(ss) : IsSample(ss[i])
    /\ st.count = Len(ss)
    /\ ExtremesInv(st.min, st.max, ss)
    /\ MomentsInv(st.mean, st.m2, ss)

\* A list with one more sample.
LEMMA OneMore ==
    ASSUME NEW ss \in Seq(Fractions), NEW x \in Fractions, NEW l, l = Append(ss, x)
    PROVE  /\ l \in Seq(Fractions) /\ l # <<>> /\ Len(ss) \in Nat
           /\ Len(l) = Len(ss) + 1 /\ DOMAIN l = 1..Len(l)
           /\ l[Len(l)] = x /\ \A i \in 1..Len(ss) : l[i] = ss[i]
           /\ 1..Len(l) = (1..Len(ss)) \cup {Len(l)} /\ Len(l) \in 1..Len(l)
<1>1. /\ l \in Seq(Fractions) /\ Len(ss) \in Nat
      /\ Len(l) = Len(ss) + 1 /\ DOMAIN l = 1..Len(l)
      /\ l[Len(l)] = x /\ \A i \in 1..Len(ss) : l[i] = ss[i]
  BY AppendProperties
<1>2. l # <<>>
  BY <1>1
<1>3. 1..Len(l) = (1..Len(ss)) \cup {Len(l)} /\ Len(l) \in 1..Len(l)
  <2> DEFINE n == Len(ss)
  <2>1. n \in Nat
    BY <1>1
  <2> HIDE DEF n
  <2>2. 1..(n + 1) = (1..n) \cup {n + 1} /\ (n + 1) \in 1..(n + 1)
    BY <2>1
  <2> QED BY <1>1, <2>2 DEF n
<1> QED BY <1>1, <1>2, <1>3

\* It is finite if the list was and the sample is.
LEMMA OneMoreFinite ==
    ASSUME NEW ss \in Seq(Fractions), NEW x \in Fractions, NEW l, l = Append(ss, x)
    PROVE  /\ AllFinite(l) <=> AllFinite(ss) /\ IsFinite(x)
           /\ FiniteBefore(l) <=> AllFinite(ss)
<1>1. /\ Len(ss) \in Nat /\ Len(l) = Len(ss) + 1
      /\ l[Len(l)] = x /\ \A i \in 1..Len(ss) : l[i] = ss[i]
      /\ 1..Len(l) = (1..Len(ss)) \cup {Len(l)} /\ Len(l) \in 1..Len(l)
  BY OneMore
<1>2. Len(l) - 1 = Len(ss)
  BY <1>1
<1> QED BY <1>1, <1>2, Zenon DEF AllFinite, FiniteBefore

\* The moments of finite samples are finite.
LEMMA MomentsFinite ==
    ASSUME NEW ss \in Seq(Fractions), ss # <<>>, \A i \in 1..Len(ss) : Lowest(ss[i])
    PROVE  Lowest(MeanOf(ss)) /\ Lowest(SquaresOf(ss))
<1>1. Len(ss) \in Nat \ {0} /\ DOMAIN ss = 1..Len(ss)
  OBVIOUS
<1>2. PICK a, q : Written(ss, Len(ss), a, q)
  BY <1>1, CommonDenominator
<1>3. Lowest(MeanOf(ss))
  BY <1>1, <1>2, MeanWritten
<1>4. Lowest(SquaresOf(ss))
  BY <1>1, <1>2, SquaresWritten
<1> QED BY <1>3, <1>4

\* The first sample.
LEMMA FirstStep ==
    ASSUME NEW x, Lowest(x), NEW l, Len(l) = 1, DOMAIN l = 1..1, l[1] = x
    PROVE  /\ Plus(Whole(0), Over(Subtract(x, Whole(0)), 1)) = x
           /\ Plus(Whole(0), Times(Subtract(x, Whole(0)), Subtract(x, x))) = Whole(0)
           /\ MeanOf(l) = x /\ SquaresOf(l) = Whole(0)
<1> DEFINE p == x.num
           q == x.den
           a == <<p>>
           zero == Whole(0)
<1>1. p \in Int /\ q \in Nat \ {0} /\ q \in Int \ {0} /\ Is(x, p, q)
  BY DEF Lowest, Is
<1>2. a[1] = p /\ Squares(a)[1] = p * p
  BY DEF Squares
<1> HIDE DEF p, q, a, zero
<1>3. Lowest(zero) /\ Is(zero, 0, q)
  <2>1. Lowest(zero) /\ Is(zero, 0, 1)
    BY WholeIs DEF zero
  <2>2. 0 * q = 0 * 1 /\ q \in Int /\ 0 \in Int /\ 1 \in Int \ {0}
    BY <1>1
  <2> QED BY <2>1, <2>2, Rewritten
<1>4. Written(l, 1, a, q)
  <2>1. \A i \in 1..1 : i = 1
    OBVIOUS
  <2> QED BY <1>1, <1>2, <2>1 DEF Written
<1>5. Sums(a)[1] = p /\ Sums(Squares(a))[1] = p * p
  <2>1. Sums(a)[0 + 1] = Sums(a)[0] + a[0 + 1] /\ Sums(a)[0] = 0
    BY SumsSteps
  <2>2. /\ Sums(Squares(a))[0 + 1] = Sums(Squares(a))[0] + Squares(a)[0 + 1]
        /\ Sums(Squares(a))[0] = 0
    BY SumsSteps
  <2>3. 0 + 1 = 1 /\ 0 + p = p /\ 0 + p * p = p * p
    BY <1>1
  <2> QED BY <1>2, <2>1, <2>2, <2>3
<1>6. 1 \in Nat \ {0} /\ q * 1 = q /\ q * q \in Int \ {0} /\ q * q * 1 = q * q
      /\ 1 * (p * p) - p * p = 0
  <2>1. q * q \in Int \ {0}
    BY <1>1, Products
  <2> QED BY <1>1, <2>1
<1>7. MeanOf(l) = x
  <2>1. Lowest(MeanOf(l)) /\ Is(MeanOf(l), Sums(a)[1], q * 1)
    BY <1>4, <1>6, MeanWritten
  <2>2. Is(MeanOf(l), p, q)
    BY <1>5, <1>6, <2>1
  <2> QED BY <1>1, <2>1, <2>2, SameFraction
<1>8. ASSUME NEW y, Lowest(y), Is(y, 0, q * q) PROVE y = zero
  <2>1. 0 * (q * q) = 0 * q /\ 0 \in Int
    <3>1. \A b \in Int : 0 * b = 0
      OBVIOUS
    <3>2. q * q \in Int /\ q \in Int
      BY <1>1, <1>6
    <3> HIDE DEF q
    <3> QED BY <3>1, <3>2
  <2>2. Is(zero, 0, q * q)
    BY <1>1, <1>3, <1>6, <2>1, Rewritten
  <2> QED BY <1>3, <1>6, <1>8, <2>1, <2>2, SameFraction
<1>9. SquaresOf(l) = zero
  <2>1. Lowest(SquaresOf(l)) /\ Is(SquaresOf(l), 1 * (p * p) - p * p, q * q * 1)
    BY <1>4, <1>5, <1>6, SquaresWritten
  <2> QED BY <1>6, <1>8, <2>1
<1>10. Lowest(Subtract(x, zero)) /\ Is(Subtract(x, zero), p, q)
  <2>1. 0 \in Int /\ p - 0 = p
    BY <1>1
  <2>2. Lowest(Subtract(x, zero)) /\ Is(Subtract(x, zero), p - 0, q)
    BY <1>1, <1>3, <2>1, SubtractIs
  <2> QED BY <2>1, <2>2
<1>11. Plus(zero, Over(Subtract(x, zero), 1)) = x
  <2> DEFINE d == Over(Subtract(x, zero), 1)
  <2>1. Lowest(d) /\ Is(d, p, q)
    BY <1>1, <1>6, <1>10, OverIs
  <2> HIDE DEF d
  <2>2. 0 \in Int /\ 0 + p = p
    BY <1>1
  <2>3. Lowest(Plus(zero, d)) /\ Is(Plus(zero, d), 0 + p, q)
    BY <1>1, <1>3, <2>1, <2>2, PlusIs
  <2>4. Plus(zero, d) = x
    BY <1>1, <2>2, <2>3, SameFraction
  <2> QED BY <2>4 DEF d
<1>12. Plus(zero, Times(Subtract(x, zero), Subtract(x, x))) = zero
  <2> DEFINE d == Subtract(x, zero)
             e == Subtract(x, x)
  <2>1. Lowest(e) /\ Is(e, 0, q)
    <3>1. Lowest(e) /\ Is(e, p - p, q)
      BY <1>1, SubtractIs
    <3>2. p - p = 0
      BY <1>1
    <3> QED BY <3>1, <3>2
  <2>2. Lowest(d) /\ Is(d, p, q)
    BY <1>10
  <2> HIDE DEF d, e
  <2>3. 0 \in Int /\ p * 0 = 0 /\ 0 + 0 = 0
    BY <1>1
  <2>4. Lowest(Times(d, e)) /\ Is(Times(d, e), p * 0, q * q)
    BY <1>1, <2>1, <2>2, <2>3, TimesIs
  <2>5. Times(d, e) = zero
    BY <1>8, <2>3, <2>4
  <2>6. Lowest(Plus(zero, zero)) /\ Is(Plus(zero, zero), 0 + 0, q)
    BY <1>1, <1>3, <2>3, PlusIs
  <2>7. Plus(zero, zero) = zero
    BY <1>1, <1>3, <2>3, <2>6, SameFraction
  <2> QED BY <2>5, <2>7 DEF d, e
<1> QED BY <1>7, <1>9, <1>11, <1>12 DEF zero

\* The moments after one more sample.
LEMMA MomentsKept ==
    ASSUME NEW ss \in Seq(Fractions), \A i \in 1..Len(ss) : IsSample(ss[i]),
           NEW x \in Fractions, IsSample(x), NEW l, l = Append(ss, x),
           NEW mean, NEW m2, MomentsInv(mean, m2, ss),
           NEW mean1, mean1 = Plus(mean, Over(Subtract(x, mean), Len(ss) + 1)),
           NEW m21, m21 = Plus(m2, Times(Subtract(x, mean), Subtract(x, mean1)))
    PROVE  MomentsInv(mean1, m21, l)
<1>1. /\ l # <<>> /\ Len(ss) \in Nat /\ Len(ss) + 1 \in Nat \ {0}
      /\ Len(l) = Len(ss) + 1 /\ DOMAIN l = 1..Len(l) /\ l[Len(l)] = x
  BY OneMore
<1>2. /\ AllFinite(l) <=> AllFinite(ss) /\ IsFinite(x)
      /\ FiniteBefore(l) <=> AllFinite(ss)
  BY OneMoreFinite
<1>3. AllFinite(ss) => \A i \in 1..Len(ss) : Lowest(ss[i])
  BY LowestFinite DEF IsSample, AllFinite
<1>4. IsFinite(x) <=> Lowest(x)
  BY LowestFinite DEF IsSample
<1>5. (ss = <<>> => AllFinite(ss)) /\ (ss = <<>> <=> Len(ss) = 0)
  BY DEF AllFinite
<1>6. CASE AllFinite(ss) /\ Lowest(x)
  <2>1. mean1 = MeanOf(l) /\ m21 = SquaresOf(l)
    <3>1. CASE ss = <<>>
      <4>1. mean = Whole(0) /\ m2 = Whole(0) /\ Len(ss) + 1 = 1 /\ Len(l) = 1
        BY <1>1, <1>5, <3>1 DEF MomentsInv
      <4>2. mean1 = x /\ MeanOf(l) = x /\ SquaresOf(l) = Whole(0)
        BY <1>1, <1>6, <4>1, FirstStep
      <4>3. m21 = Whole(0)
        BY <1>1, <1>6, <4>1, <4>2, FirstStep
      <4> QED BY <4>2, <4>3
    <3>2. CASE ss # <<>>
      <4>1. mean = MeanOf(ss) /\ m2 = SquaresOf(ss)
        BY <1>6, <3>2 DEF MomentsInv
      <4>2. \A i \in 1..Len(ss) : Lowest(ss[i])
        BY <1>3, <1>6
      <4>3. mean1 = Plus(MeanOf(ss), Over(Subtract(x, MeanOf(ss)), Len(ss) + 1))
        BY <4>1
      <4>4. /\ mean1 = MeanOf(Append(ss, x))
            /\ Plus(SquaresOf(ss), Times(Subtract(x, MeanOf(ss)), Subtract(x, mean1)))
                  = SquaresOf(Append(ss, x))
        BY <1>6, <3>2, <4>2, <4>3, WelfordStep
      <4> QED BY <4>1, <4>4
    <3> QED BY <3>1, <3>2
  <2> QED BY <1>1, <1>2, <1>4, <1>6, <2>1 DEF MomentsInv
<1>7. CASE AllFinite(ss) /\ x = Inf
  <2>1. Lowest(mean) /\ Lowest(m2)
    <3>1. CASE ss = <<>>
      <4>1. mean = Whole(0) /\ m2 = Whole(0)
        BY <3>1 DEF MomentsInv
      <4> QED BY <4>1, WholeIs
    <3>2. CASE ss # <<>>
      <4>1. mean = MeanOf(ss) /\ m2 = SquaresOf(ss)
        BY <1>7, <3>2 DEF MomentsInv
      <4> QED BY <1>3, <1>7, <3>2, <4>1, MomentsFinite
    <3> QED BY <3>1, <3>2
  <2>2. mean1 = Inf
    BY <1>1, <1>7, <2>1, InfiniteFirst
  <2>3. m21 = NaN
    BY <1>1, <1>7, <2>1, <2>2, InfiniteFirst
  <2>4. ~AllFinite(l) /\ FiniteBefore(l)
    BY <1>2, <1>7, LowestFinite
  <2> QED BY <1>1, <2>2, <2>3, <2>4 DEF MomentsInv
<1>8. CASE ~AllFinite(ss)
  <2>1. m2 = NaN /\ (mean = Inf \/ mean = NaN)
    BY <1>8 DEF MomentsInv
  <2>2. ~AllFinite(l) /\ ~FiniteBefore(l)
    BY <1>2, <1>8
  <2>3. Lowest(x) \/ x = Inf
    BY DEF IsSample
  <2>4. mean1 = NaN
    BY <1>1, <2>1, <2>3, InfiniteMean, NoNumberMean
  <2>5. m21 = NaN
    BY <1>1, <2>1, <2>3, <2>4, InfiniteMean, NoNumberMean
  <2> QED BY <1>1, <2>2, <2>4, <2>5 DEF MomentsInv
<1> QED BY <1>6, <1>7, <1>8 DEF IsSample

-----------------------------------------------------------------------------
\* Minimum and maximum after one more sample.
LEMMA MinimumKept ==
    ASSUME NEW ss \in Seq(Fractions), \A i \in 1..Len(ss) : IsSample(ss[i]),
           NEW x, IsSample(x), NEW min, NEW max, ExtremesInv(min, max, ss),
           NEW min1, min1 = IF Less(x, min) THEN x ELSE min
    PROVE  /\ Lowest(min1)
           /\ \A i \in 1..Len(ss) : ~Less(ss[i], min1)
           /\ ~Less(x, min1)
           /\ (ss = <<>> /\ IsFinite(x)) => min1 = x
<1>1. Lowest(min) /\ \A i \in 1..Len(ss) : ~Less(ss[i], min)
  BY DEF ExtremesInv
<1>2. CASE Less(x, min)
  <2>1. Lowest(x) /\ min1 = x
    BY <1>1, <1>2, InfinityAbove DEF IsSample
  <2>2. ~Less(x, x) /\ ~Less(min, x)
    BY <1>1, <1>2, <2>1, LessNotLess
  <2>3. ASSUME NEW i \in 1..Len(ss) PROVE ~Less(ss[i], x)
    <3>1. CASE ss[i] = Inf
      BY <2>1, <3>1, InfinityAbove
    <3>2. CASE Lowest(ss[i])
      <4>1. ~Less(ss[i], min)
        BY <1>1
      <4> QED BY <1>1, <2>1, <2>2, <3>2, <4>1, Chain
    <3> QED BY <3>1, <3>2 DEF IsSample
  <2> QED BY <2>1, <2>2, <2>3
<1>3. CASE ~Less(x, min)
  <2>1. min1 = min
    BY <1>3
  <2>2. ASSUME ss = <<>>, IsFinite(x) PROVE min1 = x
    <3>1. min = Whole(DBL_MAX)
      BY <2>2 DEF ExtremesInv
    <3>2. Lowest(x) /\ ~Less(min, x)
      BY <2>2, <3>1, LowestFinite DEF IsSample
    <3> QED BY <1>1, <1>3, <2>1, <3>2, EqualIfNeither
  <2> QED BY <1>1, <1>3, <2>1, <2>2
<1> QED BY <1>2, <1>3

\* The same for the maximum,
LEMMA MaximumKept ==
    ASSUME NEW ss \in Seq(Fractions), \A i \in 1..Len(ss) : IsSample(ss[i]),
           NEW x, IsSample(x), NEW min, NEW max, ExtremesInv(min, max, ss),
           NEW max1, max1 = IF Less(max, x) THEN x ELSE max
    PROVE  /\ Lowest(max1) \/ max1 = Inf
           /\ \A i \in 1..Len(ss) : ~Less(max1, ss[i])
           /\ ~Less(max1, x)
           /\ (ss = <<>> /\ IsFinite(x)) => max1 = x
<1>1. (Lowest(max) \/ max = Inf) /\ \A i \in 1..Len(ss) : ~Less(max, ss[i])
  BY DEF ExtremesInv
<1>2. (Lowest(x) \/ x = Inf) /\ \A i \in 1..Len(ss) : Lowest(ss[i]) \/ ss[i] = Inf
  BY DEF IsSample
<1>3. CASE max1 = Inf
  <2>1. \A y : Lowest(y) \/ y = Inf => ~Less(Inf, y)
    BY InfinityAbove, WholeIs
  <2>2. ~(ss = <<>> /\ IsFinite(x))
    <3> SUFFICES ASSUME ss = <<>>, IsFinite(x) PROVE FALSE
      OBVIOUS
    <3>1. max = Whole(-DBL_MAX) /\ Lowest(max)
      BY StatsAssumption, WholeIs DEF ExtremesInv
    <3>2. x # Inf /\ max # Inf
      BY <3>1, LowestFinite
    <3> QED BY <1>3, <3>2
  <2> QED BY <1>2, <1>3, <2>1, <2>2
<1>4. CASE max1 # Inf /\ Less(max, x)
  <2>1. Lowest(x) /\ max1 = x
    BY <1>2, <1>4
  <2>2. Lowest(max)
    BY <1>1, <1>4, <2>1, InfinityAbove
  <2>3. ~Less(x, x) /\ ~Less(x, max)
    BY <1>4, <2>1, <2>2, LessNotLess
  <2>4. ASSUME NEW i \in 1..Len(ss) PROVE ~Less(x, ss[i])
    <3>1. ~Less(max, ss[i])
      BY <1>1
    <3>2. Lowest(ss[i])
      BY <1>2, <2>2, <3>1, InfinityAbove
    <3> QED BY <2>1, <2>2, <2>3, <3>1, <3>2, Chain
  <2> QED BY <2>1, <2>3, <2>4
<1>5. CASE max1 # Inf /\ ~Less(max, x)
  <2>1. max1 = max /\ Lowest(max)
    BY <1>1, <1>5
  <2>2. ASSUME ss = <<>>, IsFinite(x) PROVE max1 = x
    <3>1. max = Whole(-DBL_MAX)
      BY <2>2 DEF ExtremesInv
    <3>2. Lowest(x) /\ ~Less(x, max)
      BY <2>2, <3>1, LowestFinite DEF IsSample
    <3> QED BY <1>5, <2>1, <3>2, EqualIfNeither
  <2> QED BY <1>1, <1>5, <2>1, <2>2
<1> QED BY <1>3, <1>4, <1>5

\* and for both with the new sample in the list.
LEMMA ExtremesKept ==
    ASSUME NEW ss \in Seq(Fractions), \A i \in 1..Len(ss) : IsSample(ss[i]),
           NEW x \in Fractions, IsSample(x), NEW l, l = Append(ss, x),
           NEW min, NEW max, ExtremesInv(min, max, ss),
           NEW min1, min1 = IF Less(x, min) THEN x ELSE min,
           NEW max1, max1 = IF Less(max, x) THEN x ELSE max
    PROVE  ExtremesInv(min1, max1, l)
<1>1. /\ l # <<>> /\ l[Len(l)] = x /\ \A i \in 1..Len(ss) : l[i] = ss[i]
      /\ 1..Len(l) = (1..Len(ss)) \cup {Len(l)} /\ Len(l) \in 1..Len(l)
  BY OneMore
<1>2. /\ Lowest(min1)
      /\ \A i \in 1..Len(ss) : ~Less(ss[i], min1)
      /\ ~Less(x, min1)
      /\ (ss = <<>> /\ IsFinite(x)) => min1 = x
  BY MinimumKept
<1>3. /\ Lowest(max1) \/ max1 = Inf
      /\ \A i \in 1..Len(ss) : ~Less(max1, ss[i])
      /\ ~Less(max1, x)
      /\ (ss = <<>> /\ IsFinite(x)) => max1 = x
  BY MaximumKept
<1>4. ASSUME NEW i \in 1..Len(l) PROVE ~Less(l[i], min1) /\ ~Less(max1, l[i])
  <2>1. CASE i \in 1..Len(ss)
    BY <1>1, <1>2, <1>3, <2>1
  <2>2. CASE i = Len(l)
    BY <1>1, <1>2, <1>3, <2>2
  <2> QED BY <1>1, <2>1, <2>2
<1>5. ASSUME AllFinite(l)
      PROVE  (\E i \in 1..Len(l) : min1 = l[i]) /\ (\E i \in 1..Len(l) : max1 = l[i])
  <2>1. AllFinite(ss) /\ IsFinite(x)
    BY <1>5, OneMoreFinite
  <2>2. CASE ss = <<>>
    <3>1. min1 = x /\ max1 = x
      BY <1>2, <1>3, <2>1, <2>2
    <3> QED BY <1>1, <3>1
  <2>3. CASE ss # <<>>
    <3>1. (\E i \in 1..Len(ss) : min = ss[i]) /\ (\E i \in 1..Len(ss) : max = ss[i])
      BY <2>1, <2>3 DEF ExtremesInv
    <3>2. (\E i \in 1..Len(l) : min = l[i]) /\ (\E i \in 1..Len(l) : max = l[i])
      BY <1>1, <3>1
    <3> QED BY <1>1, <3>2
  <2> QED BY <2>2, <2>3
<1> QED BY <1>1, <1>2, <1>3, <1>4, <1>5 DEF ExtremesInv

-----------------------------------------------------------------------------
\* One more sample keeps the invariant,
LEMMA StatKept ==
    ASSUME NEW st, NEW ss, StatInv(st, ss), NEW x \in Fractions, IsSample(x)
    PROVE  StatInv(addSample(st, x), Append(ss, x))
<1> DEFINE l == Append(ss, x)
           st1 == addSample(st, x)
           delta == Subtract(x, st.mean)
           mean == Plus(st.mean, Over(delta, st.count + 1))
           m2 == Plus(st.m2, Times(delta, Subtract(x, mean)))
           min == IF Less(x, st.min) THEN x ELSE st.min
           max == IF Less(st.max, x) THEN x ELSE st.max
<1>1. /\ ss \in Seq(Fractions) /\ \A i \in 1..Len(ss) : IsSample(ss[i])
      /\ st.count = Len(ss) /\ ExtremesInv(st.min, st.max, ss) /\ MomentsInv(st.mean, st.m2, ss)
  BY DEF StatInv
<1>2. /\ l \in Seq(Fractions) /\ Len(l) = Len(ss) + 1
      /\ l[Len(l)] = x /\ \A i \in 1..Len(ss) : l[i] = ss[i]
      /\ 1..Len(l) = (1..Len(ss)) \cup {Len(l)}
  BY <1>1, OneMore
<1>3. st1 = [count |-> st.count + 1, min |-> min, max |-> max, mean |-> mean, m2 |-> m2]
  BY DEF addSample
<1> HIDE DEF l, st1, min, max
<1>4. ExtremesInv(min, max, l)
  BY <1>1, ExtremesKept DEF min, max, l
<1>5. MomentsInv(mean, m2, l)
  <2>1. mean = Plus(st.mean, Over(Subtract(x, st.mean), Len(ss) + 1))
    BY <1>1
  <2>2. m2 = Plus(st.m2, Times(Subtract(x, st.mean), Subtract(x, mean)))
    OBVIOUS
  <2> HIDE DEF mean, m2
  <2>3. l = Append(ss, x)
    BY DEF l
  <2> QED BY <1>1, <2>1, <2>2, <2>3, MomentsKept
<1> HIDE DEF mean, m2
<1>6. \A i \in 1..Len(l) : IsSample(l[i])
  BY <1>1, <1>2
<1>7. /\ st1.count = Len(l) /\ st1.min = min /\ st1.max = max /\ st1.mean = mean /\ st1.m2 = m2
  BY <1>1, <1>2, <1>3
<1>8. StatInv(st1, l)
  BY <1>2, <1>4, <1>5, <1>6, <1>7 DEF StatInv
<1> QED BY <1>8 DEF st1, l

\* without samples it holds of what the constructor makes,
LEMMA StatNew == StatInv(NewStats, <<>>)
<1>1. /\ NewStats.count = 0 /\ NewStats.min = Whole(DBL_MAX) /\ NewStats.max = Whole(-DBL_MAX)
      /\ NewStats.mean = Whole(0) /\ NewStats.m2 = Whole(0)
  BY DEF NewStats
<1> DEFINE none == <<>>
<1>2. none \in Seq(Fractions) /\ Len(none) = 0 /\ \A i \in 1..Len(none) : FALSE
  OBVIOUS
<1>3. Lowest(Whole(DBL_MAX)) /\ Lowest(Whole(-DBL_MAX))
  BY StatsAssumption, WholeIs
<1>4. AllFinite(none)
  BY <1>2 DEF AllFinite
<1>5. ExtremesInv(NewStats.min, NewStats.max, none)
  BY <1>1, <1>2, <1>3 DEF ExtremesInv
<1>6. MomentsInv(NewStats.mean, NewStats.m2, none)
  BY <1>1, <1>4 DEF MomentsInv
<1> QED BY <1>1, <1>2, <1>5, <1>6 DEF StatInv

\* it says what the statistics should be,
LEMMA StatMeans ==
    ASSUME NEW st, NEW ss, StatInv(st, ss)
    PROVE  AreStatisticsOf(st, ss)
<1> DEFINE values == {ss[i] : i \in DOMAIN ss}
           finite == \A x \in values : IsFinite(x)
<1>1. /\ ss \in Seq(Fractions) /\ \A i \in 1..Len(ss) : IsSample(ss[i])
      /\ st.count = Len(ss) /\ ExtremesInv(st.min, st.max, ss) /\ MomentsInv(st.mean, st.m2, ss)
  BY DEF StatInv
<1>2. DOMAIN ss = 1..Len(ss) /\ Len(ss) \in Nat
  BY <1>1
<1>3. (finite <=> AllFinite(ss)) /\ (values # {} <=> ss # <<>>)
  <2>1. finite <=> AllFinite(ss)
    BY <1>2, Zenon DEF AllFinite
  <2>2. ss = <<>> => DOMAIN ss = {}
    OBVIOUS
  <2>3. ss # <<>> => 1 \in DOMAIN ss
    BY <1>1
  <2> QED BY <2>1, <2>2, <2>3
<1>4. \A x \in values : ~Less(x, st.min) /\ ~Less(st.max, x)
  BY <1>1, <1>2 DEF ExtremesInv
<1>5. (finite /\ values # {}) => {st.min, st.max} \subseteq values
  <2> SUFFICES ASSUME finite, values # {} PROVE {st.min, st.max} \subseteq values
    OBVIOUS
  <2>1. (\E i \in 1..Len(ss) : st.min = ss[i]) /\ (\E i \in 1..Len(ss) : st.max = ss[i])
    BY <1>1, <1>3 DEF ExtremesInv
  <2> QED BY <1>2, <2>1
<1>6. (finite /\ values # {}) => st.mean = MeanOf(ss) /\ st.m2 = SquaresOf(ss)
  BY <1>1, <1>3 DEF MomentsInv
<1>7. (finite /\ Len(ss) > 2) => variance(st) = Over(SquaresOf(ss), Len(ss) - 1)
  <2> SUFFICES ASSUME finite, Len(ss) > 2 PROVE variance(st) = Over(SquaresOf(ss), Len(ss) - 1)
    OBVIOUS
  <2>1. values # {}
    <3>1. ss # <<>>
      BY <1>1
    <3> QED BY <1>3, <3>1
  <2>2. st.m2 = SquaresOf(ss)
    BY <1>6, <2>1
  <2> QED BY <1>1, <2>2 DEF variance
<1>8. ~finite => /\ st.mean = IF \A i \in 1..(Len(ss) - 1) : IsFinite(ss[i]) THEN Inf ELSE NaN
                 /\ st.m2 = NaN
  BY <1>1, <1>3 DEF MomentsInv, FiniteBefore
<1> HIDE DEF values, finite
<1> QED BY <1>1, <1>4, <1>5, <1>6, <1>7, <1>8 DEF AreStatisticsOf, values, finite

\* and the mean is finite if and only if all samples were.
LEMMA MeanLost ==
    ASSUME NEW st, NEW ss, StatInv(st, ss)
    PROVE  IsFinite(st.mean) <=> AllFinite(ss)
<1>1. /\ ss \in Seq(Fractions) /\ \A i \in 1..Len(ss) : IsSample(ss[i])
      /\ MomentsInv(st.mean, st.m2, ss)
  BY DEF StatInv
<1>2. CASE ~AllFinite(ss)
  BY <1>1, <1>2, LowestFinite DEF MomentsInv
<1>3. CASE AllFinite(ss) /\ ss = <<>>
  <2>1. st.mean = Whole(0) /\ Lowest(Whole(0))
    BY <1>1, <1>3, WholeIs DEF MomentsInv
  <2> QED BY <1>3, <2>1, LowestFinite
<1>4. CASE AllFinite(ss) /\ ss # <<>>
  <2>1. \A i \in 1..Len(ss) : Lowest(ss[i])
    BY <1>1, <1>4, LowestFinite DEF IsSample, AllFinite
  <2>2. Lowest(MeanOf(ss)) /\ st.mean = MeanOf(ss)
    BY <1>1, <1>4, <2>1, MomentsFinite DEF MomentsInv
  <2> QED BY <1>4, <2>2, LowestFinite
<1> QED BY <1>2, <1>3, <1>4

-----------------------------------------------------------------------------
(* The statistics of the bursts.                                           *)

\* A count of bytes, divided by a time other than zero, is a finite sample;
LEMMA QuotientSample ==
    ASSUME NEW n \in Nat, n <= DBL_MAX, NEW d \in Int \ {0}
    PROVE  LET x == Reduced(Fraction(n, d)) IN Lowest(x) /\ IsSample(x)
<1> DEFINE x == Reduced(Fraction(n, d))
           p == x.num
           q == x.den
<1>1. Lowest(x) /\ Is(x, n, d)
  BY ReducedIs
<1>2. p \in Int /\ q \in Nat \ {0} /\ p * d = n * q /\ DBL_MAX \in Nat
  BY <1>1, StatsAssumption DEF Lowest, Is
<1>3. /\ Whole(DBL_MAX).num = DBL_MAX /\ Whole(DBL_MAX).den = 1
      /\ Whole(-DBL_MAX).num = -DBL_MAX /\ Whole(-DBL_MAX).den = 1
  BY DEF Whole, Fraction
<1>4. /\ Less(Whole(DBL_MAX), x) <=> DBL_MAX * q < p * 1
      /\ Less(x, Whole(-DBL_MAX)) <=> p * 1 < (-DBL_MAX) * q
  BY <1>3 DEF Less
<1> HIDE DEF x, p, q
<1>5. n * q \in Nat /\ DBL_MAX * q \in Nat /\ n * q <= DBL_MAX * q /\ (-DBL_MAX) * q = -(DBL_MAX * q)
      /\ p * 1 = p
  BY <1>2
<1>6. ASSUME p > DBL_MAX * q PROVE FALSE
  <2>1. CASE d >= 1
    <3>1. p * d >= p
      BY <1>2, <1>5, <1>6, <2>1
    <3> QED BY <1>2, <1>5, <1>6, <3>1
  <2>2. CASE d <= -1
    <3>1. p * d <= -p
      BY <1>2, <1>5, <1>6, <2>2
    <3> QED BY <1>2, <1>5, <1>6, <3>1
  <2> QED BY <2>1, <2>2
<1>7. ASSUME p < -(DBL_MAX * q) PROVE FALSE
  <2>1. CASE d >= 1
    <3>1. p * d <= p
      BY <1>2, <1>5, <1>7, <2>1
    <3> QED BY <1>2, <1>5, <1>7, <3>1
  <2>2. CASE d <= -1
    <3>1. p * d >= -p
      BY <1>2, <1>5, <1>7, <2>2
    <3> QED BY <1>2, <1>5, <1>7, <3>1
  <2> QED BY <2>1, <2>2
<1>8. ~Less(Whole(DBL_MAX), x) /\ ~Less(x, Whole(-DBL_MAX))
  BY <1>2, <1>4, <1>5, <1>6, <1>7
<1> QED BY <1>1, <1>8 DEF IsSample, x

\* so is the count itself;
LEMMA WholeSample ==
    ASSUME NEW n \in Nat, n <= DBL_MAX
    PROVE  Lowest(Whole(n)) /\ IsSample(Whole(n))
<1>1. Lowest(Whole(n))
  BY WholeIs
<1>2. /\ Whole(n).num = n /\ Whole(n).den = 1 /\ DBL_MAX \in Nat
      /\ Whole(DBL_MAX).num = DBL_MAX /\ Whole(DBL_MAX).den = 1
      /\ Whole(-DBL_MAX).num = -DBL_MAX /\ Whole(-DBL_MAX).den = 1
  BY StatsAssumption DEF Whole, Fraction
<1>3. ~(DBL_MAX * 1 < n * 1) /\ ~(n * 1 < (-DBL_MAX) * 1)
  BY <1>2
<1> QED BY <1>1, <1>2, <1>3 DEF IsSample, Less

\* divided by no time it is infinite.
LEMMA InfiniteSample ==
    ASSUME NEW n \in Nat \ {0}
    PROVE  Reduced(Fraction(n, 0)) = Inf
BY ReducedSpecial

\* The bytes of some messages of a burst.
LEMMA BytesOfBurst ==
    ASSUME NEW n \in 0..BurstLen
    PROVE  /\ PacketSize \in Nat \ {0} /\ PacketSize <= DBL_MAX
           /\ n * PacketSize \in Nat /\ n * PacketSize <= DBL_MAX
           /\ n # 0 => n * PacketSize \in Nat \ {0}
<1>1. /\ PacketSize \in Nat \ {0} /\ BurstLen \in Nat \ {0} /\ DBL_MAX \in Nat
      /\ BurstLen * PacketSize <= DBL_MAX
  BY AnalysisAssumption, SamplesAreDoubles, BoundsPositive, StatsAssumption
<1>2. n * PacketSize <= BurstLen * PacketSize /\ PacketSize <= BurstLen * PacketSize
      /\ BurstLen * PacketSize \in Nat /\ n * PacketSize \in Nat
  BY <1>1
<1>3. n # 0 => n * PacketSize \in Nat \ {0}
  BY <1>1, Products
<1> QED BY <1>1, <1>2, <1>3

-----------------------------------------------------------------------------
\* The invariant of all statistics: that of each, and which samples are finite.
StatNames == StatNames1 \cup StatNames2

\* Only version 1 loses a mean, and not before its loop has ended.
StatisticsInv ==
    /\ DOMAIN statistics = StatNames /\ DOMAIN samples = StatNames
    /\ \A n \in StatNames : StatInv(statistics[n], samples[n])
    /\ \A n \in StatNames \ {"bottleneck_bandwidth"} : AllFinite(samples[n])
    /\ same_times \in BOOLEAN
    /\ AllFinite(samples["bottleneck_bandwidth"]) <=> ~same_times
    /\ analysis \in {"waiting", "loop"} => ~same_times

\* What a burst adds.
SampleOf(values, n) ==
    /\ values[n] \in Fractions /\ IsSample(values[n])
    /\ n # "bottleneck_bandwidth" => IsFinite(values[n])

\* It loses the mean of version 1.
Loses(values) ==
    "bottleneck_bandwidth" \in DOMAIN values /\ ~IsFinite(values["bottleneck_bandwidth"])

\* Its samples, added to some of the statistics, keep the invariant.
LEMMA AddKeeps ==
    ASSUME StatisticsInv, NEW values, DOMAIN values \subseteq StatNames,
           \A n \in DOMAIN values : SampleOf(values, n), Add(values),
           same_times' \in BOOLEAN, same_times' <=> (same_times \/ Loses(values)),
           analysis' \in {"waiting", "loop"} => ~same_times'
    PROVE  StatisticsInv'
<1>1. /\ DOMAIN statistics = StatNames /\ DOMAIN samples = StatNames
      /\ \A n \in StatNames : StatInv(statistics[n], samples[n])
      /\ \A n \in StatNames \ {"bottleneck_bandwidth"} : AllFinite(samples[n])
      /\ AllFinite(samples["bottleneck_bandwidth"]) <=> ~same_times
  BY DEF StatisticsInv
<1>2. /\ DOMAIN statistics' = StatNames /\ DOMAIN samples' = StatNames
      /\ \A n \in StatNames :
            /\ n \in DOMAIN values => /\ statistics'[n] = addSample(statistics[n], values[n])
                                      /\ samples'[n] = Append(samples[n], values[n])
            /\ n \notin DOMAIN values => /\ statistics'[n] = statistics[n]
                                         /\ samples'[n] = samples[n]
  BY <1>1 DEF Add
<1>3. ASSUME NEW n \in DOMAIN values
      PROVE  /\ StatInv(addSample(statistics[n], values[n]), Append(samples[n], values[n]))
             /\ AllFinite(Append(samples[n], values[n]))
                   <=> (AllFinite(samples[n]) /\ IsFinite(values[n]))
  <2>1. StatInv(statistics[n], samples[n]) /\ values[n] \in Fractions /\ IsSample(values[n])
    BY <1>1 DEF SampleOf
  <2>2. samples[n] \in Seq(Fractions)
    BY <2>1 DEF StatInv
  <2> QED BY <2>1, <2>2, StatKept, OneMoreFinite
<1>4. ASSUME NEW n \in StatNames
      PROVE  /\ StatInv(statistics'[n], samples'[n])
             /\ n # "bottleneck_bandwidth" => AllFinite(samples'[n])
  <2>1. CASE n \in DOMAIN values
    BY <1>1, <1>2, <1>3, <2>1 DEF SampleOf
  <2>2. CASE n \notin DOMAIN values
    BY <1>1, <1>2, <2>2
  <2> QED BY <2>1, <2>2
<1>5. AllFinite(samples'["bottleneck_bandwidth"]) <=> ~same_times'
  <2> DEFINE n == "bottleneck_bandwidth"
  <2>1. n \in StatNames
    BY DEF StatNames, StatNames1
  <2>2. CASE n \in DOMAIN values
    <3>1. AllFinite(samples'[n]) <=> (AllFinite(samples[n]) /\ IsFinite(values[n]))
      BY <1>2, <1>3, <2>1, <2>2
    <3> QED BY <1>1, <2>2, <3>1 DEF Loses
  <2>3. CASE n \notin DOMAIN values
    <3>1. AllFinite(samples'[n]) <=> AllFinite(samples[n])
      BY <1>2, <2>1, <2>3
    <3> QED BY <1>1, <2>3, <3>1 DEF Loses
  <2> QED BY <2>2, <2>3
<1> QED BY <1>2, <1>4, <1>5 DEF StatisticsInv

-----------------------------------------------------------------------------
\* The samples of version 2 are finite, whatever its times are,
LEMMA SamplesOf2 ==
    ASSUME NEW b, b.num_received \in Nat, b.num_received * PacketSize \in Nat,
           b.num_received * PacketSize <= DBL_MAX,
           b.time_overall \in Int, b.time_shortest \in Int
    PROVE  /\ DOMAIN Samples2(b) = StatNames2
           /\ \A n \in StatNames2 : SampleOf(Samples2(b), n)
<1>1. Samples2(b) = [peak        |-> peak(b.time_shortest),
                     bandwidth   |-> rate(b.num_received, b.time_overall),
                     buffer_size |-> Whole(b.num_received * PacketSize)]
  BY DEF Samples2
<1>2. /\ DOMAIN Samples2(b) = StatNames2
      /\ Samples2(b)["peak"] = peak(b.time_shortest)
      /\ Samples2(b)["bandwidth"] = rate(b.num_received, b.time_overall)
      /\ Samples2(b)["buffer_size"] = Whole(b.num_received * PacketSize)
  BY <1>1 DEF StatNames2
<1>3. ASSUME NEW x, Lowest(x), IsSample(x)
      PROVE  x \in Fractions /\ IsSample(x) /\ IsFinite(x)
  BY <1>3, LowestFinite
<1>4. PacketSize \in Nat \ {0} /\ PacketSize <= DBL_MAX /\ 0 \in Nat /\ 0 <= DBL_MAX
  <2>1. 0 \in 0..BurstLen
    BY BoundsPositive
  <2> QED BY <2>1, BytesOfBurst, StatsAssumption
<1>5. Lowest(peak(b.time_shortest)) /\ IsSample(peak(b.time_shortest))
  <2>1. CASE b.time_shortest = 0
    BY <1>4, <2>1, WholeSample DEF peak
  <2>2. CASE b.time_shortest # 0
    BY <1>4, <2>2, QuotientSample DEF peak
  <2> QED BY <2>1, <2>2
<1>6. Lowest(rate(b.num_received, b.time_overall)) /\ IsSample(rate(b.num_received, b.time_overall))
  <2>1. CASE b.time_overall = 0
    BY <1>4, <2>1, WholeSample DEF rate
  <2>2. CASE b.time_overall # 0
    BY <2>2, QuotientSample DEF rate
  <2> QED BY <2>1, <2>2
<1>7. Lowest(Whole(b.num_received * PacketSize)) /\ IsSample(Whole(b.num_received * PacketSize))
  BY WholeSample
<1> QED BY <1>2, <1>3, <1>5, <1>6, <1>7 DEF StatNames2, SampleOf

\* and of those of version 1 one is infinite when its time is zero.
LEMMA SamplesOf1 ==
    ASSUME NEW b, b.capacity * PacketSize \in Nat \ {0}, b.capacity * PacketSize <= DBL_MAX,
           b.time_diff \in Int
    PROVE  /\ DOMAIN Samples1(b) = StatNames1
           /\ \A n \in StatNames1 : SampleOf(Samples1(b), n)
           /\ Loses(Samples1(b)) <=> b.time_diff = 0
<1>1. /\ DOMAIN Samples1(b) = StatNames1
      /\ Samples1(b)["buffer_capacity"] = Whole(b.capacity * PacketSize)
      /\ Samples1(b)["bottleneck_bandwidth"]
            = Reduced(Fraction(b.capacity * PacketSize, b.time_diff))
  BY DEF Samples1, StatNames1
<1>2. Lowest(Whole(b.capacity * PacketSize)) /\ IsSample(Whole(b.capacity * PacketSize))
  BY WholeSample
<1> DEFINE x == Reduced(Fraction(b.capacity * PacketSize, b.time_diff))
<1>3. IsSample(x) /\ (b.time_diff = 0 => x = Inf) /\ (b.time_diff # 0 => Lowest(x))
  <2>1. CASE b.time_diff = 0
    <3>1. x = Inf
      BY <2>1, InfiniteSample
    <3> QED BY <2>1, <3>1 DEF IsSample
  <2>2. CASE b.time_diff # 0
    BY <2>2, QuotientSample
  <2> QED BY <2>1, <2>2
<1> HIDE DEF x
<1>4. x \in Fractions /\ (IsFinite(x) <=> b.time_diff # 0)
  BY <1>3, LowestFinite
<1>5. Whole(b.capacity * PacketSize) \in Fractions /\ IsFinite(Whole(b.capacity * PacketSize))
  BY <1>2, LowestFinite
<1>6. \A n \in StatNames1 : SampleOf(Samples1(b), n)
  BY <1>1, <1>2, <1>3, <1>4, <1>5 DEF StatNames1, SampleOf, x
<1>7. Loses(Samples1(b)) <=> b.time_diff = 0
  BY <1>1, <1>4 DEF Loses, StatNames1, x
<1> QED BY <1>1, <1>6, <1>7

\* All samples of another burst.
LEMMA SamplesOfBoth ==
    ASSUME NEW b \in OtherBursts
    PROVE  /\ DOMAIN Samples(b) = StatNames
           /\ \A n \in StatNames : SampleOf(Samples(b), n)
           /\ Loses(Samples(b)) <=> b.time_diff = 0
           /\ DOMAIN Samples2(b) = StatNames2
           /\ \A n \in StatNames2 : SampleOf(Samples2(b), n)
<1>1. /\ b.num_received \in Nat \ {0} /\ b.time_overall \in Nat /\ b.time_shortest \in Nat
      /\ b.capacity \in Nat \ {0} /\ b.time_diff \in Nat
      /\ PacketSize \in Nat \ {0}
      /\ b.num_received * PacketSize <= DBL_MAX /\ b.capacity * PacketSize <= DBL_MAX
  BY AnalysisAssumption, SamplesAreDoubles DEF Findings
<1>2. b.num_received * PacketSize \in Nat /\ b.capacity * PacketSize \in Nat \ {0}
  BY <1>1, Products
<1>3. /\ DOMAIN Samples2(b) = StatNames2
      /\ \A n \in StatNames2 : SampleOf(Samples2(b), n)
  BY <1>1, <1>2, SamplesOf2
<1>4. /\ DOMAIN Samples1(b) = StatNames1
      /\ \A n \in StatNames1 : SampleOf(Samples1(b), n)
      /\ Loses(Samples1(b)) <=> b.time_diff = 0
  BY <1>1, <1>2, SamplesOf1
<1>5. /\ DOMAIN Samples(b) = StatNames
      /\ \A n \in StatNames1 : Samples(b)[n] = Samples1(b)[n]
      /\ \A n \in StatNames \ StatNames1 : Samples(b)[n] = Samples2(b)[n]
  BY DEF Samples, StatNames
<1>6. ASSUME NEW n \in StatNames PROVE SampleOf(Samples(b), n)
  BY <1>3, <1>4, <1>5 DEF StatNames, SampleOf
<1>7. "bottleneck_bandwidth" \in StatNames1 /\ "bottleneck_bandwidth" \in StatNames
  BY DEF StatNames1, StatNames
<1>8. Loses(Samples(b)) <=> b.time_diff = 0
  BY <1>4, <1>5, <1>7 DEF Loses
<1> QED BY <1>3, <1>5, <1>6, <1>8

\* No statistic of version 2 is the one that is lost.
LEMMA NotLost2 ==
    ASSUME NEW values, DOMAIN values = StatNames2
    PROVE  ~Loses(values) /\ DOMAIN values \subseteq StatNames
BY DEF Loses, StatNames2, StatNames

-----------------------------------------------------------------------------
\* Times at the same microsecond are the same.
LEMMA SameMicros ==
    ASSUME NEW s, NEW t, Normal(s), Normal(t), NotAfter(s, t), InMicros(s) = InMicros(t)
    PROVE  s = t
<1>1. /\ MILLION \in Nat \ {0}
      /\ s.sec \in Nat /\ s.usec \in 0..(MILLION - 1)
      /\ t.sec \in Nat /\ t.usec \in 0..(MILLION - 1)
  BY BoundsPositive DEF Normal
<1>2. s.sec = t.sec
  <2> SUFFICES ASSUME s.sec < t.sec PROVE FALSE
    BY <1>1 DEF NotAfter
  <2>1. s.sec * MILLION + MILLION <= t.sec * MILLION
    BY <1>1, Z3
  <2>2. s.sec * MILLION \in Nat /\ t.sec * MILLION \in Nat
    BY <1>1, Z3
  <2> QED BY <1>1, <2>1, <2>2 DEF InMicros
<1>3. s.usec = t.usec
  <2>1. s.sec * MILLION \in Nat
    BY <1>1, Z3
  <2> QED BY <1>1, <1>2, <2>1 DEF InMicros
<1> QED BY <1>2, <1>3 DEF Normal

\* The counted messages span no time if and only if all came at one time.
LEMMA NoSpan ==
    ASSUME BothInv, message_num # 0, analysis = "loop"
    PROVE  LET span == Minus(latest, earliest) IN
           /\ InMicros(span) \in Int
           /\ InMicros(span) = 0
                <=> \A r \in 0..(message_num - 1) : messages[r] = messages[0]
<1> DEFINE counted == 0..(message_num - 1)
           span == Minus(latest, earliest)
<1>1. /\ message_num \in Nat /\ message_num > 0
      /\ counted \subseteq DOMAIN messages /\ Between(message_num)
      /\ \A r \in DOMAIN messages : Normal(messages[r])
  BY DEF BothInv, LoopInv, StoresInv, Stamp
<1>2. /\ \E r \in counted : earliest = messages[r]
      /\ \E r \in counted : latest = messages[r]
      /\ \A r \in counted : NotAfter(earliest, messages[r]) /\ NotAfter(messages[r], latest)
  BY <1>1 DEF Between
<1>3. Normal(earliest) /\ Normal(latest) /\ 0 \in counted
  BY <1>1, <1>2
<1>4. /\ InMicros(span) = InMicros(latest) - InMicros(earliest)
      /\ InMicros(latest) \in Int /\ InMicros(earliest) \in Int
  BY <1>3, SubtractionExact, TimeFacts
<1>5. ASSUME \A r \in counted : messages[r] = messages[0] PROVE InMicros(span) = 0
  <2>1. earliest = messages[0] /\ latest = messages[0]
    BY <1>2, <1>5
  <2> QED BY <1>4, <2>1
<1>6. ASSUME InMicros(span) = 0, NEW r \in counted PROVE messages[r] = messages[0]
  <2>1. InMicros(latest) = InMicros(earliest)
    BY <1>4, <1>6
  <2>2. ASSUME NEW s \in counted PROVE earliest = messages[s]
    <3>1. Normal(messages[s]) /\ NotAfter(earliest, messages[s]) /\ NotAfter(messages[s], latest)
      BY <1>1, <1>2
    <3>2. InMicros(earliest) <= InMicros(messages[s]) /\ InMicros(messages[s]) <= InMicros(latest)
          /\ InMicros(messages[s]) \in Int
      BY <1>3, <3>1, NotAfterInMicros
    <3>3. InMicros(earliest) = InMicros(messages[s])
      BY <1>4, <2>1, <3>2
    <3> QED BY <1>3, <3>1, <3>3, SameMicros
  <2> QED BY <1>3, <2>2
<1>7. InMicros(span) \in Int
  BY <1>4
<1> QED BY <1>5, <1>6, <1>7

-----------------------------------------------------------------------------
\* The invariant of the statistics holds initially,
LEMMA StatisticsInitially == AnalysisInit => StatisticsInv
<1> SUFFICES ASSUME AnalysisInit PROVE StatisticsInv
  OBVIOUS
<1>1. /\ statistics = [n \in StatNames |-> NewStats]
      /\ samples = [n \in StatNames |-> <<>>]
      /\ same_times = FALSE
  BY Zenon DEF AnalysisInit, StatNames
<1>2. /\ DOMAIN statistics = StatNames /\ DOMAIN samples = StatNames
      /\ \A n \in StatNames : statistics[n] = NewStats /\ samples[n] = <<>>
  BY <1>1
<1>3. AllFinite(<<>>)
  BY DEF AllFinite
<1>4. \A n \in StatNames : StatInv(statistics[n], samples[n]) /\ AllFinite(samples[n])
  BY <1>2, <1>3, StatNew
<1>5. "bottleneck_bandwidth" \in StatNames
  BY DEF StatNames, StatNames1
<1>6. same_times \in BOOLEAN /\ ~same_times
  BY <1>1, Zenon
<1> QED BY <1>2, <1>4, <1>5, <1>6 DEF StatisticsInv

\* every step that adds samples keeps it: the results printed by version 2,
LEMMA PrintAdds ==
    ASSUME StatisticsInv, TypeOK, PrintResults
    PROVE  StatisticsInv'
<1>1. UNCHANGED <<analysis, same_times>>
  BY DEF PrintResults, loopVars
<1>2. same_times' \in BOOLEAN /\ (analysis' \in {"waiting", "loop"} => ~same_times')
  BY <1>1 DEF StatisticsInv
<1>3. CASE num_sent > 0
  <2> DEFINE b == [num_received  |-> num_received,
                   time_overall  |-> InMicros(time_overall),
                   time_shortest |-> InMicros(time_shortest)]
  <2>1. Add(Samples2(b))
    BY <1>3 DEF PrintResults
  <2>2. /\ b.num_received = num_received /\ num_received \in 0..BurstLen
        /\ b.time_overall = InMicros(time_overall)
        /\ b.time_shortest = InMicros(time_shortest)
    BY DEF TypeOK
  <2> HIDE DEF b
  <2>3. InMicros(time_overall) \in Int /\ InMicros(time_shortest) \in Int
    <3>1. time_overall \in Time /\ time_shortest \in Time /\ MILLION \in Nat
      BY BoundsPositive DEF TypeOK
    <3> QED BY <3>1 DEF Time, InMicros
  <2>4. /\ b.num_received \in Nat /\ b.num_received * PacketSize \in Nat
        /\ b.num_received * PacketSize <= DBL_MAX
    BY <2>2, BytesOfBurst
  <2>5. /\ DOMAIN Samples2(b) = StatNames2
        /\ \A n \in StatNames2 : SampleOf(Samples2(b), n)
    BY <2>2, <2>3, <2>4, SamplesOf2
  <2>6. ~Loses(Samples2(b)) /\ DOMAIN Samples2(b) \subseteq StatNames
    BY <2>5, NotLost2
  <2> DEFINE values == Samples2(b)
  <2>7. /\ DOMAIN values \subseteq StatNames /\ \A n \in DOMAIN values : SampleOf(values, n)
        /\ Add(values) /\ ~Loses(values)
    BY <2>1, <2>5, <2>6
  <2> HIDE DEF values
  <2> QED BY <1>1, <1>2, <2>7, AddKeeps
<1>4. CASE ~(num_sent > 0)
  <2>1. UNCHANGED <<statistics, samples>>
    BY <1>4 DEF PrintResults
  <2> QED BY <1>1, <2>1 DEF StatisticsInv
<1> QED BY <1>3, <1>4

\* the end of the loop of version 1, on a burst and on one without its first
\* message,
LEMMA EndAdds ==
    ASSUME StatisticsInv, BothInv, EndLoop
    PROVE  StatisticsInv'
<1>1. analysis = "loop" /\ ~same_times /\ message_num \notin DOMAIN messages
  BY DEF EndLoop, StatisticsInv
<1>2. message_num \in 0..BurstLen
  <2>1. /\ message_num \in Nat /\ 0..(message_num - 1) \subseteq DOMAIN messages
        /\ DOMAIN messages \subseteq 0..(BurstLen - 1)
    BY DEF BothInv, LoopInv, StoresInv, SeqNum
  <2>2. BurstLen \in Nat
    BY BoundsPositive
  <2>3. CASE message_num = 0
    BY <2>2, <2>3
  <2>4. CASE message_num # 0
    <3>1. message_num - 1 \in 0..(message_num - 1)
      BY <2>1, <2>4
    <3>2. message_num - 1 \in 0..(BurstLen - 1)
      BY <2>1, <3>1
    <3> QED BY <2>1, <2>2, <3>2
  <2> QED BY <2>3, <2>4
<1>3. CASE message_num = 0
  <2> DEFINE values == [buffer_capacity |-> Whole(0)]
  <2>1. analysis' = "crashed" /\ Add(values) /\ UNCHANGED same_times
    BY <1>3 DEF EndLoop
  <2>2. DOMAIN values = {"buffer_capacity"} /\ values["buffer_capacity"] = Whole(0)
    OBVIOUS
  <2> HIDE DEF values
  <2>3. Lowest(Whole(0)) /\ IsSample(Whole(0))
    BY StatsAssumption, WholeSample
  <2>4. Whole(0) \in Fractions /\ IsFinite(Whole(0))
    BY <2>3, LowestFinite
  <2>5. \A n \in DOMAIN values : SampleOf(values, n)
    BY <2>2, <2>3, <2>4 DEF SampleOf
  <2>6. ~Loses(values) /\ DOMAIN values \subseteq StatNames
    BY <2>2 DEF Loses, StatNames, StatNames1
  <2>7. same_times' \in BOOLEAN /\ (same_times' <=> (same_times \/ Loses(values)))
        /\ ~(analysis' \in {"waiting", "loop"})
    BY <2>1, <2>6 DEF StatisticsInv
  <2> QED BY <2>1, <2>5, <2>6, <2>7, AddKeeps
<1>4. CASE message_num # 0
  <2> DEFINE span == Minus(latest, earliest)
             b == [capacity |-> message_num, time_diff |-> InMicros(span)]
             values == Samples1(b)
             same == \A r \in 0..(message_num - 1) : messages[r] = messages[0]
  <2>1. analysis' = "done" /\ Add(values) /\ same_times' = same
    BY <1>4 DEF EndLoop, timeval_subtract
  <2>2. b.capacity = message_num /\ b.time_diff = InMicros(span)
    OBVIOUS
  <2>3. InMicros(span) \in Int /\ (InMicros(span) = 0 <=> same)
    BY <1>1, <1>4, NoSpan
  <2> HIDE DEF b, span, same
  <2>4. b.capacity * PacketSize \in Nat \ {0} /\ b.capacity * PacketSize <= DBL_MAX
    BY <1>2, <1>4, <2>2, BytesOfBurst
  <2>5. /\ DOMAIN values = StatNames1
        /\ \A n \in StatNames1 : SampleOf(values, n)
        /\ Loses(values) <=> b.time_diff = 0
    BY <2>2, <2>3, <2>4, SamplesOf1
  <2> HIDE DEF values
  <2>6. same \in BOOLEAN
    BY DEF same
  <2>7. same_times' \in BOOLEAN /\ (same_times' <=> (same_times \/ Loses(values)))
        /\ ~(analysis' \in {"waiting", "loop"})
    <3>1. same_times' <=> Loses(values)
      BY <2>1, <2>2, <2>3, <2>5, <2>6
    <3> QED BY <1>1, <2>1, <2>6, <3>1
  <2>8. DOMAIN values \subseteq StatNames
    BY <2>5 DEF StatNames
  <2> QED BY <2>1, <2>5, <2>7, <2>8, AddKeeps
<1> QED BY <1>3, <1>4

\* another burst,
LEMMA OtherAdds ==
    ASSUME StatisticsInv, OtherBurst
    PROVE  StatisticsInv'
<1>1. PICK b \in OtherBursts :
          IF analysis = "done"
          THEN Add(Samples(b)) /\ same_times' = (same_times \/ b.time_diff = 0)
          ELSE Add(Samples2(b)) /\ UNCHANGED same_times
  BY DEF OtherBurst
<1>2. analysis \in {"done", "crashed"} /\ UNCHANGED analysis
  BY DEF OtherBurst, loopVars
<1>3. ~(analysis' \in {"waiting", "loop"}) /\ same_times \in BOOLEAN
  BY <1>2 DEF StatisticsInv
<1>4. /\ DOMAIN Samples(b) = StatNames
      /\ \A n \in StatNames : SampleOf(Samples(b), n)
      /\ Loses(Samples(b)) <=> b.time_diff = 0
      /\ DOMAIN Samples2(b) = StatNames2
      /\ \A n \in StatNames2 : SampleOf(Samples2(b), n)
  BY SamplesOfBoth
<1>5. CASE analysis = "done"
  <2> DEFINE values == Samples(b)
  <2>1. Add(values) /\ DOMAIN values = StatNames /\ \A n \in StatNames : SampleOf(values, n)
    BY <1>1, <1>4, <1>5
  <2>2. same_times' = (same_times \/ b.time_diff = 0) /\ (Loses(values) <=> b.time_diff = 0)
    BY <1>1, <1>4, <1>5
  <2> HIDE DEF values
  <2>3. same_times' \in BOOLEAN /\ (same_times' <=> (same_times \/ Loses(values)))
    BY <1>3, <2>2
  <2> QED BY <1>3, <2>1, <2>3, AddKeeps
<1>6. CASE analysis # "done"
  <2> DEFINE values == Samples2(b)
  <2>1. /\ same_times' = same_times /\ Add(values)
        /\ DOMAIN values = StatNames2 /\ \A n \in StatNames2 : SampleOf(values, n)
    BY <1>1, <1>4, <1>6
  <2> HIDE DEF values
  <2>2. ~Loses(values) /\ DOMAIN values \subseteq StatNames
    BY <2>1, NotLost2
  <2>3. same_times' \in BOOLEAN
    BY <1>3, <2>1
  <2>4. same_times' <=> (same_times \/ Loses(values))
    BY <2>1, <2>2, Zenon
  <2> QED BY <1>3, <2>1, <2>2, <2>3, <2>4, AddKeeps
<1> QED BY <1>5, <1>6

\* and the others leave the statistics alone.
LEMMA StatisticsSteps ==
    ASSUME StatisticsInv, BothInv, TypeOK, [AnalysisNext]_allVars
    PROVE  StatisticsInv'
<1>1. ASSUME UNCHANGED <<statistics, samples, same_times>>,
             analysis' = analysis \/ (analysis = "waiting" /\ analysis' \in {"loop", "done"})
      PROVE  StatisticsInv'
  BY <1>1 DEF StatisticsInv
<1>2. CASE \E s \in SeqNum : Receive(s)
  <2>1. UNCHANGED <<loopVars, printVars>>
    BY <1>2 DEF Receive
  <2> QED BY <1>1, <2>1 DEF loopVars, printVars
<1>3. CASE Version2
  BY <1>1, <1>3 DEF Version2, analysisVars, loopVars, printVars
<1>4. CASE StartAnalysis
  BY <1>1, <1>4 DEF StartAnalysis, printVars
<1>5. CASE MessageFound
  BY <1>1, <1>5 DEF MessageFound, printVars
<1>6. CASE UNCHANGED allVars
  BY <1>1, <1>6 DEF allVars, analysisVars, loopVars, printVars
<1> QED BY <1>2, <1>3, <1>4, <1>5, <1>6, PrintAdds, EndAdds, OtherAdds DEF AnalysisNext

\* What else AnalysisTypeOK says.
RestTypes ==
    /\ \E S \in SUBSET SeqNum : messages \in [S -> Time]
    /\ analysis \in {"waiting", "loop", "done", "crashed"}
    /\ {earliest, latest, time_diff} \subseteq Time
    /\ printed \in BOOLEAN
    /\ duplicates \in 0..MaxDuplicates

\* It holds initially,
LEMMA RestInitially == AnalysisInit => RestTypes
<1> SUFFICES ASSUME AnalysisInit PROVE RestTypes
  OBVIOUS
<1>1. /\ messages = <<>> /\ analysis = "waiting" /\ duplicates = 0
      /\ earliest = Zero /\ latest = Zero /\ time_diff = Zero
  BY DEF AnalysisInit
<1>2. printed \in BOOLEAN
  BY Zenon DEF AnalysisInit
<1>3. messages \in [{} -> Time] /\ {} \in SUBSET SeqNum
  BY <1>1
<1>4. duplicates \in 0..MaxDuplicates
  BY <1>1, AnalysisAssumption
<1> QED BY <1>1, <1>2, <1>3, <1>4, TimeFacts DEF RestTypes

\* a datagram leaves it as it is,
LEMMA ReceiveTypes ==
    ASSUME RestTypes, BothInv, NEW s \in SeqNum, Receive(s)
    PROVE  RestTypes'
<1>1. /\ messages' = [r \in DOMAIN messages \cup {s} |->
                          IF r = s THEN AsTime(clock) ELSE messages[r]]
      /\ s \in DOMAIN messages => duplicates < MaxDuplicates
      /\ duplicates' = IF s \in DOMAIN messages THEN duplicates + 1 ELSE duplicates
  BY DEF Receive
<1>2. UNCHANGED <<analysis, earliest, latest, time_diff, printed>>
  BY DEF Receive, loopVars, printVars
<1>3. PICK S \in SUBSET SeqNum : messages \in [S -> Time]
  BY DEF RestTypes
<1>4. AsTime(clock) \in Time
  <2>1. Stamp(AsTime(clock))
    BY StampOfClock DEF BothInv, StoresInv
  <2> QED BY <2>1, TimeFacts DEF Stamp
<1>5. messages' \in [S \cup {s} -> Time] /\ S \cup {s} \in SUBSET SeqNum
  BY <1>1, <1>3, <1>4
<1>6. duplicates' \in 0..MaxDuplicates
  BY <1>1, AnalysisAssumption DEF RestTypes
<1> QED BY <1>2, <1>5, <1>6 DEF RestTypes

\* and so does every step.
LEMMA RestSteps ==
    ASSUME RestTypes, BothInv, [AnalysisNext]_allVars
    PROVE  RestTypes'
<1>1. CASE Version2
  BY <1>1 DEF Version2, analysisVars, loopVars, printVars, heard, RestTypes
<1>2. CASE PrintResults
  BY <1>2 DEF PrintResults, loopVars, heard, RestTypes
<1>3. CASE StartAnalysis
  BY <1>3 DEF StartAnalysis, printVars, heard, RestTypes
<1>4. CASE MessageFound
  <2>1. messages[message_num] \in Time
    BY <1>4, TimeFacts DEF MessageFound, BothInv, StoresInv, Stamp
  <2>2. /\ earliest' \in {messages[message_num], earliest}
        /\ latest' \in {messages[message_num], latest}
        /\ UNCHANGED <<messages, analysis, time_diff, printed, duplicates>>
    BY <1>4 DEF MessageFound, printVars, heard
  <2> QED BY <2>1, <2>2 DEF RestTypes
<1>5. CASE EndLoop
  <2>1. time_diff' \in Time
    <3>1. CASE message_num = 0
      BY <1>5, <3>1 DEF EndLoop, RestTypes
    <3>2. CASE message_num # 0
      <4>1. Normal(earliest) /\ Normal(latest)
        BY <3>2 DEF BothInv, LoopInv, StoresInv, Stamp, Between
      <4>2. time_diff' = Minus(latest, earliest)
        BY <1>5, <3>2 DEF EndLoop, timeval_subtract
      <4> QED BY <4>1, <4>2, MinusIsTime
    <3> QED BY <3>1, <3>2
  <2>2. /\ analysis' \in {"done", "crashed"}
        /\ UNCHANGED <<messages, earliest, latest, printed, duplicates>>
    BY <1>5 DEF EndLoop, heard
  <2> QED BY <2>1, <2>2 DEF RestTypes
<1>6. CASE OtherBurst
  BY <1>6 DEF OtherBurst, loopVars, heard, RestTypes
<1>7. CASE UNCHANGED allVars
  BY <1>7 DEF allVars, analysisVars, loopVars, printVars, heard, RestTypes
<1> QED BY <1>1, <1>2, <1>3, <1>4, <1>5, <1>6, <1>7, ReceiveTypes DEF AnalysisNext

-----------------------------------------------------------------------------
\* All of it is invariant.
LEMMA StatisticsHold == AnalysisSpec => [](BothInv /\ StatisticsInv /\ RestTypes)
<1>1. AnalysisSpec => []TypeOK
  BY AnalysisImplementsTimes, TimesTyped, PTL
<1>2. AnalysisSpec => []BothInv
  BY BothInvariant
<1>3. BothInv /\ TypeOK /\ StatisticsInv /\ RestTypes /\ [AnalysisNext]_allVars
         => StatisticsInv' /\ RestTypes'
  BY StatisticsSteps, RestSteps
<1> QED BY <1>1, <1>2, <1>3, StatisticsInitially, RestInitially, PTL DEF AnalysisSpec

\* The server of version 1 and the statistics keep their types.
THEOREM AnalysisTyped == AnalysisSpec => []AnalysisTypeOK
<1>1. BothInv /\ StatisticsInv /\ RestTypes => AnalysisTypeOK
  <2> SUFFICES ASSUME BothInv, StatisticsInv, RestTypes PROVE AnalysisTypeOK
    OBVIOUS
  <2>1. message_num \in 0..BurstLen
    <3>1. /\ message_num \in Nat /\ 0..(message_num - 1) \subseteq DOMAIN messages
          /\ DOMAIN messages \subseteq 0..(BurstLen - 1)
      BY DEF BothInv, LoopInv, StoresInv, SeqNum
    <3>2. BurstLen \in Nat
      BY BoundsPositive
    <3>3. CASE message_num = 0
      BY <3>2, <3>3
    <3>4. CASE message_num # 0
      <4>1. message_num - 1 \in 0..(message_num - 1)
        BY <3>1, <3>4
      <4>2. message_num - 1 \in 0..(BurstLen - 1)
        BY <3>1, <4>1
      <4> QED BY <3>1, <3>2, <4>2
    <3> QED BY <3>3, <3>4
  <2>2. /\ DOMAIN statistics = StatNames1 \cup StatNames2
        /\ DOMAIN samples = StatNames1 \cup StatNames2
        /\ same_times \in BOOLEAN
    BY DEF StatisticsInv, StatNames
  <2>3. {first_arrival, last_arrival} \subseteq [DOMAIN messages -> Nat]
    BY DEF BothInv, StoresInv
  <2> QED BY <2>1, <2>2, <2>3 DEF RestTypes, AnalysisTypeOK
<1> QED BY <1>1, StatisticsHold, PTL

\* However many samples are added in whatever order, the running statistics
\* are those the definitions give for all of them.
THEOREM StatisticsExact == AnalysisSpec => []StatisticsOfSamples
<1>1. StatisticsInv => StatisticsOfSamples
  BY StatMeans DEF StatisticsInv, StatisticsOfSamples
<1> QED BY <1>1, StatisticsHold, PTL

\* The mean bandwidth of version 1 is lost by a burst whose messages all came
\* at one time, and by nothing else; no other mean is lost.
THEOREM MeanExplained == AnalysisSpec => []MeanLostExplained
<1>1. StatisticsInv => MeanLostExplained
  <2> SUFFICES ASSUME StatisticsInv PROVE MeanLostExplained
    OBVIOUS
  <2>1. \A n \in DOMAIN statistics : IsFinite(statistics[n].mean) <=> AllFinite(samples[n])
    BY MeanLost DEF StatisticsInv
  <2>2. "bottleneck_bandwidth" \in DOMAIN statistics
    BY DEF StatisticsInv, StatNames, StatNames1
  <2> QED BY <2>1, <2>2 DEF StatisticsInv, MeanLostExplained
<1> QED BY <1>1, StatisticsHold, PTL
=============================================================================
