--------------------------- MODULE BurstAnalysis ---------------------------
(***************************************************************************)
(* The same datagrams, read by both servers.  ArrivalTimes is the server   *)
(* of version 2; this module adds the one of version 1 (analyze_packets in *)
(* hw1/bufferprobe/server.c), and the statistics over the bursts of a test *)
(* both print (stats.h).  One burst is followed datagram by datagram; the  *)
(* others enter the statistics with what was found about them.             *)
(*                                                                         *)
(* The two servers do not interact: version 2 is done first.  Rates are in *)
(* bytes per microsecond.  The simulated queue is in BurstRecorder.        *)
(***************************************************************************)
EXTENDS ArrivalTimes, RunningStats

CONSTANTS
    PacketSize,      \* bytes of a message on the wire, headers included
    OtherBursts,     \* what is found about the other bursts of the test
    MaxBursts,       \* bound on how many of them there are
    MaxAfter,        \* the same if something of the burst followed arrived
    MaxDuplicates    \* bound on the probes that arrive twice

\* Counts, and times in microseconds: those of version 2, and the messages
\* before the first gap, with the time they span.
Findings ==
    [num_received : Nat \ {0}, time_overall : Nat, time_shortest : Nat,
     capacity : Nat \ {0}, time_diff : Nat]

ASSUME AnalysisAssumption ==
    /\ PacketSize \in Nat \ {0}
    /\ OtherBursts \subseteq Findings
    /\ {MaxBursts, MaxAfter, MaxDuplicates} \subseteq Nat

\* The bytes of a burst are an int: fewer than the largest double.
ASSUME SamplesAreDoubles ==
    /\ BurstLen * PacketSize <= DBL_MAX
    /\ \A b \in OtherBursts : /\ b.num_received * PacketSize <= DBL_MAX
                              /\ b.capacity * PacketSize <= DBL_MAX

VARIABLES
    messages,        \* version 1: arrival of the message in each slot
    analysis,        \* where analyze_packets is: "waiting", "loop", "done", "crashed"
    message_num,     \* its loop variable, at the end buffer_capacity
    earliest, latest, time_diff,
    printed,         \* version 2: the client has printed the results
    statistics,      \* the five Stats, by name
    samples,         \* history: the values added to each
    same_times,      \* history: a burst whose messages span no time was analysed
    first_arrival,   \* history: by number, when the clock was read for the first
    last_arrival,    \* and for the last probe with it, in microseconds
    duplicates,      \* history: how many probes arrived twice
    others           \* history: how many other bursts were analysed

loopVars     == <<analysis, message_num, earliest, latest, time_diff>>
printVars    == <<printed, statistics, samples, same_times>>
heard        == <<first_arrival, last_arrival, duplicates>>
analysisVars == <<messages, loopVars, printVars, heard, others>>

StatNames1 == {"buffer_capacity", "bottleneck_bandwidth"}
StatNames2 == {"peak", "bandwidth", "buffer_size"}

AnalysisInit ==
    /\ Init
    /\ messages = <<>>
    /\ analysis = "waiting"
    /\ message_num = 0
    /\ earliest = Zero
    /\ latest = Zero
    /\ time_diff = Zero
    /\ printed = FALSE
    /\ statistics = [n \in StatNames1 \cup StatNames2 |-> NewStats]
    /\ samples = [n \in StatNames1 \cup StatNames2 |-> <<>>]
    /\ same_times = FALSE
    /\ first_arrival = <<>>
    /\ last_arrival = <<>>
    /\ duplicates = 0
    /\ others = 0

\* A datagram: version 1 overwrites what is in the slot of the message.
Receive(s) ==
    /\ ProbeArrives(s)
    /\ messages' = [r \in DOMAIN messages \cup {s} |->
                       IF r = s THEN AsTime(clock) ELSE messages[r]]
    /\ s \in DOMAIN messages => duplicates < MaxDuplicates
    /\ duplicates' = IF s \in DOMAIN messages THEN duplicates + 1 ELSE duplicates
    /\ first_arrival' = [r \in DOMAIN first_arrival \cup {s} |->
                            IF r \in DOMAIN first_arrival THEN first_arrival[r] ELSE clock]
    /\ last_arrival' = [r \in DOMAIN last_arrival \cup {s} |->
                           IF r = s THEN clock ELSE last_arrival[r]]
    /\ UNCHANGED <<loopVars, printVars, others>>

Version2 ==
    /\ Tick \/ Results
    /\ UNCHANGED analysisVars

-----------------------------------------------------------------------------
(* The samples.                                                            *)

\* rate without the test for zero.
rate_Unguarded(num_received_, overall) ==
    Reduced(Fraction(num_received_ * PacketSize, overall))

\* BurstResults::rate and peak.
rate(num_received_, overall) ==
    IF overall = 0 THEN Whole(0) ELSE Reduced(Fraction(num_received_ * PacketSize, overall))

peak(shortest) ==
    IF shortest = 0 THEN Whole(0) ELSE Reduced(Fraction(PacketSize, shortest))

Samples2(b) ==
    [peak        |-> peak(b.time_shortest),
     bandwidth   |-> rate(b.num_received, b.time_overall),
     buffer_size |-> Whole(b.num_received * PacketSize)]

\* bottleneck_bandwidth: the time is not looked at before the division.
Samples1(b) ==
    [buffer_capacity      |-> Whole(b.capacity * PacketSize),
     bottleneck_bandwidth |-> Reduced(Fraction(b.capacity * PacketSize, b.time_diff))]

Samples(b) ==
    [n \in StatNames1 \cup StatNames2 |->
        IF n \in StatNames1 THEN Samples1(b)[n] ELSE Samples2(b)[n]]

Add(values) ==
    /\ statistics' = [n \in DOMAIN statistics |->
                         IF n \in DOMAIN values THEN addSample(statistics[n], values[n])
                         ELSE statistics[n]]
    /\ samples' = [n \in DOMAIN samples |->
                      IF n \in DOMAIN values THEN Append(samples[n], values[n])
                      ELSE samples[n]]

\* operator<< of TestResults: a burst of which nothing is known adds nothing.
PrintResults ==
    /\ pc = "done"
    /\ ~printed
    /\ printed' = TRUE
    /\ IF num_sent > 0
       THEN Add(Samples2([num_received  |-> num_received,
                          time_overall  |-> InMicros(time_overall),
                          time_shortest |-> InMicros(time_shortest)]))
       ELSE UNCHANGED <<statistics, samples>>
    /\ UNCHANGED <<vars, messages, loopVars, same_times, heard, others>>

-----------------------------------------------------------------------------
(* analyze_packets of version 1.                                           *)

StartAnalysis ==
    /\ analysis = "waiting"
    /\ printed
    /\ analysis' = IF messages = <<>> THEN "done" ELSE "loop"
    /\ UNCHANGED <<vars, messages, message_num, earliest, latest, time_diff, printVars,
                   heard, others>>

\* timercmp(x, y, <), and a comparison that looks at the microseconds only.
Before_MicrosOnly(x, y) == x.usec < y.usec
Before(x, y) == x.sec < y.sec \/ (x.sec = y.sec /\ x.usec < y.usec)

\* An iteration of the loop over the messages.
MessageFound ==
    LET arrival == messages[message_num] IN
    /\ analysis = "loop"
    /\ message_num \in DOMAIN messages
    /\ earliest' = IF message_num = 0 \/ Before(arrival, earliest) THEN arrival ELSE earliest
    /\ latest' = IF message_num = 0 \/ Before(latest, arrival) THEN arrival ELSE latest
    /\ message_num' = message_num + 1
    /\ UNCHANGED <<vars, messages, analysis, time_diff, printVars, heard, others>>

\* timeval_subtract of version 1: the carries are those of Time::operator-.
timeval_subtract(x, y) == Minus(x, y)

\* It ends at the first gap.  The capacity is added before the times are
\* looked at; without a message the pointers to them are null.
EndLoop ==
    LET span == timeval_subtract(latest, earliest) IN
    /\ analysis = "loop"
    /\ message_num \notin DOMAIN messages
    /\ IF message_num = 0
       THEN /\ analysis' = "crashed"
            /\ Add([buffer_capacity |-> Whole(0)])
            /\ UNCHANGED <<time_diff, same_times>>
       ELSE /\ analysis' = "done"
            /\ time_diff' = span
            /\ Add(Samples1([capacity |-> message_num, time_diff |-> InMicros(span)]))
            /\ same_times' = \A r \in 0..(message_num - 1) : messages[r] = messages[0]
    /\ UNCHANGED <<vars, messages, message_num, earliest, latest, printed, heard, others>>

\* Another burst of the test, printed by both; by version 1 only if it has
\* got past the one before.
OtherBurst ==
    /\ analysis \in {"done", "crashed"}
    /\ others < IF messages = <<>> THEN MaxBursts ELSE MaxAfter
    /\ others' = others + 1
    /\ \E b \in OtherBursts :
          IF analysis = "done"
          THEN /\ Add(Samples(b))
               /\ same_times' = (same_times \/ b.time_diff = 0)
          ELSE Add(Samples2(b)) /\ UNCHANGED same_times
    /\ UNCHANGED <<vars, messages, loopVars, printed, heard>>

AnalysisNext ==
    \/ \E s \in SeqNum : Receive(s)
    \/ Version2 \/ PrintResults
    \/ StartAnalysis \/ MessageFound \/ EndLoop
    \/ OtherBurst

allVars == <<vars, analysisVars>>

AnalysisSpec == AnalysisInit /\ [][AnalysisNext]_allVars

-----------------------------------------------------------------------------
AnalysisTypeOK ==
    /\ \E S \in SUBSET SeqNum : messages \in [S -> Time]
    /\ analysis \in {"waiting", "loop", "done", "crashed"}
    /\ message_num \in 0..BurstLen
    /\ {earliest, latest, time_diff} \subseteq Time
    /\ {printed, same_times} \subseteq BOOLEAN
    /\ {first_arrival, last_arrival} \subseteq [DOMAIN messages -> Nat]
    /\ duplicates \in 0..MaxDuplicates
    /\ DOMAIN statistics = StatNames1 \cup StatNames2
    /\ DOMAIN samples = StatNames1 \cup StatNames2

\* The running statistics are those of the samples added.
StatisticsOfSamples ==
    \A n \in DOMAIN statistics : AreStatisticsOf(statistics[n], samples[n])

Analysed == analysis = "done" /\ messages # <<>>

\* Version 1 divides by the exact time, to the microsecond, between the two
\* messages it counts that came farthest apart, in whichever order they came;
\* it is never negative.  Of a message that came twice the later arrival
\* counts.
SpanIsExact ==
    Analysed =>
        LET counted == 0..(message_num - 1)
        IN  /\ \A r, s \in counted :
                  last_arrival[r] - last_arrival[s] <= InMicros(time_diff)
            /\ \E r, s \in counted :
                  last_arrival[r] - last_arrival[s] = InMicros(time_diff)
            /\ time_diff.sec >= 0 /\ time_diff.usec >= 0

\* Both versions find the same buffer capacity in the same datagrams, but not
\* the same time for it.  Version 2, in time_contiguous or if nothing was lost
\* in time_overall, has the time from the first arrival of the first counted
\* message to the first arrival of the last one.  Version 1 has at least the
\* time between their last arrivals, and just that if none was overtaken: so
\* the two agree as long as nothing is duplicated or overtaken, while a
\* duplicate makes either of them the longer one.
VersionsAgree ==
    Analysed =>
        LET contiguous == IF num_contiguous = num_sent THEN time_overall
                          ELSE time_contiguous
            final      == message_num - 1
        IN  /\ message_num = num_contiguous
            /\ InMicros(contiguous) = first_arrival[final] - first_arrival[0]
            /\ InMicros(time_diff) >= last_arrival[final] - last_arrival[0]
            /\ in_order => InMicros(time_diff) = last_arrival[final] - last_arrival[0]

\* The mean bandwidth of version 1 is lost, infinite or no number, if and
\* only if the counted messages of some burst all came in one microsecond,
\* as a single message does; no other mean is ever lost.
MeanLostExplained ==
    /\ \A n \in DOMAIN statistics \ {"bottleneck_bandwidth"} : IsFinite(statistics[n].mean)
    /\ IsFinite(statistics["bottleneck_bandwidth"].mean) <=> ~same_times
=============================================================================
