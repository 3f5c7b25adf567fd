---------------------------- MODULE ArrivalTimes ----------------------------
(***************************************************************************)
(* The times of one burst: when its probes arrive, and what the server     *)
(* computes from that (hw2/bufferprobe2/results.h, BurstResults, and       *)
(* time.h).  A probe gets the time of day when it is received; the         *)
(* constructor of BurstResults then goes through the sequence numbers in   *)
(* order, one step here for every iteration.                               *)
(*                                                                         *)
(* A Time is a timeval: seconds and microseconds.  The comparisons of the  *)
(* code go through float; what that rounds away is left out.               *)
(***************************************************************************)
EXTENDS TestData

CONSTANTS
    MILLION,      \* microseconds in a second (1000000 in the code)
    BurstLen,     \* burst_len in the headers of the probes
    MaxClock      \* bound on the time of day, in microseconds

ASSUME TimesAssumption ==
    /\ {MILLION, BurstLen} \subseteq Nat \ {0}
    /\ MaxClock \in Nat

VARIABLES
    clock,           \* the time of day, in microseconds
    probes,          \* arrival times, by sequence number
    pc,              \* "receiving", then in the constructor's "loop", then "done"
    seq_num,         \* loop variable of the constructor
    first_timestamp, last_timestamp, found_dropped,
    num_received, num_contiguous,
    time_overall, time_contiguous, time_shortest,
    in_order,        \* history: no probe was overtaken by one with a higher number
    differences      \* history: the results of the subtractions so far

results == <<num_received, num_contiguous, time_overall, time_contiguous, time_shortest>>
locals  == <<seq_num, first_timestamp, last_timestamp, found_dropped, differences>>
vars    == <<clock, probes, in_order, pc, locals, results>>

Time == [sec : Int, usec : Int]
Zero == [sec |-> 0, usec |-> 0]

\* What gettimeofday returns, and its inverse.
AsTime(t)   == [sec |-> t \div MILLION, usec |-> t % MILLION]
InMicros(t) == t.sec * MILLION + t.usec

\* A first carry that leaves the seconds alone, and one without the + 1.
CarryUp_KeepsSeconds(x, y) ==
    IF x.usec < y.usec THEN [y EXCEPT !.usec = @ - MILLION] ELSE y
CarryUp_NoCarry(x, y) ==
    LET nsec == (y.usec - x.usec) \div MILLION
    IN  IF x.usec < y.usec
        THEN [sec |-> y.sec + nsec, usec |-> y.usec - MILLION * nsec]
        ELSE y

\* Time::operator-, with its two carries: each moves whole seconds between
\* the fields of y.
CarryUp(x, y) ==
    LET nsec == (y.usec - x.usec) \div MILLION + 1
    IN  IF x.usec < y.usec
        THEN [sec |-> y.sec + nsec, usec |-> y.usec - MILLION * nsec]
        ELSE y

CarryDown(x, y) ==
    LET nsec == (x.usec - y.usec) \div MILLION
    IN  IF x.usec - y.usec > MILLION
        THEN [sec |-> y.sec - nsec, usec |-> y.usec + MILLION * nsec]
        ELSE y

Minus(x, y) ==
    LET carried == CarryDown(x, CarryUp(x, y))
    IN  [sec |-> x.sec - carried.sec, usec |-> x.usec - carried.usec]

Init ==
    /\ clock = MILLION
    /\ probes = <<>>
    /\ in_order = TRUE
    /\ pc = "receiving"
    /\ seq_num = 0
    /\ first_timestamp = Zero
    /\ last_timestamp = Zero
    /\ found_dropped = FALSE
    /\ num_received = 0
    /\ num_contiguous = 0
    /\ time_overall = Zero
    /\ time_contiguous = Zero
    /\ time_shortest = Zero
    /\ differences = {}

\* Time passes; the clock of the system is not set back meanwhile.
Tick ==
    /\ pc = "receiving"
    /\ clock < MaxClock
    /\ clock' = clock + 1
    /\ UNCHANGED <<probes, in_order, pc, locals, results>>

\* An insert that overwrites the entry.
ProbeArrives_Overwrites(s) ==
    /\ pc = "receiving"
    /\ in_order' = (in_order /\ \A r \in DOMAIN probes : r <= s)
    /\ probes' = [r \in DOMAIN probes \cup {s} |->
                     IF r = s THEN AsTime(clock) ELSE probes[r]]
    /\ UNCHANGED <<clock, pc, locals, results>>

\* A probe is received: the constructor of ProbeData marks the time, insert
\* keeps the entry of an earlier one with the same number.
ProbeArrives(s) ==
    /\ pc = "receiving"
    /\ in_order' = (in_order /\ \A r \in DOMAIN probes : r <= s)
    /\ probes' = IF s \in DOMAIN probes THEN probes
                 ELSE [r \in DOMAIN probes \cup {s} |->
                          IF r = s THEN AsTime(clock) ELSE probes[r]]
    /\ UNCHANGED <<clock, pc, locals, results>>

\* COMPLETE: the constructor starts, with the length the burst has.
StartResults ==
    /\ pc = "receiving"
    /\ pc' = "loop"
    /\ UNCHANGED <<clock, probes, in_order, locals, results>>

\* A loop up to and including the length.
num_sent_Inclusive == IF DOMAIN probes = {} THEN 0 ELSE BurstLen + 1

num_sent == IF DOMAIN probes = {} THEN 0 ELSE BurstLen

\* Whether a difference becomes the shortest: the test, and its reverse.
Replaces_Longer(difference) ==
    InMicros(time_shortest) = 0 \/ InMicros(difference) > InMicros(time_shortest)
Replaces(difference) ==
    InMicros(time_shortest) = 0 \/ InMicros(difference) < InMicros(time_shortest)

\* An iteration for a probe that arrived.
ProbeFound ==
    LET timestamp  == probes[seq_num]
        difference == Minus(timestamp, last_timestamp)
        is_first   == last_timestamp.sec = 0
    IN  /\ pc = "loop"
        /\ seq_num < num_sent
        /\ seq_num \in DOMAIN probes
        /\ first_timestamp' = IF first_timestamp.sec = 0 THEN timestamp ELSE first_timestamp
        /\ time_shortest' =
              IF ~is_first /\ Replaces(difference) THEN difference ELSE time_shortest
        /\ differences' = IF is_first THEN differences ELSE differences \cup {difference}
        /\ last_timestamp' = timestamp
        /\ num_received' = num_received + 1
        /\ num_contiguous' = IF found_dropped THEN num_contiguous ELSE num_contiguous + 1
        /\ seq_num' = seq_num + 1
        /\ UNCHANGED <<clock, probes, in_order, pc, found_dropped, time_overall,
                       time_contiguous>>

\* found_dropped = true forgotten.
ProbeMissing_Forgets ==
    LET difference == Minus(last_timestamp, first_timestamp) IN
    /\ pc = "loop"
    /\ seq_num < num_sent
    /\ seq_num \notin DOMAIN probes
    /\ time_contiguous' = difference
    /\ differences' = differences \cup {difference}
    /\ seq_num' = seq_num + 1
    /\ UNCHANGED <<clock, probes, in_order, pc, first_timestamp, last_timestamp,
                   found_dropped, num_received, num_contiguous, time_overall, time_shortest>>

\* An iteration for a probe that did not: at() throws out_of_range.
ProbeMissing ==
    LET difference == Minus(last_timestamp, first_timestamp) IN
    /\ pc = "loop"
    /\ seq_num < num_sent
    /\ seq_num \notin DOMAIN probes
    /\ IF found_dropped
       THEN UNCHANGED <<time_contiguous, differences>>
       ELSE time_contiguous' = difference /\ differences' = differences \cup {difference}
    /\ found_dropped' = TRUE
    /\ seq_num' = seq_num + 1
    /\ UNCHANGED <<clock, probes, in_order, pc, first_timestamp, last_timestamp,
                   num_received, num_contiguous, time_overall, time_shortest>>

\* After the loop.
EndResults ==
    /\ pc = "loop"
    /\ seq_num = num_sent
    /\ pc' = "done"
    /\ time_overall' = Minus(last_timestamp, first_timestamp)
    /\ differences' = differences \cup {Minus(last_timestamp, first_timestamp)}
    /\ UNCHANGED <<clock, probes, in_order, seq_num, first_timestamp, last_timestamp,
                   found_dropped, num_received, num_contiguous, time_contiguous,
                   time_shortest>>

SeqNum == 0..(BurstLen - 1)

Arrivals == Tick \/ \E s \in SeqNum : ProbeArrives(s)
Results  == StartResults \/ ProbeFound \/ ProbeMissing \/ EndResults

Next == Arrivals \/ Results

Spec == Init /\ [][Next]_vars

-----------------------------------------------------------------------------
TypeOK ==
    /\ clock \in MILLION..(MILLION + MaxClock)
    /\ \E S \in SUBSET (0..(BurstLen - 1)) : probes \in [S -> Time]
    /\ pc \in {"receiving", "loop", "done"}
    /\ seq_num \in 0..BurstLen
    /\ {first_timestamp, last_timestamp} \subseteq Time
    /\ {time_overall, time_contiguous, time_shortest} \subseteq Time
    /\ {found_dropped, in_order} \subseteq BOOLEAN
    /\ {num_received, num_contiguous} \subseteq 0..BurstLen
    /\ differences \subseteq Time

\* The pairs of probes that follow each other among those that arrived, and
\* the times between them.
Neighbours ==
    {p \in (DOMAIN probes) \X (DOMAIN probes) :
        p[1] < p[2] /\ ~\E c \in DOMAIN probes : p[1] < c /\ c < p[2]}

Gaps == {InMicros(probes[p[2]]) - InMicros(probes[p[1]]) : p \in Neighbours}

\* The loop counts what the definition of the counts says.
CountsAreSummary ==
    pc = "done" => LET summary == Summary(num_sent, DOMAIN probes) IN
                      /\ num_received = summary.num_received
                      /\ num_contiguous = summary.num_contiguous

\* The overall time is that from the first numbered probe to the last, and
\* the contiguous time that of the unbroken run before the first drop; both
\* are exact to the microsecond across the turn of a second.
TimesAreSpans ==
    (pc = "done" /\ probes # <<>>) =>
        LET At(s)     == InMicros(probes[s])
            missing   == (0..(BurstLen - 1)) \ DOMAIN probes
        IN  /\ InMicros(time_overall) = At(Max(DOMAIN probes)) - At(Min(DOMAIN probes))
            /\ InMicros(time_contiguous) =
                  IF missing = {} \/ Min(missing) = 0 THEN 0 ELSE At(Min(missing) - 1) - At(0)

\* The shortest time is the smallest gap between probes that follow each
\* other, provided no two of those were received in the same microsecond
\* (zero also stands for "none yet").
ShortestIsSmallestGap ==
    (pc = "done" /\ Gaps # {} /\ 0 \notin Gaps) => InMicros(time_shortest) = Min(Gaps)

\* "At this point, x >= y in both respects": no subtraction yields a negative
\* number of seconds or microseconds, as long as no probe overtakes another.
DifferencesNotNegative ==
    \A d \in differences : d.sec >= 0 /\ d.usec >= 0

InOrderNotNegative == in_order => DifferencesNotNegative
=============================================================================
