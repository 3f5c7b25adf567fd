--------------------------- MODULE MCBufferProbe ---------------------------
(***************************************************************************)
(* Instances of BufferProbe for TLC.                                       *)
(***************************************************************************)
EXTENDS BufferProbe

Line(n, len, num, den) ==
    [num_bursts |-> n, burst_len |-> len, multiplier |-> [num |-> num, den |-> den]]

\* Two bursts that grow from one probe to two.
Growing   == {Line(2, 1, 1, 1)}
\* Two bursts of one probe.
TwoBursts == {Line(2, 1, 0, 1)}
\* A burst that can lose a probe in the middle.
OneBurst  == {Line(1, 3, 0, 1)}
\* A single probe, and the shortest test with two bursts.
Shortest  == {Line(1, 1, 0, 1)}
\* Tests that differ in the number of bursts alone.
ShortAndLong == Shortest \cup TwoBursts
\* A test of one burst, and one of two that grow.
ShortOrGrowing == Shortest \cup Growing
\* A test that grows, and one that does not.
GrowingOrNot == Growing \cup OneBurst

\* A bound: an ERROR is only sent in behaviours of fewer runs.
ErrorsEarly == errors > 0 => run < MaxRuns
=============================================================================
