-------------------------- MODULE MCBurstRecorder --------------------------
(***************************************************************************)
(* Instances of BurstRecorder for TLC.                                     *)
(***************************************************************************)
EXTENDS BurstRecorder

Line(n, len, payload) == [num_bursts |-> n, burst_len |-> len, payload_len |-> payload]

\* Two bursts that double to two and four probes; four bursts of one, enough
\* to skip two.
DoublingOrMany == {Line(2, -1, 1), Line(4, 1, 0)}
\* A burst of two messages that need one frame or two.
SmallAndLarge  == {Line(1, 2, 2), Line(1, 2, 3)}
\* For two clients in turn: a burst that doubles to two probes, one of three,
\* three bursts of one, and one message too long for a short int.
ForTwoRuns     == {Line(1, -1, 1), Line(1, 3, 0), Line(3, 1, 1), Line(1, 1, 4)}
=============================================================================
