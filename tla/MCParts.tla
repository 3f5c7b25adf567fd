------------------------------ MODULE MCParts ------------------------------
(***************************************************************************)
(* The parts of the programs that keep to themselves, checked side by      *)
(* side: the analysis of one burst, the map, and the constant bit rate     *)
(* tools.  A behaviour is one of one of them, while the others rest.       *)
(***************************************************************************)
EXTENDS BurstAnalysis, LinkedMap, BitRate

VARIABLE part       \* the one this behaviour is of

\* Another burst whose two messages came at different times, one of which a
\* single message came, and one that lost a message in the middle.
FoundElsewhere ==
    {[num_received |-> 2, time_overall |-> 1, time_shortest |-> 1,
      capacity |-> 2, time_diff |-> 1],
     [num_received |-> 1, time_overall |-> 0, time_shortest |-> 0,
      capacity |-> 1, time_diff |-> 0],
     [num_received |-> 3, time_overall |-> 4, time_shortest |-> 1,
      capacity |-> 2, time_diff |-> 3]}

PartsInit ==
    /\ part \in {"burst", "map", "rate"}
    /\ AnalysisInit
    /\ MapInit
    /\ RateInit

Burst ==
    /\ part = "burst"
    /\ AnalysisNext
    /\ UNCHANGED <<part, mapVars, rateVars>>

Map ==
    /\ part = "map"
    /\ MapNext
    /\ UNCHANGED <<part, allVars, rateVars>>

Rate ==
    /\ part = "rate"
    /\ RateNext
    /\ UNCHANGED <<part, allVars, mapVars>>

PartsNext == Burst \/ Map \/ Rate

PartsSpec == PartsInit /\ [][PartsNext]_<<part, allVars, mapVars, rateVars>>

\* The types of all three.
PartsTypeOK == TypeOK /\ AnalysisTypeOK /\ MapTypeOK /\ RateTypeOK
=============================================================================
