---------------------------- MODULE ProbeSession ----------------------------
(***************************************************************************)
(* What the buffer probe promises to its user, with no network and no      *)
(* server in it: probes are sent, and the session ends with an error or    *)
(* with a report.  The report has one line per announced burst, and every  *)
(* line is the exact summary of some probes of that burst that were really *)
(* sent.  Which of them arrived is the network's choice.                   *)
(***************************************************************************)
EXTENDS TestData

VARIABLES
    status,     \* where the session is
    announced,  \* number of bursts the user asked for
    sent,       \* the probes sent so far
    report      \* the results printed

sessionVars == <<status, announced, sent, report>>

Init ==
    /\ status = "idle"
    /\ announced = 0
    /\ sent = {}
    /\ report = <<>>

Open ==
    /\ status = "idle"
    /\ status' = "running"
    /\ announced' \in Nat \ {0}
    /\ UNCHANGED <<sent, report>>

InBurst(probes, b) == {m \in probes : m.burst_num = b}

\* Bursts are sent one after the other, the probes of a burst in the order of
\* their numbers, all announcing the same length.
Send ==
    /\ status = "running"
    /\ \E m \in sent' :
          /\ sent' = sent \cup {m}
          /\ m.type = "PROBE"
          /\ m.burst_num < announced
          /\ m.seq_num < m.burst_len
          /\ m.seq_num = Cardinality(InBurst(sent, m.burst_num))
          /\ \A p \in sent : p.burst_num <= m.burst_num
          /\ \A p \in InBurst(sent, m.burst_num) : p.burst_len = m.burst_len
    /\ UNCHANGED <<status, announced, report>>

\* The line for a burst of which the given probes arrived: their length and
\* the counts, or nothing at all when none arrived.
LineFor(arrived) ==
    Summary(IF arrived = {} THEN 0 ELSE (CHOOSE m \in arrived : TRUE).burst_len,
            {m.seq_num : m \in arrived})

Report ==
    /\ status = "running"
    /\ status' = "reported"
    /\ \E arrived \in SUBSET sent :
          report' = [b \in 1..announced |-> LineFor(InBurst(arrived, b - 1))]
    /\ UNCHANGED <<announced, sent>>

Fail ==
    /\ status = "running"
    /\ status' = "failed"
    /\ UNCHANGED <<announced, sent, report>>

Next == Open \/ Send \/ Report \/ Fail

Spec == Init /\ [][Next]_sessionVars
=============================================================================
