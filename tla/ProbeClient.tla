---------------------------- MODULE ProbeClient ----------------------------
(***************************************************************************)
(* The probing client: hw2/bufferprobe2/client.cpp and burst.h.  A run of  *)
(* the program is a handshake (BEGIN), the bursts of probes, a second      *)
(* handshake (COMPLETE) and the report it prints; runs follow each other   *)
(* on the same ports, as in a session at the shell.                        *)
(*                                                                         *)
(* Each handshake is the same loop: send the control message with the try  *)
(* number, wait up to a second, and on a timeout try again, at most        *)
(* Socket::MAX_RETRIES times.                                              *)
(***************************************************************************)
EXTENDS UdpChannel

CONSTANTS
    Params,        \* the command lines a user may choose from
    MaxRetries,    \* Socket::MAX_RETRIES (9 in the code)
    MaxRuns,       \* bound on the number of client runs
    IntMax,        \* INT_MAX of the build (2^31-1 in the code)
    Timely         \* replies arrive within the second the client waits

\* The ranges are those the Parameter objects of main enforce.
ParamsType ==
    [num_bursts : Nat \ {0}, burst_len : Nat \ {0},
     multiplier : [num : Nat, den : Nat \ {0}]]

ASSUME ClientAssumption ==
    /\ Params \subseteq ParamsType
    /\ \A p \in Params : p.burst_len <= IntMax
    /\ MaxRetries \in Nat
    /\ MaxRuns \in Nat
    /\ IntMax \in Nat
    /\ Timely \in BOOLEAN

VARIABLES
    run,        \* number of the current run (history)
    params,     \* the parameters of the run
    phase,      \* where main is
    tries,      \* control messages sent in the current handshake
    waiting,    \* main is inside Socket::receive
    stop,       \* SIGINT was caught
    burst_len,  \* length of the next burst
    burst_num,  \* number of the next burst
    seq_num,    \* number of the next probe in Burst::send
    report,     \* the results the run printed
    sent,       \* history: the probes of this run
    beginRun,   \* history: the run whose BEGIN the accepted BEGIN_ACK answers
    reportRun,  \* history: the run whose COMPLETE the accepted COMPLETE_ACK answers
    misled      \* history: a run accepted the BEGIN_ACK of another run

clientVars == <<run, params, phase, tries, waiting, stop, burst_len, burst_num,
                seq_num, report, sent, beginRun, reportRun, misled>>

Phases == {"idle", "begin", "loop", "burst", "complete", "reported", "failed"}

NoParams == [num_bursts |-> 0, burst_len |-> 0, multiplier |-> [num |-> 0, den |-> 1]]

ClientTypeOK ==
    /\ run \in 0..MaxRuns
    /\ params \in Params \cup {NoParams}
    /\ phase \in Phases
    /\ tries \in 0..MaxRetries
    /\ waiting \in BOOLEAN
    /\ stop \in BOOLEAN
    /\ burst_len \in -(IntMax + 1) .. IntMax
    /\ burst_num \in Nat
    /\ seq_num \in Nat
    /\ report \in Seq(BurstResultType)
    /\ sent \subseteq MessageType
    /\ beginRun \in Nat
    /\ reportRun \in Nat
    /\ misled \in BOOLEAN

ClientInit ==
    /\ run = 0
    /\ params = NoParams
    /\ phase = "idle"
    /\ tries = 0
    /\ waiting = FALSE
    /\ stop = FALSE
    /\ burst_len = 0
    /\ burst_num = 0
    /\ seq_num = 0
    /\ report = <<>>
    /\ sent = {}
    /\ beginRun = 0
    /\ reportRun = 0
    /\ misled = FALSE

Alive == phase \in {"begin", "loop", "burst", "complete"}

\* int to unsigned int, as htonl and Burst's constructor convert it.
AsUnsigned(x) == IF x >= 0 THEN x ELSE x + 2 * (IntMax + 1)

\* burst_len += burst_len * multiplier: the sum is a float, truncated back to
\* int; out of range it becomes INT_MIN, which is what x86 stores.
Grow(len, multiplier) ==
    LET sum == len + (len * multiplier.num) \div multiplier.den
    IN  IF sum \in -(IntMax + 1) .. IntMax THEN sum ELSE -(IntMax + 1)

\* The control message of the current handshake on its n-th try.
controlMessage(n) ==
    Message(IF phase = "begin" THEN "BEGIN" ELSE "COMPLETE", run,
            params.num_bursts, n, AsUnsigned(burst_len))

\* The client is started: parameters are read, the port is bound.
ClientStart ==
    /\ ~Alive
    /\ run < MaxRuns
    /\ \E p \in Params :
          /\ params' = p
          /\ burst_len' = p.burst_len
    /\ run' = run + 1
    /\ phase' = "begin"
    /\ tries' = 0
    /\ waiting' = FALSE
    /\ stop' = FALSE
    /\ burst_num' = 0
    /\ seq_num' = 0
    /\ report' = <<>>
    /\ sent' = {}
    /\ beginRun' = 0
    /\ reportRun' = 0
    /\ lost' = {}
    /\ UNCHANGED <<misled, toServer, toClient, duplicates>>

\* for (int i = 0; i < Socket::MAX_RETRIES; i++), and two wrong loops: one with
\* <= for <, and one that counts the first message as a retry.
MayTry_Inclusive == tries <= MaxRetries
MayTry_OneShort  == tries + 1 < MaxRetries
MayTry == tries < MaxRetries

\* An iteration of a retry loop sends the control message and starts to wait.
SendControl ==
    /\ phase \in {"begin", "complete"}
    /\ ~waiting
    /\ MayTry
    /\ tries' = tries + 1
    /\ waiting' = TRUE
    /\ toServer' = Append(toServer, controlMessage(tries + 1))
    /\ UNCHANGED <<run, params, phase, stop, burst_len, burst_num, seq_num, report,
                   sent, beginRun, reportRun, misled, toClient, lost, duplicates>>

\* A receive without a timeout: receive(message, 0).
ReceiveTimeout_Never == FALSE

\* The second is over: the receive returns an empty message and the loop
\* goes on.  With Timely it never ends while an answer may still come.
ReceiveTimeout ==
    /\ waiting
    /\ Timely => toServer = <<>> /\ toClient = <<>>
    /\ waiting' = FALSE
    /\ UNCHANGED <<run, params, phase, tries, stop, burst_len, burst_num, seq_num,
                   report, sent, beginRun, reportRun, misled, channelVars>>

\* Without the test of gotResponse after the first loop.
GiveUp_GoesOn ==
    /\ phase \in {"begin", "complete"}
    /\ ~waiting
    /\ ~MayTry
    /\ phase' = IF phase = "begin" THEN "loop" ELSE "failed"
    /\ UNCHANGED <<run, params, tries, waiting, stop, burst_len, burst_num, seq_num,
                   report, sent, beginRun, reportRun, misled, channelVars>>

\* All tries are used up: main throws and the program ends.
GiveUp ==
    /\ phase \in {"begin", "complete"}
    /\ ~waiting
    /\ ~MayTry
    /\ phase' = "failed"
    /\ UNCHANGED <<run, params, tries, waiting, stop, burst_len, burst_num, seq_num,
                   report, sent, beginRun, reportRun, misled, channelVars>>

\* The client takes the i-th datagram in flight.
ClientReceives(i) ==
    /\ waiting
    /\ Arrive(toClient, i, toClient')
    /\ waiting' = FALSE
    /\ UNCHANGED <<run, params, tries, stop, burst_len, burst_num, seq_num, sent,
                   toServer, lost>>

\* The expected acknowledgement of BEGIN: on to the bursts.
ReceiveBeginAck ==
    \E i \in 1..Len(toClient) :
        /\ phase = "begin"
        /\ ClientReceives(i)
        /\ isResponsePair(controlMessage(tries), toClient[i])
        /\ phase' = "loop"
        /\ beginRun' = toClient[i].run
        /\ misled' = (misled \/ toClient[i].run # run)
        /\ UNCHANGED <<report, reportRun>>

\* The expected acknowledgement of COMPLETE: its results are printed.
ReceiveCompleteAck ==
    \E i \in 1..Len(toClient) :
        /\ phase = "complete"
        /\ ClientReceives(i)
        /\ isResponsePair(controlMessage(tries), toClient[i])
        /\ phase' = "reported"
        /\ report' = toClient[i].results
        /\ reportRun' = toClient[i].run
        /\ UNCHANGED <<beginRun, misled>>

\* Any other datagram: "Got an unexpected response", main throws.
ReceiveUnexpected ==
    \E i \in 1..Len(toClient) :
        /\ phase \in {"begin", "complete"}
        /\ ClientReceives(i)
        /\ ~isResponsePair(controlMessage(tries), toClient[i])
        /\ phase' = "failed"
        /\ UNCHANGED <<report, beginRun, reportRun, misled>>

\* burst_num < num_bursts.value(), and the same with <=.
BurstsLeft_OneMore == burst_num <= params.num_bursts
BurstsLeft == burst_num < params.num_bursts

\* The loop over the bursts: its condition is tested between bursts only.
StartBurst ==
    /\ phase = "loop"
    /\ ~stop
    /\ BurstsLeft
    /\ phase' = "burst"
    /\ seq_num' = 0
    /\ UNCHANGED <<run, params, tries, waiting, stop, burst_len, burst_num, report,
                   sent, beginRun, reportRun, misled, channelVars>>

\* Burst::send puts one probe on the wire.
SendProbe ==
    LET probe == Message("PROBE", run, burst_num, seq_num, AsUnsigned(burst_len)) IN
    /\ phase = "burst"
    /\ seq_num < AsUnsigned(burst_len)
    /\ seq_num' = seq_num + 1
    /\ sent' = sent \cup {probe}
    /\ toServer' = Append(toServer, probe)
    /\ UNCHANGED <<run, params, phase, tries, waiting, stop, burst_len, burst_num,
                   report, beginRun, reportRun, misled, toClient, lost, duplicates>>

\* sendto fails or sends short: the exception ends the program.
ClientSendFails ==
    /\ SendFailures
    /\ \/ phase \in {"begin", "complete"} /\ ~waiting /\ MayTry
       \/ phase = "burst" /\ seq_num < AsUnsigned(burst_len)
    /\ phase' = "failed"
    /\ UNCHANGED <<run, params, tries, waiting, stop, burst_len, burst_num, seq_num,
                   report, sent, beginRun, reportRun, misled, channelVars>>

\* The burst is out: the length grows, the client sleeps (usleep) and loops.
EndBurst ==
    /\ phase = "burst"
    /\ seq_num = AsUnsigned(burst_len)
    /\ phase' = "loop"
    /\ burst_num' = burst_num + 1
    /\ burst_len' = Grow(burst_len, params.multiplier)
    /\ UNCHANGED <<run, params, tries, waiting, stop, seq_num, report, sent,
                   beginRun, reportRun, misled, channelVars>>

\* No more bursts, or SIGINT: on to the second handshake.
EndBursts ==
    /\ phase = "loop"
    /\ stop \/ ~BurstsLeft
    /\ phase' = "complete"
    /\ tries' = 0
    /\ UNCHANGED <<run, params, waiting, stop, burst_len, burst_num, seq_num, report,
                   sent, beginRun, reportRun, misled, channelVars>>

\* SIGINT sets the flag.  signal() restarts the interrupted system calls, so
\* a receive under way goes on.
Interrupt ==
    /\ Alive
    /\ ~stop
    /\ stop' = TRUE
    /\ UNCHANGED <<run, params, phase, tries, waiting, burst_len, burst_num, seq_num,
                   report, sent, beginRun, reportRun, misled, channelVars>>

\* No socket is bound to the client's port: what arrives there is discarded.
ClientPortClosed ==
    /\ ~Alive
    /\ \E i \in Deliverable(toClient) : toClient' = Without(toClient, i)
    /\ UNCHANGED <<toServer, lost, duplicates, clientVars>>

\* What the program does by itself once started.
ClientStep ==
    \/ SendControl \/ ReceiveTimeout \/ GiveUp \/ ClientSendFails
    \/ ReceiveBeginAck \/ ReceiveCompleteAck \/ ReceiveUnexpected
    \/ StartBurst \/ SendProbe \/ EndBurst \/ EndBursts

ClientNext == ClientStep \/ ClientStart \/ Interrupt \/ ClientPortClosed
=============================================================================
