---------------------------- MODULE BufferProbe ----------------------------
(***************************************************************************)
(* Client, server and network together: the buffer probe of                *)
(* hw2/bufferprobe2.  The modules ProbeClient and ProbeServer share only   *)
(* the channel; a step of one leaves the variables of the other alone.     *)
(***************************************************************************)
EXTENDS ProbeClient, ProbeServer

CONSTANT MaxErrors   \* bound on the ERROR messages a peer sends

ASSUME PeerAssumption == MaxErrors \in Nat

VARIABLE errors      \* history: ERROR messages sent so far

vars == <<channelVars, clientVars, serverVars, errors>>

Init == ChannelInit /\ ClientInit /\ ServerInit /\ errors = 0

ClientMoves == ClientNext /\ UNCHANGED <<serverVars, errors>>

ServerMoves == ServerNext /\ UNCHANGED <<clientVars, errors>>

NetworkMoves ==
    (DropToServer \/ DropToClient) /\ UNCHANGED <<clientVars, serverVars, errors>>

\* The protocol has an ERROR message the server obeys and neither program of
\* the repository sends; some other peer may.
PeerSendsError ==
    /\ errors < MaxErrors
    /\ errors' = errors + 1
    /\ toServer' = Append(toServer, Message("ERROR", run, 0, 0, 0))
    /\ UNCHANGED <<toClient, lost, duplicates, clientVars, serverVars>>

Next == ClientMoves \/ ServerMoves \/ NetworkMoves \/ PeerSendsError

Spec == Init /\ [][Next]_vars

\* A started client keeps executing, a running server keeps handling what
\* arrives, and a closed port keeps discarding.  Users and the network are
\* under no obligation.
Fairness ==
    /\ WF_vars(ClientStep /\ UNCHANGED <<serverVars, errors>>)
    /\ WF_vars(ServerHandles /\ UNCHANGED <<clientVars, errors>>)
    /\ WF_vars(ServerPortClosed /\ UNCHANGED <<clientVars, errors>>)

FairSpec == Spec /\ Fairness

-----------------------------------------------------------------------------
(* What holds of every network.                                            *)

TypeOK ==
    /\ ChannelTypeOK
    /\ ClientTypeOK
    /\ ServerTypeOK
    /\ errors \in 0..MaxErrors

\* The server follows a null testdata pointer only if it lost its test
\* behind the client's back: it was started again, or obeyed an ERROR.  The
\* handshake guarantees it otherwise, whatever the network does to the
\* datagrams: no PROBE or COMPLETE is sent before a BEGIN was handled.
NullDerefExplained ==
    "null" \in ub => restarts + errors > 0

\* The inductive strengthening, by what it is about.
Types(q) == {q[i].type : i \in 1..Len(q)}

\* While the server that answers has no test, no BEGIN was handled yet: only
\* BEGINs are under way and nothing comes back.
NoTestYet ==
    (srv = "running" /\ testdata # "object")
        => /\ Types(toServer) \subseteq {"BEGIN"}
           /\ toClient = <<>>
           /\ phase \in {"idle", "begin", "failed"}

HandshakeInv ==
    restarts + errors = 0
        => /\ "null" \notin ub
           /\ "ERROR" \notin Types(toServer)
           /\ NoTestYet

\* In a single run everything that speaks of the number of bursts agrees.
BurstNumbersAgree ==
    /\ \A i \in 1..Len(toServer) :
          /\ toServer[i].type = "BEGIN" => toServer[i].burst_num = params.num_bursts
          /\ toServer[i].type = "PROBE" => toServer[i].burst_num < params.num_bursts
    /\ testdata = "object" => Len(bursts) = params.num_bursts
    /\ phase = "burst" => burst_num < params.num_bursts

NothingBeforeTheFirstRun ==
    run = 0 => /\ phase = "idle"
               /\ testdata # "object"
               /\ Types(toServer) \subseteq {"ERROR"}

BurstNumbersInv ==
    run <= 1
        => /\ "index" \notin ub
           /\ BurstNumbersAgree
           /\ NothingBeforeTheFirstRun

\* One run of client and server is a session as ProbeSession describes it,
\* whatever the network loses, reorders and duplicates.
Session == INSTANCE ProbeSession WITH
    status    <- IF phase \in {"idle", "reported", "failed"} THEN phase ELSE "running",
    announced <- params.num_bursts

ImplementsSession == Session!Spec

-----------------------------------------------------------------------------
(* What holds when the network keeps the order of the datagrams and does   *)
(* not duplicate them (it may drop and delay them as it likes).  What the  *)
(* server recorded is only kept, and printed, if nobody stops it.          *)

\* The entries the server holds, over all bursts.
Recorded ==
    UNION {{[burst |-> b, seq_num |-> e.seq_num, run |-> e.run] : e \in bursts[b].probes} :
           b \in DOMAIN bursts}

\* A BEGIN that was sent again after a timeout never wipes probes of its own
\* run: the server records no probe of a run before the last BEGIN of it.
RecordedKept ==
    [][(/\ srv = "running" /\ srv' = "running"
        /\ restarts' = restarts
        /\ run' = run
        /\ errors = 0)
       => {e \in Recorded : e.run = run} \subseteq Recorded']_vars

\* A probe indexes _bursts past its end only after some run took the
\* BEGIN_ACK of an earlier one for its own: its BEGIN may then be lost, and its
\* probes meet the vector of the earlier test.  A run that was answered itself
\* is safe, however many late probes of other tests are still in flight.
IndexExplained ==
    "index" \in ub => misled

\* An unexpected datagram ends a run only if it is a late one: it answers an
\* earlier run or an earlier try, or the run reached its second handshake
\* through the BEGIN_ACK of another, and its own may still come.
RejectedIsLate ==
    [][(waiting /\ phase' = "failed")
       => LET m == Head(toClient)
          IN  \/ m.run < run
              \/ m.seq_num < tries
              \/ phase = "complete" /\ beginRun # run]_vars

\* The report the results of this run's bursts call for, had the server seen
\* exactly the probes the network did not drop.
ExpectedReport ==
    [b \in 1..params.num_bursts |->
        LET arrived == {m \in sent \ lost : m.burst_num = b - 1 /\ ~QueueDrops(m.seq_num)}
        IN  Summary(IF arrived = {} THEN 0 ELSE (CHOOSE m \in arrived : TRUE).burst_len,
                    {m.seq_num : m \in arrived})]

\* What the client prints is the real loss: if both acknowledgements it
\* accepted answer its own messages, the counts of every burst are those of
\* the probes that were not dropped.  (A burst of which nothing arrived is
\* reported as 0 of 0: the server only learns a length from a probe.)
MeasuredLossIsRealLoss ==
    (phase = "reported" /\ beginRun = run /\ reportRun = run)
        => report = ExpectedReport

-----------------------------------------------------------------------------
(* What holds when, in addition, answers arrive within the second.         *)

\* A run fails only after the network dropped a datagram of each of its
\* MAX_RETRIES tries, or because the server or a send call died.
FailureNeedsLosses ==
    (phase = "failed" /\ srv = "running" /\ restarts = 0 /\ ~SendFailures)
        => \E handshake \in {BeginHandshake, CompleteHandshake} :
               Cardinality(DroppedIn(handshake)) >= MaxRetries

\* Every run comes to an end: the retries are bounded, and so are the bursts.
RunEnds == Alive ~> ~Alive

\* Every run prints its report, unless the server goes down or one handshake
\* loses as many datagrams as there are tries.
RunReports ==
    Alive ~> \/ phase = "reported"
             \/ srv # "running"
             \/ \E handshake \in {BeginHandshake, CompleteHandshake} :
                    Cardinality(DroppedIn(handshake)) >= MaxRetries

-----------------------------------------------------------------------------
(* What the command line promises.                                         *)

\* The results of a test of a length the client accepts fit in the reply.
ReplyFits == "reply" \notin ub
=============================================================================
