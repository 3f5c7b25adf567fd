---------------------------- MODULE ProbeServer ----------------------------
(***************************************************************************)
(* The measuring server: hw2/bufferprobe2/server.cpp.  One action per case *)
(* of the switch in its receive loop, one for what ends the loop, one for  *)
(* starting the program.  recvfrom, the handler and the reply are one      *)
(* step: the server has one thread and nothing else sees its variables.    *)
(* A receive that times out only returns to the loop and is a stutter.     *)
(*                                                                         *)
(* The local pointer "testdata" of main is not initialised.  What it holds *)
(* is in "testdata", the TestData object it points to in "bursts".         *)
(*                                                                         *)
(* A handler whose C++ is undefined in the current state adds the kind of  *)
(* fault to the history "ub".  Outcomes: the process dies (ServerCrash),   *)
(* or the handler carries on where the build can.                          *)
(***************************************************************************)
EXTENDS TestData, UdpChannel

CONSTANTS
    TestMode,        \* 1: simulate a full queue, any other value: off
    TestQueueLen,    \* capacity of that simulated queue
    ReplyCapacity,   \* BurstResults that fit in Message::MAX_PAYLOAD (909 in the code)
    MaxRestarts      \* bound on how often the server is started again

ASSUME ServerAssumption ==
    /\ TestMode \in Nat
    /\ TestQueueLen \in Nat
    /\ ReplyCapacity \in Nat
    /\ MaxRestarts \in Nat

VARIABLES
    srv,        \* state of the process
    testdata,   \* what the pointer testdata holds
    bursts,     \* the object it points to, <<>> when there is none
    ub,         \* history: the kinds of undefined behaviour executed so far
    restarts    \* history: how often the server was started again

serverVars == <<srv, testdata, bursts, ub, restarts>>

Faults == {"null", "wild", "index", "reply"}

ServerTypeOK ==
    /\ srv \in {"running", "stopped", "crashed"}
    /\ testdata \in {"null", "wild", "object"}
    /\ bursts \in Seq(BurstDataType)
    /\ ub \subseteq Faults
    /\ restarts \in 0..MaxRestarts

ServerInit ==
    /\ srv = "running"
    /\ testdata \in {"null", "wild"}
    /\ bursts = <<>>
    /\ ub = {}
    /\ restarts = 0

\* The simulated queue drops the probes past its capacity.
QueueDrops(seq_num) == TestMode = 1 /\ seq_num >= TestQueueLen

\* The handler of m follows the pointer, or frees what it points to.
Dereferences(m) ==
    \/ m.type = "COMPLETE"
    \/ m.type = "PROBE" /\ ~QueueDrops(m.seq_num)
Frees(m) == m.type \in {"BEGIN", "ERROR"}

\* The undefined behaviour the handler of m runs into: following a null
\* pointer, using an uninitialised one, indexing _bursts past its end, and
\* serialising more results than the message buffer holds.
FaultsOf(m) ==
    {f \in Faults :
        \/ f = "null"  /\ testdata = "null" /\ Dereferences(m)
        \/ f = "wild"  /\ testdata = "wild" /\ (Dereferences(m) \/ Frees(m))
        \/ f = "index" /\ testdata = "object" /\ m.type = "PROBE"
                       /\ ~QueueDrops(m.seq_num) /\ m.burst_num >= Len(bursts)
        \/ f = "reply" /\ testdata = "object" /\ m.type = "COMPLETE"
                       /\ Len(bursts) > ReplyCapacity}

\* The server takes the i-th datagram in flight.
Receives(i) ==
    /\ srv = "running"
    /\ Arrive(toServer, i, toServer')
    /\ ub' = ub \cup FaultsOf(toServer[i])
    /\ UNCHANGED <<lost, restarts>>

\* The process ends; its memory is gone.
ProcessEnds(how) ==
    /\ srv' = how
    /\ testdata' = "null"
    /\ bursts' = <<>>

Reply(m) == toClient' = Append(toClient, m)

\* A server that makes an object only when it has none.
ServerBegin_KeepsOld ==
    \E i \in 1..Len(toServer) :
        LET m == toServer[i] IN
        /\ m.type = "BEGIN"
        /\ Receives(i)
        /\ testdata' = "object"
        /\ bursts' = IF bursts = <<>> THEN NewTestData(m.burst_num) ELSE bursts
        /\ Reply([m EXCEPT !.type = "BEGIN_ACK"])
        /\ UNCHANGED srv

\* case BEGIN: a new, empty TestData replaces the old one, then the ack.
ServerBegin ==
    \E i \in 1..Len(toServer) :
        LET m == toServer[i] IN
        /\ m.type = "BEGIN"
        /\ Receives(i)
        /\ testdata' = "object"
        /\ bursts' = NewTestData(m.burst_num)
        /\ Reply([m EXCEPT !.type = "BEGIN_ACK"])
        /\ UNCHANGED srv

\* case PROBE, dropped by the simulated queue.
ServerProbeDropped ==
    \E i \in 1..Len(toServer) :
        /\ toServer[i].type = "PROBE"
        /\ QueueDrops(toServer[i].seq_num)
        /\ Receives(i)
        /\ UNCHANGED <<srv, testdata, bursts, toClient>>

\* case PROBE, recorded.  A record that lands outside the vector, or in
\* whatever an uninitialised pointer points to, leaves the object as it was.
ServerProbe ==
    \E i \in 1..Len(toServer) :
        LET m == toServer[i]
            b == m.burst_num + 1
        IN  /\ m.type = "PROBE"
            /\ ~QueueDrops(m.seq_num)
            /\ testdata # "null"
            /\ Receives(i)
            /\ bursts' = IF b \in DOMAIN bursts
                         THEN [bursts EXCEPT ![b] = AddProbe(@, m)]
                         ELSE bursts
            /\ UNCHANGED <<srv, testdata, toClient>>

\* A server that deletes the object once it has answered.
ServerComplete_Deletes ==
    \E i \in 1..Len(toServer) :
        LET m == toServer[i] IN
        /\ m.type = "COMPLETE"
        /\ testdata # "null"
        /\ Receives(i)
        /\ Reply([m EXCEPT !.type = "COMPLETE_ACK",
                           !.results = TestResults(bursts)])
        /\ testdata' = "null"
        /\ bursts' = <<>>
        /\ UNCHANGED srv

\* case COMPLETE: the results are computed from the object, which stays, and
\* sent back in the acknowledgement.  (An uninitialised pointer that is read
\* without a crash yields a vector of some length; the empty one stands for it.)
ServerComplete ==
    \E i \in 1..Len(toServer) :
        LET m == toServer[i] IN
        /\ m.type = "COMPLETE"
        /\ testdata # "null"
        /\ Len(bursts) <= ReplyCapacity
        /\ Receives(i)
        /\ Reply([m EXCEPT !.type = "COMPLETE_ACK",
                           !.results = TestResults(bursts)])
        /\ UNCHANGED <<srv, testdata, bursts>>

\* case ERROR: the object is deleted and the pointer cleared.
ServerError ==
    \E i \in 1..Len(toServer) :
        /\ toServer[i].type = "ERROR"
        /\ Receives(i)
        /\ testdata' = "null"
        /\ bursts' = <<>>
        /\ UNCHANGED <<srv, toClient>>

\* Undefined behaviour kills the process while it handles a datagram.
ServerCrash ==
    \E i \in 1..Len(toServer) :
        /\ FaultsOf(toServer[i]) # {}
        /\ Receives(i)
        /\ ProcessEnds("crashed")
        /\ UNCHANGED toClient

\* sendto fails or sends short (always for a reply that does not fit in a
\* datagram): the exception leaves the loop and main returns.
ServerSendFails ==
    \E i \in 1..Len(toServer) :
        LET m == toServer[i] IN
        /\ m.type \in RequestTypes
        /\ m.type = "COMPLETE" => testdata # "null"
        /\ SendFailures \/ (m.type = "COMPLETE" /\ Len(bursts) > ReplyCapacity)
        /\ Receives(i)
        /\ ProcessEnds("stopped")
        /\ UNCHANGED toClient

\* SIGINT: the loop ends after the pending receive; main prints the results
\* of the object and deletes it, whatever the pointer holds.
ServerStop ==
    /\ srv = "running"
    /\ IF testdata = "wild"
       THEN ub' = ub \cup {"wild"} /\ (ProcessEnds("stopped") \/ ProcessEnds("crashed"))
       ELSE ub' = ub /\ ProcessEnds("stopped")
    /\ UNCHANGED <<channelVars, restarts>>

\* The server is started again on the same port.
ServerRestart ==
    /\ srv # "running"
    /\ restarts < MaxRestarts
    /\ srv' = "running"
    /\ testdata' \in {"null", "wild"}
    /\ bursts' = <<>>
    /\ restarts' = restarts + 1
    /\ UNCHANGED <<channelVars, ub>>

\* No socket is bound to the server's port: what arrives there is discarded.
ServerPortClosed ==
    /\ srv # "running"
    /\ \E i \in Deliverable(toServer) :
          /\ toServer' = Without(toServer, i)
          /\ lost' = lost \cup {toServer[i]}
    /\ UNCHANGED <<toClient, duplicates, serverVars>>

ServerHandles ==
    \/ ServerBegin \/ ServerProbeDropped \/ ServerProbe \/ ServerComplete
    \/ ServerError \/ ServerCrash \/ ServerSendFails

ServerNext == ServerHandles \/ ServerStop \/ ServerRestart \/ ServerPortClosed
=============================================================================
