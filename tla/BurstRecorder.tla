--------------------------- MODULE BurstRecorder ---------------------------
(***************************************************************************)
(* The first version of the buffer probe: hw1/bufferprobe (jittertool is a *)
(* copy of it).  The client announces nothing and waits for nothing: it    *)
(* sends the bursts and ends; another client may follow.  The server       *)
(* stores what arrives in a vector of bursts, each with a vector of        *)
(* messages, until Ctrl-C; then it analyses every burst and frees all.     *)
(*                                                                         *)
(* The burst_data_t's malloc returns are the entries of "heap"; a pointer  *)
(* to one is its index there.  A message_data_t is the probe it was made   *)
(* from.  Arrival times and the bandwidth computed from them are left out. *)
(***************************************************************************)
EXTENDS SparseVector, SequencesExt

CONSTANTS
    Params,          \* the client's command lines: a burst_len of -1 is none given
    DefaultLen,      \* burst_len without the argument (100 in the code)
    TestMode,        \* test_mode of the server's command line
    TestQueueLen,    \* test_queue_len of the server's command line
    HeaderLen,       \* sizeof(burst_protocol_header_t) (20 in the code)
    ShortMax,        \* SHRT_MAX of the build (2^15-1 in the code)
    FrameLen,        \* bytes of a message that fit a frame (1472 in the code)
    FrameOverhead,   \* bytes a frame adds on the wire (42 in the code)
    Reordering,      \* the network may deliver any probe next, not only the oldest
    MaxInFlight,     \* bound on the probes the network holds; it drops the others
    MaxDuplicates,   \* bound on the duplicates the network makes
    MaxRuns          \* bound on how many clients are started

ASSUME RecorderAssumption ==
    /\ Params \subseteq [num_bursts : Nat \ {0}, burst_len : Nat \cup {-1}, payload_len : Nat]
    /\ {DefaultLen, TestMode, TestQueueLen, FrameOverhead, ShortMax} \subseteq Nat
    /\ \A p \in Params : HeaderLen + p.payload_len <= 2 * ShortMax + 1
    /\ {MaxInFlight, MaxDuplicates, MaxRuns} \subseteq Nat
    /\ {HeaderLen, FrameLen} \subseteq Nat \ {0}
    /\ Reordering \in BOOLEAN
    /\ NULL \notin Nat
    /\ NULL \notin [run : Nat, burst_num : Nat, seq_num : Nat, burst_len : Nat, payload_len : Nat]

VARIABLES
    run,            \* history: number of the current client
    sender,         \* where the client's main is
    params,         \* its command line
    send_burst,     \* burst_num of the client
    burst_len,      \* burst_len of the client
    seq_num,        \* seq_num of the client
    stopping,       \* SIGINT was caught by the client

    wire,           \* probes in flight, oldest first
    duplicates,     \* history: duplicates made so far

    server,         \* where the server is
    burst_num,      \* burst_num of receive_packets: the burst bd belongs to
    bd,             \* its cached burst_data_t pointer
    vec,            \* burst_data_vector
    heap,           \* the burst_data_t's allocated so far
    analysed,       \* how far the loop of analyze_packets is
    report,         \* the lines printed
    received,       \* history: the probes receive_packets took for messages
    ub              \* history: kinds of undefined behaviour executed

senderVars == <<run, sender, params, send_burst, burst_len, seq_num, stopping>>
wireVars   == <<wire, duplicates>>
storeVars  == <<burst_num, bd, vec, heap, received>>
serverVars == <<server, storeVars, analysed, report, ub>>
vars       == <<senderVars, wireVars, serverVars>>

NoParams == [num_bursts |-> 0, burst_len |-> 0, payload_len |-> 0]

Init ==
    /\ run = 0
    /\ sender = "ended"
    /\ params = NoParams
    /\ send_burst = 0
    /\ burst_len = 0
    /\ seq_num = 0
    /\ stopping = FALSE
    /\ wire = <<>>
    /\ duplicates = 0
    /\ server = "receiving"
    /\ burst_num = 0
    /\ bd = NULL
    /\ vec = vector_init(0)
    /\ heap = <<>>
    /\ analysed = 0
    /\ report = {}
    /\ received = {}
    /\ ub = {}

-----------------------------------------------------------------------------
(* The client.                                                             *)

StartClient ==
    /\ sender = "ended"
    /\ run < MaxRuns
    /\ run' = run + 1
    /\ sender' = "loop"
    /\ \E p \in Params :
          /\ params' = p
          /\ burst_len' = IF p.burst_len = -1 THEN DefaultLen ELSE p.burst_len
    /\ send_burst' = 0
    /\ seq_num' = 0
    /\ stopping' = FALSE
    /\ UNCHANGED <<wireVars, serverVars>>

\* An iteration of the loop over the bursts; without a requested length the
\* length doubles.
StartBurst ==
    /\ sender = "loop"
    /\ ~stopping
    /\ send_burst < params.num_bursts
    /\ sender' = "burst"
    /\ seq_num' = 0
    /\ burst_len' = IF params.burst_len = -1 THEN 2 * burst_len ELSE burst_len
    /\ UNCHANGED <<run, params, send_burst, stopping, wireVars, serverVars>>

Probe ==
    [run |-> run, burst_num |-> send_burst, seq_num |-> seq_num,
     burst_len |-> burst_len, payload_len |-> params.payload_len]

\* sendto; the network may drop the probe at once.
SendMessage ==
    /\ sender = "burst"
    /\ seq_num < burst_len
    /\ seq_num' = seq_num + 1
    /\ \/ wire' = wire
       \/ Len(wire) < MaxInFlight /\ wire' = Append(wire, Probe)
    /\ UNCHANGED <<run, sender, params, send_burst, burst_len, stopping, duplicates,
                   serverVars>>

\* sendto sent a different number of bytes than expected: the client exits.
SendFails ==
    /\ sender = "burst"
    /\ seq_num < burst_len
    /\ sender' = "ended"
    /\ UNCHANGED <<run, params, send_burst, burst_len, seq_num, stopping, wireVars,
                   serverVars>>

EndBurst ==
    /\ sender = "burst"
    /\ seq_num = burst_len
    /\ sender' = "loop"
    /\ send_burst' = send_burst + 1
    /\ UNCHANGED <<run, params, burst_len, seq_num, stopping, wireVars, serverVars>>

EndSending ==
    /\ sender = "loop"
    /\ stopping \/ send_burst = params.num_bursts
    /\ sender' = "ended"
    /\ UNCHANGED <<run, params, send_burst, burst_len, seq_num, stopping, wireVars,
                   serverVars>>

InterruptSender ==
    /\ sender # "ended"
    /\ ~stopping
    /\ stopping' = TRUE
    /\ UNCHANGED <<run, sender, params, send_burst, burst_len, seq_num, wireVars,
                   serverVars>>

SenderNext ==
    \/ StartClient \/ StartBurst \/ SendMessage \/ SendFails
    \/ EndBurst \/ EndSending \/ InterruptSender

-----------------------------------------------------------------------------
(* The server.                                                             *)

\* The next probe to arrive is the oldest, or with Reordering any; a
\* duplicate of it may stay in flight.
Arrives(i) ==
    /\ Reordering \/ i = 1
    /\ \/ wire' = RemoveAt(wire, i) /\ UNCHANGED duplicates
       \/ /\ duplicates < MaxDuplicates
          /\ wire' = wire
          /\ duplicates' = duplicates + 1

\* The cached pointer used whatever the burst number is.
Lookup_Stale(m) == bd

\* The burst_data_t the header names: the cached one while the burst number
\* does not change, else the one in the vector.
Lookup(m) == IF m.burst_num = burst_num THEN bd ELSE vector_get(vec, m.burst_num)

\* The length read as that of the last number.
NewBurstData_OneShort(m) ==
    [burst_len |-> m.burst_len - 1, messages |-> vector_init(m.burst_len)]

NewBurstData(m) == [burst_len |-> m.burst_len, messages |-> vector_init(m.burst_len)]

\* Whether message_len, a short int, is positive.  No datagram is long enough
\* for it to wrap around to that again.
Usable(m) == HeaderLen + m.payload_len <= ShortMax

\* One iteration of receive_packets that gets a message.  A write outside a
\* vector kills the process or corrupts memory nobody looks at.
ReceivePacket ==
    \E i \in 1..Len(wire) :
        LET m      == wire[i]
            known  == Lookup(m) # NULL
            p      == IF known THEN Lookup(m) ELSE Len(heap) + 1
            alloc  == IF known THEN heap ELSE Append(heap, NewBurstData(m))
            slots  == alloc[p].messages
            wild   == OutOfBounds(slots, m.seq_num) \/ (~known /\ OutOfBounds(vec, m.burst_num))
        IN  /\ server = "receiving"
            /\ Usable(m)
            /\ Arrives(i)
            /\ burst_num' = m.burst_num
            /\ bd' = p
            /\ vec' = IF known THEN vec ELSE vector_set(vec, m.burst_num, p)
            /\ heap' = [alloc EXCEPT ![p].messages = vector_set(slots, m.seq_num, m)]
            /\ received' = received \cup {m}
            /\ \/ ~wild /\ UNCHANGED <<ub, server>>
               \/ wild /\ ub' = ub \cup {"bounds"} /\ server' \in {"receiving", "crashed"}
            /\ UNCHANGED <<analysed, report, senderVars>>

\* One that gets a message whose length is no positive short int: it goes on
\* as if recvfrom had failed.
ReceiveTooLong ==
    \E i \in 1..Len(wire) :
        /\ server = "receiving"
        /\ ~Usable(wire[i])
        /\ Arrives(i)
        /\ UNCHANGED <<serverVars, senderVars>>

\* Ctrl-C: the receive loop ends, the socket is closed, the analysis begins.
StopReceiving ==
    /\ server = "receiving"
    /\ server' = "analysing"
    /\ UNCHANGED <<storeVars, analysed, report, ub, senderVars, wireVars>>

\* A loop that breaks one message early, at the one before the gap.
Stops_LooksAhead(slots, n) ==
    \/ n = slots.size
    \/ TestMode = 1 /\ n >= TestQueueLen
    \/ vector_get(slots, n + 1) = NULL

\* A simulated queue with room for one message more.
Stops_RoomForOneMore(slots, n) ==
    \/ n = slots.size
    \/ TestMode = 1 /\ n > TestQueueLen
    \/ vector_get(slots, n) = NULL

\* When the inner loop of analyze_packets ends, and after how many messages.
Stops(slots, n) ==
    \/ n = slots.size
    \/ TestMode = 1 /\ n >= TestQueueLen
    \/ vector_get(slots, n) = NULL

Capacity(slots) == CHOOSE n \in 0..slots.size :
                       Stops(slots, n) /\ \A k \in 0..(n - 1) : ~Stops(slots, k)

\* Bytes of a message on the wire.  The sum is the condition of the ?: of the
\* code, so that every message counts as one frame.
WireBytes(message_len) ==
    LET num_frames == IF (message_len \div FrameLen) + (message_len % FrameLen) # 0 THEN 1 ELSE 0
    IN  num_frames * FrameOverhead + message_len

LineOf(b, data) ==
    LET slots == data.messages IN
    [burst     |-> b,
     received  |-> Cardinality(Occupied(slots)),
     burst_len |-> data.burst_len,
     capacity  |-> Capacity(slots),
     bytes     |-> MapThenSumSet(LAMBDA n : WireBytes(HeaderLen + slots.data[n].payload_len),
                                 0..(Capacity(slots) - 1))]

\* An iteration of analyze_packets over a slot that holds no burst ...
SkipSlot ==
    /\ server = "analysing"
    /\ analysed < vec.size
    /\ vec.data[analysed] = NULL
    /\ analysed' = analysed + 1
    /\ UNCHANGED <<server, storeVars, report, ub, senderVars, wireVars>>

\* ... over a burst: its line is printed ...
AnalyseBurst ==
    /\ server = "analysing"
    /\ analysed < vec.size
    /\ vec.data[analysed] # NULL
    /\ LET data == heap[vec.data[analysed]] IN
          /\ Capacity(data.messages) > 0
          /\ report' = report \cup {LineOf(analysed, data)}
    /\ analysed' = analysed + 1
    /\ UNCHANGED <<server, storeVars, ub, senderVars, wireVars>>

\* ... and over a burst whose loop passes no message: earliest and latest are
\* null pointers, which the code follows.
AnalyseCrash ==
    /\ server = "analysing"
    /\ analysed < vec.size
    /\ vec.data[analysed] # NULL
    /\ Capacity(heap[vec.data[analysed]].messages) = 0
    /\ ub' = ub \cup {"null"}
    /\ server' = "crashed"
    /\ UNCHANGED <<storeVars, analysed, report, senderVars, wireVars>>

\* free_burst_data; the totals are printed and the server ends.
FreeBurstData ==
    /\ server = "analysing"
    /\ analysed = vec.size
    /\ server' = "ended"
    /\ vec' = vector_resize(vec, 0)
    /\ heap' = <<>>
    /\ bd' = NULL
    /\ UNCHANGED <<burst_num, received, analysed, report, ub, senderVars, wireVars>>

ServerNext ==
    \/ ReceivePacket \/ ReceiveTooLong \/ StopReceiving
    \/ SkipSlot \/ AnalyseBurst \/ AnalyseCrash \/ FreeBurstData

Next == SenderNext \/ ServerNext

Spec == Init /\ [][Next]_vars

-----------------------------------------------------------------------------
ProbeType ==
    [run : 0..MaxRuns, burst_num : Nat, seq_num : Nat, burst_len : Nat, payload_len : Nat]

IsVector(v, Element) ==
    v \in [size : Nat, data : [0..(v.size - 1) -> Element \cup {NULL}]]

TypeOK ==
    /\ run \in 0..MaxRuns
    /\ sender \in {"loop", "burst", "ended"}
    /\ params \in Params \cup {NoParams}
    /\ send_burst \in 0..params.num_bursts
    /\ burst_len \in Nat
    /\ seq_num \in 0..burst_len
    /\ stopping \in BOOLEAN
    /\ wire \in Seq(ProbeType)
    /\ duplicates \in 0..MaxDuplicates
    /\ server \in {"receiving", "analysing", "ended", "crashed"}
    /\ burst_num \in Nat
    /\ bd \in (1..Len(heap)) \cup {NULL}
    /\ IsVector(vec, 1..Len(heap))
    /\ \A p \in 1..Len(heap) :
          heap[p].burst_len \in Nat /\ IsVector(heap[p].messages, ProbeType)
    /\ analysed \in Nat
    /\ received \subseteq ProbeType
    /\ ub \subseteq {"bounds", "null"}

\* Every message is filed under the numbers in its header and stays there
\* until the analysis: the cached pointer never leads a message into another
\* burst, growing a vector loses nothing, and nothing is in the store that
\* did not arrive.  Only a write outside a vector spoils that.
StoreIsWhatArrived ==
    (server \in {"receiving", "analysing"} /\ "bounds" \notin ub)
        => /\ \A b \in Occupied(vec) : LET slots == heap[vec.data[b]].messages IN
                 \A s \in Occupied(slots) :
                     /\ slots.data[s] \in received
                     /\ slots.data[s].burst_num = b
                     /\ slots.data[s].seq_num = s
           /\ \A m \in received :
                 /\ m.burst_num \in Occupied(vec)
                 /\ m.seq_num \in Occupied(heap[vec.data[m.burst_num]].messages)

\* A write outside a vector happens only when the numbers jump: at least two
\* bursts before the one at hand have not been seen, or a probe of a longer
\* burst of another client arrives.
WildWriteExplained ==
    [][\A m \in received' \ received :
          ("bounds" \in ub' \ ub)
              => \/ Cardinality({b \in 0..(m.burst_num - 1) :
                                    \A q \in received : q.burst_num # b}) >= 2
                 \/ \E q \in received : /\ q.run # m.run
                                        /\ q.burst_num = m.burst_num
                                        /\ q.burst_len < m.burst_len]_vars

\* Analysing a burst fails only if its first message did not arrive, or the
\* simulated queue has no room at all.
AnalysisCrashExplained ==
    ("null" \in ub /\ "bounds" \notin ub)
        => \/ TestMode = 1 /\ TestQueueLen = 0
           \/ \E m \in received :
                 \A q \in received : q.burst_num = m.burst_num => q.seq_num # 0

\* The sequence numbers of a burst that arrived.
Arrived(b) == {m.seq_num : m \in {q \in received : q.burst_num = b}}

\* Frames a message really takes.
FramesOf(message_len) == (message_len + FrameLen - 1) \div FrameLen

\* The bytes on the wire of the first n messages of burst b, by FramesOf.
BytesOf(b, n) ==
    MapThenSumSet(LAMBDA k :
        LET m == CHOOSE q \in received : q.burst_num = b /\ q.seq_num = k
        IN  FramesOf(HeaderLen + m.payload_len) * FrameOverhead + HeaderLen + m.payload_len,
        0..(n - 1))

\* The line of a burst is its real loss: the messages that arrived, and the
\* number of the first that did not (or that the simulated queue refuses).
LinesAreRealLoss ==
    "bounds" \notin ub
        => \A line \in report :
              /\ line.received = Cardinality(Arrived(line.burst))
              /\ \A n \in 0..(line.capacity - 1) :
                    n \in Arrived(line.burst) /\ (TestMode = 1 => n < TestQueueLen)
              /\ \/ line.capacity \notin Arrived(line.burst)
                 \/ TestMode = 1 /\ line.capacity = TestQueueLen

\* More messages received than the burst has, as in "3/2 received", needs the
\* bursts of two clients under one number.
ExcessNeedsTwoRuns ==
    "bounds" \notin ub
        => \A line \in report :
              line.received > line.burst_len
                  => \E m, q \in received : /\ m.run # q.run
                                            /\ m.burst_num = line.burst
                                            /\ q.burst_num = line.burst

\* A server that ends by itself has a line for every burst of which something
\* arrived that passed the test of its length, and for no other.
ReportIsComplete ==
    (server = "ended" /\ "bounds" \notin ub)
        => {line.burst : line \in report} = {m.burst_num : m \in received}

\* The capacity of every burst is calculated, "by finding the first dropped
\* packet in the burst", whichever packet that is.
CapacityCalculated == "null" \notin ub

\* "calculate bytes on the wire": the bytes of a line are those of the
\* messages counted, each with the overhead of all its frames.
WireBytesCounted ==
    "bounds" \notin ub
        => \A line \in report : line.bytes = BytesOf(line.burst, line.capacity)
=============================================================================
