-------------------------- MODULE TimestampSocket --------------------------
(***************************************************************************)
(* TimestampingUDPSocket of hw2/bufferprobe2/socket.h under its one user,  *)
(* hw2/bufferprobe/tsclient.cpp.  The program is the probe client of       *)
(* ProbeClient, but each send() goes on to wait until the kernel has put a *)
(* timestamp of the message on the socket's error queue.                   *)
(*                                                                         *)
(* The wait is a select() for reading, without a timeout; it wakes up for  *)
(* the error queue and for datagrams alike, and the recvmsg after it looks *)
(* at the error queue only and does not block.  So the answers of the      *)
(* server race with the timestamps.  A signal makes select() fail with     *)
(* EINTR, and the loop around it calls it again.                           *)
(*                                                                         *)
(* The server is what answers a control message once or not at all.        *)
(* Bursts have one length here; how it grows is in ProbeClient.            *)
(***************************************************************************)
EXTENDS Integers, Sequences, FiniteSets

CONSTANTS
    MaxRetries,   \* Socket::MAX_RETRIES
    NumBursts,    \* num_bursts of the command line
    BurstLen      \* probes in a burst

ASSUME StampAssumption ==
    {MaxRetries, NumBursts, BurstLen} \subseteq Nat \ {0}

VARIABLES
    stamping,    \* the driver of the network device timestamps what it sends
    phase,       \* what main is about: "begin", "burst" or "complete"
    pc,          \* the call it makes next
    try,         \* seq_num of the control message
    burst_num,
    seq_num,     \* seq_num of the probe
    stopping,    \* SIGINT was caught
    pending,     \* messages whose timestamp is not queued yet
    stamps,      \* the error queue: messages whose timestamps it holds
    answers,     \* answers of the server under way
    datagrams,   \* the receive queue
    sent,        \* history: messages sent so far, the number of the last one
    taken,       \* history: the message whose timestamp was taken last
    reason       \* history: what threw the exception

clientVars == <<phase, pc, try, burst_num, seq_num, stopping>>
stampVars  == <<pending, stamps>>
answerVars == <<answers, datagrams>>
history    == <<sent, taken, reason>>
vars       == <<stamping, clientVars, stampVars, answerVars, history>>

Calls  == {"send", "select", "recvmsg", "receive", "loop"}
Ends   == {"ended", "thrown"}
Answer == [phase : {"begin", "complete"}, try : 1..MaxRetries]

TypeOK ==
    /\ stamping \in BOOLEAN
    /\ phase \in {"begin", "burst", "complete"}
    /\ pc \in Calls \cup Ends
    /\ try \in 1..MaxRetries
    /\ burst_num \in 0..NumBursts
    /\ seq_num \in 0..BurstLen
    /\ stopping \in BOOLEAN
    /\ sent \in Nat
    /\ pending \subseteq 1..sent
    /\ stamps \in Seq(1..sent)
    /\ answers \subseteq Answer
    /\ datagrams \in Seq(Answer)
    /\ taken \in 0..sent
    /\ reason \in {"none", "sendto", "recvmsg", "unexpected", "response"}

Init ==
    /\ stamping \in BOOLEAN
    /\ phase = "begin"
    /\ pc = "send"
    /\ try = 1
    /\ burst_num = 0
    /\ seq_num = 0
    /\ stopping = FALSE
    /\ pending = {}
    /\ stamps = <<>>
    /\ answers = {}
    /\ datagrams = <<>>
    /\ sent = 0
    /\ taken = 0
    /\ reason = "none"

Throw(why) == pc' = "thrown" /\ reason' = why

-----------------------------------------------------------------------------
(* Sending.                                                                *)

\* sendto of UDPSocket::send.  Of a control message an answer may come back.
SendMessage ==
    /\ pc = "send"
    /\ pc' = "select"
    /\ sent' = sent + 1
    /\ pending' = IF stamping THEN pending \cup {sent + 1} ELSE pending
    /\ \/ UNCHANGED answers
       \/ phase # "burst" /\ answers' = answers \cup {[phase |-> phase, try |-> try]}
    /\ UNCHANGED <<stamping, phase, try, burst_num, seq_num, stopping, stamps, datagrams,
                   taken, reason>>

SendFails ==
    /\ pc = "send"
    /\ Throw("sendto")
    /\ UNCHANGED <<stamping, phase, try, burst_num, seq_num, stopping, stampVars, answerVars,
                   sent, taken>>

\* A select() that only polls, and one that datagrams alone wake up.
Readable_Always == TRUE
Readable_DatagramsOnly == datagrams # <<>>

\* What select() calls readable.
Readable == stamps # <<>> \/ datagrams # <<>>

SelectReturns ==
    /\ pc = "select"
    /\ Readable
    /\ pc' = "recvmsg"
    /\ UNCHANGED <<stamping, phase, try, burst_num, seq_num, stopping, stampVars, answerVars,
                   history>>

\* send() returns: main goes on to wait for the answer, or with the burst.
SendReturns ==
    IF phase # "burst"
    THEN pc' = "receive" /\ UNCHANGED <<burst_num, seq_num>>
    ELSE /\ seq_num' = seq_num + 1
         /\ IF seq_num + 1 < BurstLen
            THEN pc' = "send" /\ UNCHANGED burst_num
            ELSE pc' = "loop" /\ burst_num' = burst_num + 1

RecvmsgReturns ==
    /\ pc = "recvmsg"
    /\ stamps # <<>>
    /\ taken' = Head(stamps)
    /\ stamps' = Tail(stamps)
    /\ SendReturns
    /\ UNCHANGED <<stamping, phase, try, stopping, pending, answerVars, sent, reason>>

\* An empty error queue not taken for a failure.
RecvmsgFails_GoesOn ==
    /\ pc = "recvmsg"
    /\ stamps = <<>>
    /\ SendReturns
    /\ UNCHANGED <<stamping, phase, try, stopping, stampVars, answerVars, history>>

\* The error queue is empty, for it was a datagram that woke up select().
RecvmsgFails ==
    /\ pc = "recvmsg"
    /\ stamps = <<>>
    /\ Throw("recvmsg")
    /\ UNCHANGED <<stamping, phase, try, burst_num, seq_num, stopping, stampVars, answerVars,
                   sent, taken>>

-----------------------------------------------------------------------------
(* The rest of main.                                                       *)

Expected(answer) == answer.phase = phase /\ answer.try = try

\* receive gets the answer to the control message just sent.
ReceiveExpected ==
    /\ pc = "receive"
    /\ datagrams # <<>>
    /\ Expected(Head(datagrams))
    /\ datagrams' = Tail(datagrams)
    /\ IF phase = "begin"
       THEN phase' = "burst" /\ pc' = "loop"
       ELSE phase' = phase /\ pc' = "ended"
    /\ UNCHANGED <<stamping, try, burst_num, seq_num, stopping, stampVars, answers, history>>

\* It gets another one.
ReceiveUnexpected ==
    /\ pc = "receive"
    /\ datagrams # <<>>
    /\ ~Expected(Head(datagrams))
    /\ datagrams' = Tail(datagrams)
    /\ Throw("unexpected")
    /\ UNCHANGED <<stamping, phase, try, burst_num, seq_num, stopping, stampVars, answers,
                   sent, taken>>

\* Another try after the last one.
MayRetry_Inclusive == try <= MaxRetries
MayRetry == try < MaxRetries

\* It gets none within the second.
ReceiveTimeout ==
    /\ pc = "receive"
    /\ datagrams = <<>>
    /\ IF MayRetry
       THEN try' = try + 1 /\ pc' = "send" /\ UNCHANGED reason
       ELSE Throw("response") /\ UNCHANGED try
    /\ UNCHANGED <<stamping, phase, burst_num, seq_num, stopping, stampVars, answerVars,
                   sent, taken>>

StartBurst ==
    /\ pc = "loop"
    /\ ~stopping
    /\ burst_num < NumBursts
    /\ pc' = "send"
    /\ seq_num' = 0
    /\ UNCHANGED <<stamping, phase, try, burst_num, stopping, stampVars, answerVars, history>>

EndBursts ==
    /\ pc = "loop"
    /\ stopping \/ burst_num = NumBursts
    /\ phase' = "complete"
    /\ try' = 1
    /\ pc' = "send"
    /\ UNCHANGED <<stamping, burst_num, seq_num, stopping, stampVars, answerVars, history>>

Client ==
    \/ SendMessage \/ SelectReturns \/ RecvmsgReturns \/ RecvmsgFails
    \/ ReceiveExpected \/ ReceiveUnexpected \/ ReceiveTimeout \/ StartBurst \/ EndBursts

-----------------------------------------------------------------------------
(* The environment.                                                        *)

\* The user presses Ctrl-C: the flag is set; select() is called again.
Interrupt ==
    /\ pc \notin Ends
    /\ ~stopping
    /\ stopping' = TRUE
    /\ UNCHANGED <<stamping, phase, pc, try, burst_num, seq_num, stampVars, answerVars,
                   history>>

\* The kernel puts a timestamp on the error queue.
StampArrives ==
    \E m \in pending :
        /\ stamps' = Append(stamps, m)
        /\ pending' = pending \ {m}
        /\ UNCHANGED <<stamping, clientVars, answerVars, history>>

\* An answer reaches the socket.
AnswerArrives ==
    \E a \in answers :
        /\ datagrams' = Append(datagrams, a)
        /\ answers' = answers \ {a}
        /\ UNCHANGED <<stamping, clientVars, stampVars, history>>

Next == Client \/ SendFails \/ Interrupt \/ StampArrives \/ AnswerArrives

\* The process is scheduled, and a message the device has taken is stamped.
\* The server and the network owe nothing.
Spec == Init /\ [][Next]_vars /\ WF_vars(Client) /\ WF_vars(StampArrives)

-----------------------------------------------------------------------------
\* A send() that returns took the timestamp of its own message, and left none
\* behind for the next: whatever woke up select(), timestamps and messages
\* stay in step.
StampIsOwn ==
    pc \in {"send", "receive", "loop", "ended"}
        => taken = sent /\ pending = {} /\ stamps = <<>>

\* send() fails over a healthy network only when an answer overtook the
\* timestamp; in the bursts, only when a BEGIN was sent twice, and the answer
\* to the other one came too late to be read.
OvertakenExplained ==
    reason = "recvmsg" => datagrams # <<>> /\ (phase = "burst" => try > 1)

\* Where the device timestamps, the client comes to an end, Ctrl-C or not.
\* (Where it does not, send() waits for an answer and then fails.)
RunEnds == (stamping /\ pc \notin Ends) ~> pc \in Ends
=============================================================================
