---------------------------- MODULE TimedReceive ----------------------------
(***************************************************************************)
(* The receive loop all the programs share: set an alarm, block in         *)
(* recvfrom, let SIGALRM interrupt it after a second so that the loop can  *)
(* look at the flag SIGINT sets.  There are two versions of it: the C one  *)
(* (hw1/bufferprobe/server.c, jittertool and udpcbr) and the C++ one       *)
(* (UDPSocket::receive of hw2, with signalhandler.h).                      *)
(*                                                                         *)
(* Between the system calls the process can be preempted, and signals and  *)
(* datagrams come at any time, so every call is a step of its own.         *)
(*                                                                         *)
(* SIGINT is caught with signal(), whose handler restarts the system call  *)
(* (BSD semantics, -std=gnu99 and g++); SIGALRM with sigaction and no      *)
(* flags, which interrupts it.                                             *)
(***************************************************************************)
EXTENDS Integers, Sequences

CONSTANTS
    Versions,      \* which of the two loops: "C", "C++"
    LateCall,      \* the process may lose the processor for the whole second
                   \* between alarm() and recvfrom()
    Lengths,       \* lengths of the datagrams that may arrive
    ShortMax,      \* SHRT_MAX of the build (2^15-1 in the code)
    MaxDatagrams   \* bound on how many datagrams arrive

ASSUME TimedReceiveAssumption ==
    /\ Versions \subseteq {"C", "C++"}
    /\ LateCall \in BOOLEAN
    /\ ShortMax \in Nat
    /\ Lengths \subseteq 0..(2 * ShortMax)
    /\ MaxDatagrams \in Nat

VARIABLES
    version,      \* the program that runs
    pc,           \* the call the process makes next
    alarm,        \* the timer is running
    stopping,     \* the flag the SIGINT handler sets
    errno,        \* "EINTR", or "other" for anything else
    message_len,  \* what the last recvfrom returned
    queue,        \* lengths of the datagrams in the socket's receive buffer
    arrived,      \* history: how many datagrams arrived
    interrupted,  \* history: SIGINT was delivered to the handler
    outcome,      \* history: how the last recvfrom ended, "none" before the first
    length,       \* history: the real length of the last datagram taken
    expired,      \* history: some recvfrom was interrupted by the alarm
    dropped       \* history: lengths of datagrams taken but not handled

history == <<interrupted, outcome, length, expired, dropped>>
vars == <<version, pc, alarm, stopping, errno, message_len, queue, arrived, history>>

Calls == {"signal", "clear", "test", "alarm", "recvfrom", "blocked", "unset", "check"}
Ends  == {"ended", "thrown"}

TypeOK ==
    /\ version \in Versions
    /\ pc \in (Calls \cup Ends) \ (IF version = "C" THEN {"unset", "thrown"} ELSE {"clear"})
    /\ alarm \in BOOLEAN
    /\ stopping \in BOOLEAN
    /\ errno \in {"EINTR", "other"}
    /\ message_len \in -(ShortMax + 1) .. (2 * ShortMax)
    /\ queue \in Seq(Lengths)
    /\ arrived \in 0..MaxDatagrams
    /\ interrupted \in BOOLEAN
    /\ outcome \in {"none", "datagram", "timeout", "failure"}
    /\ length \in Lengths \cup {0}
    /\ expired \in BOOLEAN
    /\ dropped \subseteq Lengths

Init ==
    /\ version \in Versions
    /\ pc = "signal"
    /\ alarm = FALSE
    /\ stopping = FALSE
    /\ errno = "other"
    /\ message_len = 0
    /\ queue = <<>>
    /\ arrived = 0
    /\ interrupted = FALSE
    /\ outcome = "none"
    /\ length = 0
    /\ expired = FALSE
    /\ dropped = {}

\* What becomes of a length the C programs keep in a short int.
AsReturned(len) ==
    IF version = "C" /\ len > ShortMax THEN len - 2 * (ShortMax + 1) ELSE len

\* The flag of the C++ programs is set up before the handler and not cleared
\* again; the variant clears it, as the C programs do.
AfterInstall_Clear == "clear"
AfterInstall == IF version = "C" THEN "clear" ELSE "test"

\* The handlers are installed.
InstallHandlers ==
    /\ pc = "signal"
    /\ pc' = AfterInstall
    /\ UNCHANGED <<version, alarm, stopping, errno, message_len, queue, arrived, history>>

\* The C programs reset the flag after the handler is in place.
ClearFlag ==
    /\ pc = "clear"
    /\ pc' = "test"
    /\ stopping' = FALSE
    /\ UNCHANGED <<version, alarm, errno, message_len, queue, arrived, history>>

\* while (!stopping)
TestFlag ==
    /\ pc = "test"
    /\ pc' = IF stopping THEN "ended" ELSE "alarm"
    /\ UNCHANGED <<version, alarm, stopping, errno, message_len, queue, arrived, history>>

\* No alarm(1) in the loop.
SetAlarm_Missing ==
    /\ pc = "alarm"
    /\ pc' = "recvfrom"
    /\ UNCHANGED <<version, alarm, stopping, errno, message_len, queue, arrived, history>>

SetAlarm ==
    /\ pc = "alarm"
    /\ pc' = "recvfrom"
    /\ alarm' = TRUE
    /\ UNCHANGED <<version, stopping, errno, message_len, queue, arrived, history>>

CallRecvfrom ==
    /\ pc = "recvfrom"
    /\ pc' = "blocked"
    /\ UNCHANGED <<version, alarm, stopping, errno, message_len, queue, arrived, history>>

\* No call of unset() after recvfrom, and the code.
AfterRecvfrom_NoUnset == "check"
AfterRecvfrom == IF version = "C" THEN "check" ELSE "unset"

\* recvfrom returns a datagram; errno keeps the value it had.
RecvfromReturns ==
    /\ pc = "blocked"
    /\ queue # <<>>
    /\ pc' = AfterRecvfrom
    /\ message_len' = AsReturned(Head(queue))
    /\ queue' = Tail(queue)
    /\ outcome' = "datagram"
    /\ length' = Head(queue)
    /\ UNCHANGED <<version, alarm, stopping, errno, arrived, interrupted, expired, dropped>>

\* recvfrom fails for another reason than a signal, for instance because an
\* ICMP error about an earlier datagram is pending on the socket.
RecvfromFails ==
    /\ pc = "blocked"
    /\ pc' = AfterRecvfrom
    /\ message_len' = -1
    /\ errno' = "other"
    /\ outcome' = "failure"
    /\ UNCHANGED <<version, alarm, stopping, queue, arrived, interrupted, length, expired,
                   dropped>>

\* SIGALRM: its handler does nothing, but a recvfrom that is blocked fails.
AlarmExpires ==
    /\ alarm
    /\ pc = "recvfrom" => LateCall
    /\ alarm' = FALSE
    /\ \/ /\ pc = "blocked"
          /\ pc' = AfterRecvfrom
          /\ message_len' = -1
          /\ errno' = "EINTR"
          /\ outcome' = "timeout"
          /\ expired' = TRUE
       \/ /\ pc # "blocked"
          /\ UNCHANGED <<pc, message_len, errno, outcome, expired>>
    /\ UNCHANGED <<version, stopping, queue, arrived, interrupted, length, dropped>>

UnsetAlarm ==
    /\ pc = "unset"
    /\ pc' = "check"
    /\ alarm' = FALSE
    /\ UNCHANGED <<version, stopping, errno, message_len, queue, arrived, history>>

\* if (len <= 0) if (errno != EINTR) throw, and the same with ==.
Throws_WhenInterrupted == version = "C++" /\ message_len <= 0 /\ errno = "EINTR"
Throws == version = "C++" /\ message_len <= 0 /\ errno # "EINTR"

\* if (message_len <= 0) continue, and a size of 0; the variant takes errno
\* for the sign that there is no message.
Handled_ByErrno == message_len > 0 /\ errno # "EINTR"
Handled == message_len > 0

\* The return value is examined.  The message is handled, or the loop goes
\* on without one; any other failure than the interruption is reported, by
\* the C programs on the terminal and by the C++ one with an exception.
\* A datagram of length zero is no failure to the system, but to this test.
CheckLength ==
    /\ pc = "check"
    /\ pc' = IF Throws THEN "thrown" ELSE "test"
    /\ dropped' = IF outcome = "datagram" /\ ~Handled THEN dropped \cup {length} ELSE dropped
    /\ UNCHANGED <<version, alarm, stopping, errno, message_len, queue, arrived,
                   interrupted, outcome, length, expired>>

\* The user presses Ctrl-C.
Interrupt ==
    /\ pc \notin {"signal"} \cup Ends
    /\ ~interrupted
    /\ interrupted' = TRUE
    /\ stopping' = TRUE
    /\ UNCHANGED <<version, pc, alarm, errno, message_len, queue, arrived, outcome,
                   length, expired, dropped>>

\* A datagram reaches the socket.
DatagramArrives ==
    /\ arrived < MaxDatagrams
    /\ arrived' = arrived + 1
    /\ \E len \in Lengths : queue' = Append(queue, len)
    /\ UNCHANGED <<version, pc, alarm, stopping, errno, message_len, history>>

Program ==
    \/ InstallHandlers \/ ClearFlag \/ TestFlag \/ SetAlarm \/ CallRecvfrom
    \/ RecvfromReturns \/ UnsetAlarm \/ CheckLength

Next == Program \/ RecvfromFails \/ AlarmExpires \/ Interrupt \/ DatagramArrives

\* The process gets the processor, and a timer that runs expires.  Nobody has
\* to send datagrams or to press Ctrl-C, and recvfrom need not fail.
Spec == Init /\ [][Next]_vars /\ WF_vars(Program) /\ WF_vars(AlarmExpires)

-----------------------------------------------------------------------------
\* The alarm never cuts short what is done with a message: outside the
\* receive of the C++ socket no timer runs, so neither sendto nor usleep of
\* its callers can be interrupted by it.
AlarmOnlyInReceive ==
    (version = "C++" /\ pc \in {"signal", "test", "alarm", "check"} \cup Ends) => ~alarm

\* receive throws exactly when it should, but for one case the test of errno
\* gets wrong: a failing recvfrom is thrown on and a timeout never; an empty
\* datagram is thrown on, although it is no error, until the first timeout
\* leaves EINTR in errno, and never again after that.
ThrowsExplained ==
    (version = "C++" /\ pc \in {"test", "thrown"})
        => (pc = "thrown" <=> \/ outcome = "failure"
                              \/ outcome = "datagram" /\ length = 0 /\ ~expired)

\* Once the loop runs, Ctrl-C ends it.
CtrlCEndsLoop == (stopping /\ pc # "clear") ~> pc \in Ends

\* Every datagram recvfrom hands over is handled, except for empty ones and,
\* in the C programs, those whose length is negative as a short int: neither
\* an alarm that expires after the datagram was taken nor an errno left over
\* from an earlier call makes the loop pass over a message.
DroppedExplained ==
    dropped \subseteq {0} \cup (IF version = "C" THEN {len \in Lengths : len > ShortMax}
                               ELSE {})
=============================================================================
