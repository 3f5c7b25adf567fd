------------------------- MODULE TimedReceiveProofs -------------------------
(***************************************************************************)
(* Proofs about TimedReceive: its safety properties, for datagrams of any  *)
(* lengths in any number, wherever the signals come.                       *)
(***************************************************************************)
EXTENDS TimedReceive, TLAPS

\* What the variables of the loop say of the last recvfrom: the length kept is
\* that of the datagram as returned, -1 stands for a timeout or a failure, and
\* errno tells these two apart.
LastCallInv ==
    /\ pc = "signal" => outcome = "none"
    /\ pc \in {"unset", "check"} => outcome # "none"
    /\ outcome = "datagram" => message_len = AsReturned(length) /\ length \in Lengths
    /\ outcome = "timeout" => message_len = -1 /\ errno = "EINTR"
    /\ outcome = "failure" => message_len = -1 /\ errno = "other"

\* The C++ receive ends with the first failure, so that until then errno says
\* whether a timeout was seen.
ErrnoInv ==
    version = "C++" =>
        /\ outcome = "failure" => pc \in {"unset", "check", "thrown"}
        /\ outcome # "failure" => errno = (IF expired THEN "EINTR" ELSE "other")

\* The inductive invariant.
ReceiveInv ==
    /\ TypeOK
    /\ LastCallInv
    /\ ErrnoInv
    /\ AlarmOnlyInReceive
    /\ ThrowsExplained
    /\ DroppedExplained

\* What is assumed of the lengths.
LEMMA LengthFacts ==
    /\ ShortMax \in Nat
    /\ \A len \in Lengths : len \in Int /\ 0 <= len /\ len <= 2 * ShortMax
BY TimedReceiveAssumption

\* A length as a short int is in range, is never -1, and is positive unless
\* the datagram is empty or too long for a short int.
LEMMA AsReturnedRange ==
    ASSUME NEW len \in Lengths
    PROVE  /\ AsReturned(len) \in -(ShortMax + 1) .. (2 * ShortMax)
           /\ AsReturned(len) # -1
           /\ version # "C" => AsReturned(len) = len
           /\ AsReturned(len) <= 0 => len = 0 \/ (version = "C" /\ len > ShortMax)
BY LengthFacts DEF AsReturned

\* The invariant holds initially,
LEMMA InitReceive == Init => ReceiveInv
<1> SUFFICES ASSUME Init PROVE ReceiveInv
  OBVIOUS
<1>1. version \in {"C", "C++"} /\ 0 \in -(ShortMax + 1) .. (2 * ShortMax) /\ 0 \in 0..MaxDatagrams
  BY TimedReceiveAssumption, LengthFacts DEF Init
<1>2. TypeOK
  <2>1. queue \in Seq(Lengths)
    BY DEF Init
  <2>2. pc \in (Calls \cup Ends) \ (IF version = "C" THEN {"unset", "thrown"} ELSE {"clear"})
    BY DEF Init, Calls, Ends
  <2>3. message_len \in -(ShortMax + 1) .. (2 * ShortMax) /\ arrived \in 0..MaxDatagrams
    BY <1>1 DEF Init
  <2> QED BY <1>1, <2>1, <2>2, <2>3 DEF Init, TypeOK
<1>3. LastCallInv /\ ErrnoInv /\ AlarmOnlyInReceive /\ ThrowsExplained /\ DroppedExplained
  BY DEF Init, LastCallInv, ErrnoInv, AlarmOnlyInReceive, Ends, ThrowsExplained,
         DroppedExplained
<1> QED BY <1>2, <1>3 DEF ReceiveInv

\* the calls that only move on preserve it,
LEMMA MovesReceive ==
    /\ ReceiveInv
    /\ InstallHandlers \/ ClearFlag \/ TestFlag \/ SetAlarm \/ CallRecvfrom \/ UnsetAlarm
    => ReceiveInv'
<1> SUFFICES ASSUME ReceiveInv,
                    InstallHandlers \/ ClearFlag \/ TestFlag \/ SetAlarm \/ CallRecvfrom
                    \/ UnsetAlarm
             PROVE  ReceiveInv'
  OBVIOUS
<1>1. UNCHANGED <<version, errno, message_len, queue, arrived, history>>
  BY DEF InstallHandlers, ClearFlag, TestFlag, SetAlarm, CallRecvfrom, UnsetAlarm
<1>2. version \in {"C", "C++"}
  BY TimedReceiveAssumption DEF ReceiveInv, TypeOK
<1>3. /\ pc' \in (Calls \cup Ends) \ (IF version = "C" THEN {"unset", "thrown"} ELSE {"clear"})
      /\ alarm' \in BOOLEAN /\ stopping' \in BOOLEAN
      /\ pc' # "thrown" /\ pc # "thrown"
      /\ pc' = "check" => pc = "unset"
      /\ pc' # "unset"
      /\ pc' = "test" => version = "C" \/ pc = "signal"
      /\ pc' # "signal"
  BY <1>2 DEF ReceiveInv, TypeOK, Calls, Ends, AfterInstall, InstallHandlers, ClearFlag,
              TestFlag, SetAlarm, CallRecvfrom, UnsetAlarm
<1>4. TypeOK'
  BY <1>1, <1>3 DEF ReceiveInv, TypeOK, history
<1>5. AlarmOnlyInReceive'
  BY <1>1, <1>2 DEF ReceiveInv, TypeOK, AlarmOnlyInReceive, Ends, AfterInstall,
                    InstallHandlers, ClearFlag, TestFlag, SetAlarm, CallRecvfrom, UnsetAlarm
<1>6. LastCallInv' /\ ErrnoInv'
  <2>1. pc # "thrown" /\ (version = "C++" /\ outcome = "failure" => pc' = "check")
    BY <1>3 DEF ReceiveInv, ErrnoInv, InstallHandlers, ClearFlag, TestFlag, SetAlarm,
                CallRecvfrom, UnsetAlarm
  <2> QED BY <1>1, <1>3, <2>1 DEF ReceiveInv, LastCallInv, ErrnoInv, AsReturned, history
<1>7. ThrowsExplained'
  BY <1>1, <1>2, <1>3 DEF ReceiveInv, LastCallInv, ThrowsExplained, history
<1>8. DroppedExplained'
  BY <1>1 DEF ReceiveInv, DroppedExplained, history
<1> QED BY <1>4, <1>5, <1>6, <1>7, <1>8 DEF ReceiveInv

\* and so do the return of a datagram,
LEMMA ReturnReceive == ReceiveInv /\ RecvfromReturns => ReceiveInv'
<1> SUFFICES ASSUME ReceiveInv, RecvfromReturns PROVE ReceiveInv'
  OBVIOUS
<1>1. /\ queue \in Seq(Lengths) /\ queue # <<>> /\ pc = "blocked"
      /\ pc' = AfterRecvfrom /\ message_len' = AsReturned(Head(queue)) /\ queue' = Tail(queue)
      /\ outcome' = "datagram" /\ length' = Head(queue)
      /\ UNCHANGED <<version, alarm, stopping, errno, arrived, interrupted, expired, dropped>>
  BY DEF RecvfromReturns, ReceiveInv, TypeOK
<1>2. Head(queue) \in Lengths /\ queue' \in Seq(Lengths)
  BY <1>1
<1>3. version \in {"C", "C++"}
  BY TimedReceiveAssumption DEF ReceiveInv, TypeOK
<1>4. message_len' \in -(ShortMax + 1) .. (2 * ShortMax)
  BY <1>1, <1>2, AsReturnedRange
<1>5. TypeOK'
  BY <1>1, <1>2, <1>3, <1>4 DEF ReceiveInv, TypeOK, AfterRecvfrom, Calls, Ends
<1>6. LastCallInv' /\ ErrnoInv'
  BY <1>1, <1>2, <1>3 DEF ReceiveInv, LastCallInv, ErrnoInv, AsReturned, AfterRecvfrom
<1> QED BY <1>1, <1>3, <1>5, <1>6 DEF ReceiveInv, AlarmOnlyInReceive, AfterRecvfrom, Ends,
              ThrowsExplained, DroppedExplained

\* another failure of recvfrom,
LEMMA FailureReceive == ReceiveInv /\ RecvfromFails => ReceiveInv'
<1> SUFFICES ASSUME ReceiveInv, RecvfromFails PROVE ReceiveInv'
  OBVIOUS
<1>1. /\ pc = "blocked" /\ pc' = AfterRecvfrom
      /\ message_len' = -1 /\ errno' = "other" /\ outcome' = "failure"
      /\ UNCHANGED <<version, alarm, stopping, queue, arrived, interrupted, length, expired,
                     dropped>>
  BY DEF RecvfromFails
<1>2. version \in {"C", "C++"} /\ -1 \in -(ShortMax + 1) .. (2 * ShortMax)
  BY TimedReceiveAssumption, LengthFacts DEF ReceiveInv, TypeOK
<1>3. TypeOK'
  BY <1>1, <1>2 DEF ReceiveInv, TypeOK, AfterRecvfrom, Calls, Ends
<1>4. LastCallInv' /\ ErrnoInv'
  BY <1>1, <1>2 DEF LastCallInv, ErrnoInv, AfterRecvfrom
<1> QED BY <1>1, <1>2, <1>3, <1>4 DEF ReceiveInv, AlarmOnlyInReceive, AfterRecvfrom, Ends,
              ThrowsExplained, DroppedExplained

\* the end of the second,
LEMMA ExpiryReceive == ReceiveInv /\ AlarmExpires => ReceiveInv'
<1> SUFFICES ASSUME ReceiveInv, AlarmExpires PROVE ReceiveInv'
  OBVIOUS
<1>1. /\ alarm' = FALSE
      /\ UNCHANGED <<version, stopping, queue, arrived, interrupted, length, dropped>>
  BY DEF AlarmExpires
<1>2. version \in {"C", "C++"} /\ -1 \in -(ShortMax + 1) .. (2 * ShortMax)
  BY TimedReceiveAssumption, LengthFacts DEF ReceiveInv, TypeOK
<1>3. CASE /\ pc = "blocked" /\ pc' = AfterRecvfrom
           /\ message_len' = -1 /\ errno' = "EINTR" /\ outcome' = "timeout" /\ expired' = TRUE
  <2>1. TypeOK'
    BY <1>1, <1>2, <1>3 DEF ReceiveInv, TypeOK, AfterRecvfrom, Calls, Ends
  <2>2. LastCallInv' /\ ErrnoInv'
    BY <1>1, <1>2, <1>3 DEF ReceiveInv, LastCallInv, ErrnoInv, AfterRecvfrom
  <2> QED BY <1>1, <1>2, <1>3, <2>1, <2>2 DEF ReceiveInv, AlarmOnlyInReceive, AfterRecvfrom,
                Ends, ThrowsExplained, DroppedExplained
<1>4. CASE pc # "blocked" /\ UNCHANGED <<pc, message_len, errno, outcome, expired>>
  BY <1>1, <1>4 DEF ReceiveInv, TypeOK, LastCallInv, AsReturned, ErrnoInv,
                    AlarmOnlyInReceive, ThrowsExplained, DroppedExplained
<1> QED BY <1>3, <1>4 DEF AlarmExpires

\* the test of the length,
LEMMA CheckReceive == ReceiveInv /\ CheckLength => ReceiveInv'
<1> SUFFICES ASSUME ReceiveInv, CheckLength PROVE ReceiveInv'
  OBVIOUS
<1>1. /\ pc = "check" /\ pc' = IF Throws THEN "thrown" ELSE "test"
      /\ dropped' = IF outcome = "datagram" /\ ~Handled THEN dropped \cup {length} ELSE dropped
      /\ UNCHANGED <<version, alarm, stopping, errno, message_len, queue, arrived,
                     interrupted, outcome, length, expired>>
  BY DEF CheckLength
<1>2. /\ version \in {"C", "C++"} /\ message_len \in Int
      /\ outcome \in {"datagram", "timeout", "failure"}
  BY <1>1, TimedReceiveAssumption, LengthFacts DEF ReceiveInv, TypeOK, LastCallInv
<1>3. /\ outcome = "datagram" => /\ length \in Lengths
                                /\ message_len = AsReturned(length)
                                /\ (version # "C" => message_len = length /\ length >= 0)
      /\ outcome # "datagram" => message_len = -1
  BY <1>2, AsReturnedRange, LengthFacts DEF ReceiveInv, LastCallInv
<1>4. TypeOK'
  BY <1>1, <1>2, <1>3 DEF ReceiveInv, TypeOK, Throws, Calls, Ends
<1>5. version = "C++" =>
        (Throws <=> \/ outcome = "failure"
                    \/ outcome = "datagram" /\ length = 0 /\ ~expired)
  <2>1. CASE outcome = "datagram"
    BY <1>2, <1>3, <2>1 DEF Throws, ReceiveInv, ErrnoInv
  <2>2. CASE outcome # "datagram"
    BY <1>2, <1>3, <2>2 DEF Throws, ReceiveInv, LastCallInv
  <2> QED BY <2>1, <2>2
<1>6. ThrowsExplained'
  BY <1>1, <1>5 DEF ThrowsExplained
<1>7. LastCallInv' /\ ErrnoInv'
  <2>1. LastCallInv'
    BY <1>1 DEF ReceiveInv, LastCallInv, AsReturned
  <2>2. ErrnoInv'
    BY <1>1, <1>5 DEF ReceiveInv, ErrnoInv
  <2> QED BY <2>1, <2>2
<1>8. DroppedExplained'
  <2>1. outcome = "datagram" /\ ~Handled
          => length \in {0} \cup (IF version = "C" THEN {n \in Lengths : n > ShortMax} ELSE {})
    BY <1>2, <1>3, AsReturnedRange DEF Handled
  <2> QED BY <1>1, <2>1 DEF ReceiveInv, DroppedExplained
<1>9. AlarmOnlyInReceive'
  BY <1>1 DEF ReceiveInv, AlarmOnlyInReceive, Ends
<1> QED BY <1>4, <1>6, <1>7, <1>8, <1>9 DEF ReceiveInv

\* and what comes from outside.
LEMMA OutsideReceive == ReceiveInv /\ (Interrupt \/ DatagramArrives) => ReceiveInv'
<1> SUFFICES ASSUME ReceiveInv, Interrupt \/ DatagramArrives PROVE ReceiveInv'
  OBVIOUS
<1>1. UNCHANGED <<version, pc, alarm, errno, message_len, outcome, length, expired, dropped>>
  BY DEF history, Interrupt, DatagramArrives
<1>2. /\ stopping' \in BOOLEAN /\ interrupted' \in BOOLEAN
      /\ queue' \in Seq(Lengths) /\ arrived' \in 0..MaxDatagrams
  <2>1. CASE Interrupt
    BY <2>1 DEF ReceiveInv, TypeOK, Interrupt
  <2>2. CASE DatagramArrives
    <3>1. PICK len \in Lengths : queue' = Append(queue, len)
      BY <2>2 DEF DatagramArrives
    <3>2. arrived' \in 0..MaxDatagrams
      BY <2>2, TimedReceiveAssumption DEF ReceiveInv, TypeOK, DatagramArrives
    <3>3. queue' \in Seq(Lengths)
      BY <3>1 DEF ReceiveInv, TypeOK
    <3> QED BY <2>2, <3>2, <3>3 DEF ReceiveInv, TypeOK, DatagramArrives, history
  <2> QED BY <2>1, <2>2
<1>3. TypeOK'
  BY <1>1, <1>2 DEF ReceiveInv, TypeOK
<1> QED BY <1>1, <1>3 DEF ReceiveInv, LastCallInv, AsReturned, ErrnoInv,
              AlarmOnlyInReceive, ThrowsExplained, DroppedExplained

\* The invariant holds always.
LEMMA ReceiveInvariant == Spec => []ReceiveInv
<1>1. ReceiveInv /\ UNCHANGED vars => ReceiveInv'
  BY DEF vars, history, ReceiveInv, TypeOK, LastCallInv, AsReturned, ErrnoInv,
         AlarmOnlyInReceive, ThrowsExplained, DroppedExplained
<1>2. ReceiveInv /\ [Next]_vars => ReceiveInv'
  BY <1>1, MovesReceive, ReturnReceive, FailureReceive, ExpiryReceive, CheckReceive, OutsideReceive
     DEF Next, Program
<1> QED BY InitReceive, <1>2, PTL DEF Spec

\* The variables of both loops keep their ranges.
THEOREM TypeCorrect == Spec => []TypeOK
<1>1. ReceiveInv => TypeOK
  BY DEF ReceiveInv
<1> QED BY <1>1, ReceiveInvariant, PTL

\* The alarm runs nowhere but inside UDPSocket::receive.
THEOREM AlarmStaysInside == Spec => []AlarmOnlyInReceive
<1>1. ReceiveInv => AlarmOnlyInReceive
  BY DEF ReceiveInv
<1> QED BY <1>1, ReceiveInvariant, PTL

\* receive throws over every failure and over no timeout, and over an empty
\* datagram exactly until the first timeout.
THEOREM TimeoutIsNoError == Spec => []ThrowsExplained
<1>1. ReceiveInv => ThrowsExplained
  BY DEF ReceiveInv
<1> QED BY <1>1, ReceiveInvariant, PTL

\* Whatever the alarm and errno do, the only datagrams passed over are the
\* empty ones and, by the C programs, those too long for a short int.
THEOREM NothingElseDropped == Spec => []DroppedExplained
<1>1. ReceiveInv => DroppedExplained
  BY DEF ReceiveInv
<1> QED BY <1>1, ReceiveInvariant, PTL
=============================================================================
