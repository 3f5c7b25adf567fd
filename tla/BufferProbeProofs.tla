------------------------- MODULE BufferProbeProofs -------------------------
(***************************************************************************)
(* Theorems about BufferProbe, for every value of its constants: any       *)
(* command lines, number of runs and tries, and any network the constants  *)
(* of UdpChannel admit.                                                    *)
(*                                                                         *)
(* In this order: types; the handshake and the null pointer; the number of *)
(* bursts in a single run; a run as a session (ProbeSession); on a network *)
(* that keeps the order, the loss that is printed, retries that wipe       *)
(* nothing, the bounds of the vector, and the answers that are rejected;   *)
(* failures, where answers come in time.  The lemmas of a section are used *)
(* by those after it.                                                      *)
(***************************************************************************)
EXTENDS BufferProbe, TestDataLemmas

\* The assumptions about the constants, in one place.
LEMMA Bounds ==
    /\ MaxDuplicates \in Nat /\ MaxRuns \in Nat /\ MaxRetries \in Nat
    /\ MaxRestarts \in Nat /\ MaxErrors \in Nat /\ IntMax \in Nat
    /\ \A p \in Params : p \in ParamsType /\ p.burst_len <= IntMax
BY ChannelAssumption, ServerAssumption, ClientAssumption, PeerAssumption
   DEF ChannelAssumption, ServerAssumption, ClientAssumption, PeerAssumption

-----------------------------------------------------------------------------
(* Queues and numbers.                                                     *)

\* Taking the i-th datagram out of a queue.
LEMMA WithoutOne ==
    ASSUME NEW S, NEW q \in Seq(S), NEW i \in 1..Len(q)
    PROVE  /\ Without(q, i) \in Seq(S)
           /\ Len(Without(q, i)) = Len(q) - 1
           /\ \A j \in 1..Len(Without(q, i)) : \E k \in 1..Len(q) : Without(q, i)[j] = q[k]
<1>1. Len(q) \in Nat
  BY LenProperties
<1>2. ASSUME NEW j \in 1..(Len(q) - 1)
      PROVE  (IF j < i THEN q[j] ELSE q[j + 1]) \in S
  BY <1>1, ElementOfSeq
<1>3. Without(q, i) \in [1..(Len(q) - 1) -> S]
  BY <1>2 DEF Without
<1>4. Without(q, i) \in Seq(S) /\ Len(Without(q, i)) = Len(q) - 1
  BY <1>1, <1>3
<1>5. ASSUME NEW j \in 1..(Len(q) - 1)
      PROVE  \E k \in 1..Len(q) : Without(q, i)[j] = q[k]
  <2>1. CASE j < i
    BY <1>1, <2>1 DEF Without
  <2>2. CASE ~(j < i)
    BY <1>1, <2>2 DEF Without
  <2> QED BY <2>1, <2>2
<1> QED BY <1>4, <1>5

\* When the i-th datagram arrives, what stays in flight was in flight before.
LEMMA ArriveOne ==
    ASSUME NEW S, NEW q \in Seq(S), NEW i \in 1..Len(q), NEW rest, Arrive(q, i, rest)
    PROVE  /\ rest \in Seq(S)
           /\ \A j \in 1..Len(rest) : \E k \in 1..Len(q) : rest[j] = q[k]
<1>1. CASE rest = Without(q, i)
  BY <1>1, WithoutOne
<1>2. CASE rest = q
  BY <1>2
<1> QED BY <1>1, <1>2 DEF Arrive

\* The same of messages, and of the queue to the client.
LEMMA MessagesStay ==
    ASSUME NEW q \in Seq(MessageType), NEW i \in 1..Len(q), NEW rest, Arrive(q, i, rest)
    PROVE  \A j \in 1..Len(rest) : \E k \in 1..Len(q) : rest[j] = q[k]
BY ArriveOne

\* and of what stays behind when one is taken out.
LEMMA OthersStay ==
    ASSUME NEW q \in Seq(MessageType), NEW i \in 1..Len(q)
    PROVE  \A j \in 1..Len(Without(q, i)) : \E k \in 1..Len(q) : Without(q, i)[j] = q[k]
<1> DEFINE S == MessageType
<1>1. q \in Seq(S)
  OBVIOUS
<1> HIDE DEF S
<1> QED BY <1>1, WithoutOne

\* The queue to the client, in the form its steps need.
LEMMA AnswersStay ==
    ASSUME toClient \in Seq(MessageType), NEW i \in 1..Len(toClient),
           Arrive(toClient, i, toClient')
    PROVE  \A j \in 1..Len(toClient') : \E k \in 1..Len(toClient) : toClient'[j] = toClient[k]
<1> DEFINE q    == toClient
           rest == toClient'
<1>1. q \in Seq(MessageType) /\ i \in 1..Len(q) /\ Arrive(q, i, rest)
  OBVIOUS
<1> HIDE DEF q, rest
<1>2. \A j \in 1..Len(rest) : \E k \in 1..Len(q) : rest[j] = q[k]
  BY <1>1, MessagesStay
<1> QED BY <1>2 DEF q, rest

\* An arrival makes at most the duplicates the bound allows.
LEMMA ArriveKeepsBound ==
    ASSUME NEW q, NEW i, NEW rest, Arrive(q, i, rest), duplicates \in 0..MaxDuplicates
    PROVE  duplicates' \in 0..MaxDuplicates
BY Bounds DEF Arrive

\* Converting an int to unsigned yields a natural number.
LEMMA AsUnsignedType ==
    ASSUME NEW x \in -(IntMax + 1) .. IntMax
    PROVE  AsUnsigned(x) \in Nat
BY Bounds DEF AsUnsigned

\* The grown burst length is an int again.
LEMMA GrowType ==
    ASSUME NEW len, NEW multiplier
    PROVE  Grow(len, multiplier) \in -(IntMax + 1) .. IntMax
BY Bounds DEF Grow

\* The control messages of the client are messages.
LEMMA ControlMessageType ==
    ASSUME ClientTypeOK, NEW n \in Nat
    PROVE  controlMessage(n) \in MessageType
<1>1. params.num_bursts \in Nat
  BY Bounds DEF ClientTypeOK, ParamsType, NoParams
<1>2. AsUnsigned(burst_len) \in Nat
  BY AsUnsignedType DEF ClientTypeOK
<1>3. run \in Nat
  BY Bounds DEF ClientTypeOK
<1>4. {"BEGIN", "COMPLETE"} \subseteq MessageTypes
  BY DEF MessageTypes, RequestTypes
<1> QED BY <1>1, <1>2, <1>3, <1>4, MessageIsTyped DEF controlMessage

-----------------------------------------------------------------------------
(* Type correctness.                                                       *)

\* TypeOK holds initially,
LEMMA InitType == Init => TypeOK
<1> SUFFICES ASSUME Init PROVE TypeOK
  OBVIOUS
<1>1. ChannelTypeOK
  BY Bounds, EmptySeq DEF Init, ChannelInit, ChannelTypeOK
<1>2. ClientTypeOK
  <2>1. 0 \in 0..MaxRuns /\ 0 \in 0..MaxRetries /\ 0 \in -(IntMax + 1) .. IntMax
    BY Bounds
  <2> QED BY <2>1, EmptySeq DEF Init, ClientInit, ClientTypeOK, Phases
<1>3. ServerTypeOK
  BY Bounds, EmptySeq DEF Init, ServerInit, ServerTypeOK
<1> QED BY <1>1, <1>2, <1>3, Bounds DEF Init, TypeOK

\* What a handler of the server takes from the network.
LEMMA ReceivesType ==
    ASSUME TypeOK, NEW i \in 1..Len(toServer), Receives(i)
    PROVE  /\ toServer[i] \in MessageType
           /\ toServer' \in Seq(MessageType)
           /\ duplicates' \in 0..MaxDuplicates
           /\ lost' = lost
           /\ ub' \subseteq Faults
           /\ restarts' = restarts
<1>1. toServer \in Seq(MessageType)
  BY DEF TypeOK, ChannelTypeOK
<1>2. Arrive(toServer, i, toServer')
  BY DEF Receives
<1>3. toServer[i] \in MessageType
  BY <1>1, ElementOfSeq
<1>4. toServer' \in Seq(MessageType)
  BY <1>1, <1>2, ArriveOne
<1>5. duplicates' \in 0..MaxDuplicates
  BY <1>2, ArriveKeepsBound DEF TypeOK, ChannelTypeOK
<1>6. ub' \subseteq Faults
  BY DEF Receives, FaultsOf, TypeOK, ServerTypeOK
<1> QED BY <1>3, <1>4, <1>5, <1>6 DEF Receives

\* every step of the server preserves it,
LEMMA ServerType == TypeOK /\ ServerMoves => TypeOK'
<1> SUFFICES ASSUME TypeOK, ServerMoves PROVE TypeOK'
  OBVIOUS
<1> USE DEF TypeOK
<1>1. ClientTypeOK' /\ errors' \in 0..MaxErrors
  BY DEF ServerMoves, clientVars, ClientTypeOK
<1>2. CASE ServerBegin
  <2>1. PICK i \in 1..Len(toServer) :
          /\ Receives(i)
          /\ testdata' = "object"
          /\ bursts' = NewTestData(toServer[i].burst_num)
          /\ Reply([toServer[i] EXCEPT !.type = "BEGIN_ACK"])
          /\ UNCHANGED srv
    BY <1>2 DEF ServerBegin
  <2>2. toServer[i] \in MessageType
    BY <2>1, ReceivesType
  <2>3. bursts' \in Seq(BurstDataType)
    <3>1. toServer[i].burst_num \in Nat
      BY <2>2 DEF MessageType
    <3> QED BY <2>1, <3>1, NewTestDataType
  <2>4. toClient' \in Seq(MessageType)
    <3>1. [toServer[i] EXCEPT !.type = "BEGIN_ACK"] \in MessageType
      BY <2>2, ReplyIsTyped, EmptySeq DEF MessageTypes, ReplyTypes
    <3> QED BY <2>1, <3>1, AppendProperties DEF Reply, ChannelTypeOK
  <2> QED BY <1>1, <2>1, <2>3, <2>4, ReceivesType DEF ChannelTypeOK, ServerTypeOK
<1>3. CASE ServerProbeDropped
  BY <1>1, <1>3, ReceivesType DEF ServerProbeDropped, ChannelTypeOK, ServerTypeOK
<1>4. CASE ServerProbe
  <2>1. PICK i \in 1..Len(toServer) :
          /\ Receives(i)
          /\ bursts' = IF toServer[i].burst_num + 1 \in DOMAIN bursts
                       THEN [bursts EXCEPT ![toServer[i].burst_num + 1] = AddProbe(@, toServer[i])]
                       ELSE bursts
          /\ UNCHANGED <<srv, testdata, toClient>>
    BY <1>4 DEF ServerProbe
  <2>2. toServer[i] \in MessageType
    BY <2>1, ReceivesType
  <2>3. bursts' \in Seq(BurstDataType)
    <3> DEFINE b == toServer[i].burst_num + 1
    <3>1. bursts \in Seq(BurstDataType) /\ DOMAIN bursts = 1..Len(bursts)
      BY LenProperties DEF ServerTypeOK
    <3>2. CASE b \in DOMAIN bursts
      <4>1. bursts[b] \in BurstDataType
        BY <3>1, <3>2, ElementOfSeq
      <4>2. AddProbe(bursts[b], toServer[i]) \in BurstDataType
        BY <2>2, <4>1, AddProbeType
      <4> QED BY <2>1, <3>1, <3>2, <4>2, ExceptSeq
    <3> QED BY <2>1, <3>1, <3>2
  <2> QED BY <1>1, <2>1, <2>3, ReceivesType DEF ChannelTypeOK, ServerTypeOK
<1>5. CASE ServerComplete
  <2>1. PICK i \in 1..Len(toServer) :
          /\ Receives(i)
          /\ Reply([toServer[i] EXCEPT !.type = "COMPLETE_ACK",
                                       !.results = TestResults(bursts)])
          /\ UNCHANGED <<srv, testdata, bursts>>
    BY <1>5 DEF ServerComplete
  <2>2. toClient' \in Seq(MessageType)
    <3>1. TestResults(bursts) \in Seq(BurstResultType)
      BY TestResultsType DEF ServerTypeOK
    <3>2. toServer[i] \in MessageType /\ "COMPLETE_ACK" \in MessageTypes
      BY <2>1, ReceivesType DEF MessageTypes, ReplyTypes
    <3>3. [toServer[i] EXCEPT !.type = "COMPLETE_ACK",
                              !.results = TestResults(bursts)] \in MessageType
      BY <3>1, <3>2, ReplyIsTyped
    <3> QED BY <2>1, <3>3, AppendProperties DEF Reply, ChannelTypeOK
  <2> QED BY <1>1, <2>1, <2>2, ReceivesType DEF ChannelTypeOK, ServerTypeOK
<1>6. CASE ServerError
  BY <1>1, <1>6, ReceivesType, EmptySeq DEF ServerError, ChannelTypeOK, ServerTypeOK
<1>7. CASE ServerCrash
  BY <1>1, <1>7, ReceivesType, EmptySeq DEF ServerCrash, ProcessEnds, ChannelTypeOK, ServerTypeOK
<1>8. CASE ServerSendFails
  BY <1>1, <1>8, ReceivesType, EmptySeq DEF ServerSendFails, ProcessEnds, ChannelTypeOK, ServerTypeOK
<1>9. CASE ServerStop
  BY <1>1, <1>9, EmptySeq
     DEF ServerStop, ProcessEnds, channelVars, ChannelTypeOK, ServerTypeOK, Faults
<1>10. CASE ServerRestart
  BY <1>1, <1>10, Bounds, EmptySeq DEF ServerRestart, channelVars, ChannelTypeOK, ServerTypeOK
<1>11. CASE ServerPortClosed
  <2>1. PICK i \in 1..Len(toServer) :
          toServer' = Without(toServer, i) /\ lost' = lost \cup {toServer[i]}
    BY <1>11 DEF ServerPortClosed, Deliverable
  <2>2. toServer' \in Seq(MessageType) /\ toServer[i] \in MessageType
    BY <2>1, WithoutOne, ElementOfSeq DEF ChannelTypeOK
  <2> QED BY <1>1, <1>11, <2>1, <2>2
          DEF ServerPortClosed, serverVars, ChannelTypeOK, ServerTypeOK
<1> QED BY <1>2, <1>3, <1>4, <1>5, <1>6, <1>7, <1>8, <1>9, <1>10, <1>11
        DEF ServerMoves, ServerNext, ServerHandles
\* What the client takes from the network.
LEMMA ClientReceivesType ==
    ASSUME TypeOK, NEW i \in 1..Len(toClient), ClientReceives(i)
    PROVE  /\ toClient[i] \in MessageType
           /\ toClient[i].run \in Nat
           /\ toClient[i].results \in Seq(BurstResultType)
           /\ ChannelTypeOK'
<1>1. toClient \in Seq(MessageType) /\ Arrive(toClient, i, toClient')
  BY DEF TypeOK, ChannelTypeOK, ClientReceives
<1>2. toClient[i] \in MessageType
  BY <1>1, ElementOfSeq
<1>3. toClient' \in Seq(MessageType)
  BY <1>1, ArriveOne
<1>4. duplicates' \in 0..MaxDuplicates
  BY <1>1, ArriveKeepsBound DEF TypeOK, ChannelTypeOK
<1>5. toClient[i].run \in Nat /\ toClient[i].results \in Seq(BurstResultType)
  BY <1>2 DEF MessageType
<1> QED BY <1>2, <1>3, <1>4, <1>5 DEF ClientReceives, TypeOK, ChannelTypeOK

\* every step of the client does,
LEMMA ClientType == TypeOK /\ ClientMoves => TypeOK'
<1> SUFFICES ASSUME TypeOK, ClientMoves PROVE TypeOK'
  OBVIOUS
<1> USE DEF TypeOK
<1>1. ServerTypeOK' /\ errors' \in 0..MaxErrors
  BY DEF ClientMoves, serverVars, ServerTypeOK
<1>2. CASE SendControl
  <2>1. tries + 1 \in 0..MaxRetries /\ tries + 1 \in Nat
    BY <1>2, Bounds DEF SendControl, MayTry, ClientTypeOK
  <2>2. toServer' \in Seq(MessageType)
    BY <1>2, <2>1, ControlMessageType, AppendProperties DEF SendControl, ChannelTypeOK
  <2> QED BY <1>1, <1>2, <2>1, <2>2 DEF SendControl, ChannelTypeOK, ClientTypeOK
<1>3. CASE ReceiveTimeout
  BY <1>1, <1>3 DEF ReceiveTimeout, channelVars, ChannelTypeOK, ClientTypeOK
<1>4. CASE GiveUp
  BY <1>1, <1>4 DEF GiveUp, channelVars, ChannelTypeOK, ClientTypeOK, Phases
<1>5. CASE ClientSendFails
  BY <1>1, <1>5 DEF ClientSendFails, channelVars, ChannelTypeOK, ClientTypeOK, Phases
<1>6. CASE ReceiveBeginAck
  BY <1>1, <1>6, ClientReceivesType
     DEF ReceiveBeginAck, ClientReceives, ClientTypeOK, Phases
<1>7. CASE ReceiveCompleteAck
  BY <1>1, <1>7, ClientReceivesType
     DEF ReceiveCompleteAck, ClientReceives, ClientTypeOK, Phases
<1>8. CASE ReceiveUnexpected
  BY <1>1, <1>8, ClientReceivesType
     DEF ReceiveUnexpected, ClientReceives, ClientTypeOK, Phases
<1>9. CASE StartBurst
  BY <1>1, <1>9 DEF StartBurst, BurstsLeft, channelVars, ChannelTypeOK, ClientTypeOK, Phases
<1>10. CASE SendProbe
  <2> DEFINE probe == Message("PROBE", run, burst_num, seq_num, AsUnsigned(burst_len))
  <2>1. probe \in MessageType
    <3>1. run \in Nat /\ burst_num \in Nat /\ seq_num \in Nat
      BY Bounds DEF ClientTypeOK
    <3>2. AsUnsigned(burst_len) \in Nat
      BY AsUnsignedType DEF ClientTypeOK
    <3> QED BY <3>1, <3>2, MessageIsTyped DEF MessageTypes
  <2> HIDE DEF probe
  <2>2. /\ seq_num' = seq_num + 1
        /\ sent' = sent \cup {probe}
        /\ toServer' = Append(toServer, probe)
        /\ UNCHANGED <<run, params, phase, tries, waiting, stop, burst_len, burst_num,
                       report, beginRun, reportRun, misled, toClient, lost, duplicates>>
    BY <1>10 DEF SendProbe, probe
  <2>3. toServer' \in Seq(MessageType)
    BY <2>1, <2>2, AppendProperties DEF ChannelTypeOK
  <2> QED BY <1>1, <2>1, <2>2, <2>3 DEF ChannelTypeOK, ClientTypeOK
<1>11. CASE EndBurst
  BY <1>1, <1>11, GrowType DEF EndBurst, channelVars, ChannelTypeOK, ClientTypeOK, Phases
<1>12. CASE EndBursts
  <2>1. 0 \in 0..MaxRetries
    BY Bounds
  <2> QED BY <1>1, <1>12, <2>1
          DEF EndBursts, channelVars, ChannelTypeOK, ClientTypeOK, Phases
<1>13. CASE ClientStart
  <2>1. run' \in 0..MaxRuns /\ 0 \in 0..MaxRetries
    BY <1>13, Bounds DEF ClientStart, ClientTypeOK
  <2>2. params' \in Params /\ burst_len' \in -(IntMax + 1) .. IntMax
    BY <1>13, Bounds DEF ClientStart, ParamsType
  <2> QED BY <1>1, <1>13, <2>1, <2>2, EmptySeq
          DEF ClientStart, ChannelTypeOK, ClientTypeOK, Phases
<1>14. CASE Interrupt
  BY <1>1, <1>14 DEF Interrupt, channelVars, ChannelTypeOK, ClientTypeOK
<1>15. CASE ClientPortClosed
  <2>1. toClient' \in Seq(MessageType)
    BY <1>15, WithoutOne DEF ClientPortClosed, Deliverable, ChannelTypeOK
  <2> QED BY <1>1, <1>15, <2>1
          DEF ClientPortClosed, clientVars, ChannelTypeOK, ClientTypeOK
<1> QED BY <1>2, <1>3, <1>4, <1>5, <1>6, <1>7, <1>8, <1>9, <1>10, <1>11, <1>12,
           <1>13, <1>14, <1>15 DEF ClientMoves, ClientNext, ClientStep

\* a loss does,
LEMMA NetworkType == TypeOK /\ NetworkMoves => TypeOK'
<1> SUFFICES ASSUME TypeOK, NetworkMoves PROVE TypeOK'
  OBVIOUS
<1>1. (ClientTypeOK /\ ServerTypeOK /\ errors \in 0..MaxErrors)'
  BY DEF TypeOK, NetworkMoves, clientVars, serverVars, ClientTypeOK, ServerTypeOK
<1>2. CASE DropToServer
  BY <1>1, <1>2, WithoutOne, ElementOfSeq DEF DropToServer, Deliverable, TypeOK, ChannelTypeOK
<1>3. CASE DropToClient
  BY <1>1, <1>3, WithoutOne, ElementOfSeq DEF DropToClient, Deliverable, TypeOK, ChannelTypeOK
<1> QED BY <1>2, <1>3 DEF NetworkMoves

\* an ERROR from another peer does,
LEMMA PeerType == TypeOK /\ PeerSendsError => TypeOK'
<1> SUFFICES ASSUME TypeOK, PeerSendsError PROVE TypeOK'
  OBVIOUS
<1>1. (ClientTypeOK /\ ServerTypeOK /\ errors \in 0..MaxErrors)'
  BY Bounds DEF TypeOK, PeerSendsError, clientVars, serverVars, ClientTypeOK, ServerTypeOK
<1>2. Message("ERROR", run, 0, 0, 0) \in MessageType
  <2>1. run \in Nat
    BY Bounds DEF TypeOK, ClientTypeOK
  <2> QED BY <2>1, MessageIsTyped DEF MessageTypes
<1>3. ChannelTypeOK'
  BY <1>2, AppendProperties DEF PeerSendsError, TypeOK, ChannelTypeOK
<1> QED BY <1>1, <1>3 DEF TypeOK

\* and with them every step of the system.
LEMMA StepType == TypeOK /\ [Next]_vars => TypeOK'
<1> SUFFICES ASSUME TypeOK, [Next]_vars PROVE TypeOK'
  OBVIOUS
<1>1. CASE UNCHANGED vars
  BY <1>1 DEF vars, channelVars, clientVars, serverVars, TypeOK, ChannelTypeOK,
              ClientTypeOK, ServerTypeOK
<1> QED BY <1>1, ServerType, ClientType, NetworkType, PeerType DEF Next

\* Every variable of client, server and network stays in its range; the
\* retry counter never passes Socket::MAX_RETRIES, the burst length never
\* leaves int, and what is serialised are always results.
THEOREM TypeCorrect == Spec => []TypeOK
BY InitType, StepType, PTL DEF Spec

-----------------------------------------------------------------------------
(* The handshake keeps the server from following a null pointer.           *)

\* Sending a message adds its type to those in flight.
LEMMA TypesAppend ==
    ASSUME NEW q \in Seq(MessageType), NEW m \in MessageType
    PROVE  Types(Append(q, m)) = Types(q) \cup {m.type}
<1>1. Len(q) \in Nat
  BY LenProperties
<1>2. /\ Len(Append(q, m)) = Len(q) + 1
      /\ \A i \in 1..Len(q) : Append(q, m)[i] = q[i]
      /\ Append(q, m)[Len(q) + 1] = m
  BY AppendProperties
<1>3. Types(Append(q, m)) \subseteq Types(q) \cup {m.type}
  BY <1>1, <1>2 DEF Types
<1>4. Types(q) \cup {m.type} \subseteq Types(Append(q, m))
  BY <1>1, <1>2 DEF Types
<1> QED BY <1>3, <1>4

\* An empty queue holds no type.
LEMMA TypesEmpty == Types(<<>>) = {}
BY DEF Types

\* Taking a datagram out, or delivering one, adds no type.
LEMMA TypesWithout ==
    ASSUME NEW q \in Seq(MessageType), NEW i \in 1..Len(q)
    PROVE  Types(Without(q, i)) \subseteq Types(q) /\ q[i].type \in Types(q)
<1>1. \A j \in 1..Len(Without(q, i)) : \E k \in 1..Len(q) : Without(q, i)[j] = q[k]
  BY OthersStay
<1> QED BY <1>1 DEF Types

\* The same for an arrival, duplicated or not.
LEMMA TypesArrive ==
    ASSUME NEW q \in Seq(MessageType), NEW i \in 1..Len(q), NEW rest, Arrive(q, i, rest)
    PROVE  Types(rest) \subseteq Types(q) /\ q[i].type \in Types(q)
BY ArriveOne DEF Types

\* HandshakeInv holds initially,
LEMMA InitHandshake == Init => HandshakeInv
BY TypesEmpty DEF Init, ChannelInit, ClientInit, ServerInit, HandshakeInv, NoTestYet

\* What a handler of the server leaves in flight, and which null pointer it
\* can have followed.
LEMMA ReceivesHandshake ==
    ASSUME TypeOK, NEW i \in 1..Len(toServer), Receives(i)
    PROVE  /\ srv = "running"
           /\ toServer[i].type \in Types(toServer)
           /\ Types(toServer') \subseteq Types(toServer)
           /\ restarts' = restarts
           /\ "null" \in ub' /\ "null" \notin ub
             => testdata = "null" /\ toServer[i].type \in {"PROBE", "COMPLETE"}
<1>1. toServer \in Seq(MessageType) /\ Arrive(toServer, i, toServer')
  BY DEF TypeOK, ChannelTypeOK, Receives
<1>2. "null" \in ub' /\ "null" \notin ub
             => testdata = "null" /\ toServer[i].type \in {"PROBE", "COMPLETE"}
  <2>1. "null" \in FaultsOf(toServer[i]) => testdata = "null" /\ Dereferences(toServer[i])
    BY DEF FaultsOf
  <2> QED BY <2>1 DEF Receives, Dereferences
<1> QED BY <1>1, <1>2, TypesArrive DEF Receives

\* every step of the server preserves it,
LEMMA ServerHandshake == TypeOK /\ HandshakeInv /\ ServerMoves => HandshakeInv'
<1> SUFFICES ASSUME TypeOK, HandshakeInv, ServerMoves, restarts' + errors' = 0
             PROVE  /\ "null" \notin ub'
                    /\ "ERROR" \notin Types(toServer')
                    /\ NoTestYet'
  BY DEF HandshakeInv
<1>1. errors' = errors /\ phase' = phase /\ errors \in Nat /\ restarts \in Nat
  BY Bounds DEF ServerMoves, clientVars, TypeOK, ServerTypeOK
<1>2. ASSUME restarts' = restarts
      PROVE  "null" \notin ub /\ "ERROR" \notin Types(toServer) /\ NoTestYet
  BY <1>1, <1>2 DEF HandshakeInv
<1>3. CASE ServerHandles
  <2>1. PICK i \in 1..Len(toServer) : Receives(i)
    BY <1>3 DEF ServerHandles, ServerBegin, ServerProbeDropped, ServerProbe,
                ServerComplete, ServerError, ServerCrash, ServerSendFails
  <2>2. /\ "null" \notin ub /\ "ERROR" \notin Types(toServer) /\ NoTestYet
        /\ srv = "running" /\ Types(toServer') \subseteq Types(toServer)
    BY <1>2, <2>1, ReceivesHandshake
  <2>3. "null" \notin ub' /\ "ERROR" \notin Types(toServer')
    BY <2>1, <2>2, ReceivesHandshake DEF NoTestYet
  <2>4. CASE ServerBegin
    BY <2>3, <2>4 DEF ServerBegin, NoTestYet
  <2>5. CASE ServerProbeDropped \/ ServerProbe
    BY <1>1, <2>2, <2>3, <2>5 DEF ServerProbeDropped, ServerProbe, NoTestYet
  <2>6. CASE ServerComplete
    <3>1. "COMPLETE" \in Types(toServer)
      BY <2>6, ReceivesHandshake DEF ServerComplete
    <3> QED BY <2>2, <2>3, <2>6, <3>1 DEF ServerComplete, NoTestYet
  <2>7. CASE ServerError
    <3>1. "ERROR" \in Types(toServer)
      BY <2>7, ReceivesHandshake DEF ServerError
    <3> QED BY <2>2, <3>1
  <2>8. CASE ServerCrash \/ ServerSendFails
    BY <2>3, <2>8 DEF ServerCrash, ServerSendFails, ProcessEnds, NoTestYet
  <2> QED BY <1>3, <2>4, <2>5, <2>6, <2>7, <2>8 DEF ServerHandles
<1>4. CASE ServerStop
  BY <1>2, <1>4 DEF ServerStop, ProcessEnds, channelVars, NoTestYet
<1>5. CASE ServerRestart
  BY <1>1, <1>5 DEF ServerRestart
<1>6. CASE ServerPortClosed
  <2>1. PICK i \in 1..Len(toServer) : toServer' = Without(toServer, i)
    BY <1>6 DEF ServerPortClosed, Deliverable
  <2>2. Types(toServer') \subseteq Types(toServer)
    BY <2>1, TypesWithout DEF TypeOK, ChannelTypeOK
  <2> QED BY <1>2, <1>6, <2>2 DEF ServerPortClosed, serverVars, NoTestYet
<1> QED BY <1>3, <1>4, <1>5, <1>6 DEF ServerMoves, ServerNext

\* every step of the client does,
LEMMA ClientHandshake == TypeOK /\ HandshakeInv /\ ClientMoves => HandshakeInv'
<1> SUFFICES ASSUME TypeOK, HandshakeInv, ClientMoves, restarts + errors = 0
             PROVE  /\ "ERROR" \notin Types(toServer')
                    /\ NoTestYet'
  BY DEF HandshakeInv, ClientMoves, serverVars
<1>1. "null" \notin ub /\ "ERROR" \notin Types(toServer) /\ NoTestYet
  BY DEF HandshakeInv
<1>2. srv' = srv /\ testdata' = testdata
  BY DEF ClientMoves, serverVars
<1>3. ASSUME NEW i \in 1..Len(toClient), toClient = <<>>
      PROVE  FALSE
  BY <1>3
<1>4. CASE SendControl
  <2>1. tries + 1 \in Nat
    BY <1>4, Bounds DEF SendControl, MayTry, TypeOK, ClientTypeOK
  <2>2. Types(toServer') = Types(toServer) \cup {controlMessage(tries + 1).type}
    BY <1>4, <2>1, ControlMessageType, TypesAppend DEF SendControl, TypeOK, ChannelTypeOK
  <2>3. controlMessage(tries + 1).type = IF phase = "begin" THEN "BEGIN" ELSE "COMPLETE"
    BY DEF controlMessage, Message
  <2> QED BY <1>1, <1>2, <1>4, <2>2, <2>3 DEF SendControl, NoTestYet
<1>5. CASE ReceiveTimeout \/ Interrupt
  BY <1>1, <1>2, <1>5 DEF ReceiveTimeout, Interrupt, channelVars, NoTestYet
<1>6. CASE GiveUp \/ ClientSendFails
  BY <1>1, <1>2, <1>6 DEF GiveUp, ClientSendFails, channelVars, NoTestYet
<1>7. CASE ReceiveBeginAck \/ ReceiveCompleteAck \/ ReceiveUnexpected
  BY <1>1, <1>2, <1>3, <1>7
     DEF ReceiveBeginAck, ReceiveCompleteAck, ReceiveUnexpected, ClientReceives, NoTestYet
<1>8. CASE StartBurst \/ EndBurst \/ EndBursts
  BY <1>1, <1>2, <1>8 DEF StartBurst, BurstsLeft, EndBurst, EndBursts, channelVars, NoTestYet
<1>9. CASE SendProbe
  <2> DEFINE probe == Message("PROBE", run, burst_num, seq_num, AsUnsigned(burst_len))
  <2>1. probe \in MessageType /\ probe.type = "PROBE"
    <3>1. run \in Nat /\ burst_num \in Nat /\ seq_num \in Nat
      BY Bounds DEF TypeOK, ClientTypeOK
    <3>2. AsUnsigned(burst_len) \in Nat
      BY AsUnsignedType DEF TypeOK, ClientTypeOK
    <3>3. probe \in MessageType
      BY <3>1, <3>2, MessageIsTyped DEF MessageTypes
    <3> QED BY <3>3 DEF Message
  <2> HIDE DEF probe
  <2>2. toServer' = Append(toServer, probe)
    BY <1>9 DEF SendProbe, probe
  <2>3. Types(toServer') = Types(toServer) \cup {"PROBE"}
    BY <2>1, <2>2, TypesAppend DEF TypeOK, ChannelTypeOK
  <2> QED BY <1>1, <1>2, <1>9, <2>3 DEF SendProbe, NoTestYet
<1>10. CASE ClientStart
  BY <1>1, <1>2, <1>10 DEF ClientStart, NoTestYet
<1>11. CASE ClientPortClosed
  BY <1>1, <1>2, <1>3, <1>11 DEF ClientPortClosed, Deliverable, clientVars, NoTestYet
<1> QED BY <1>4, <1>5, <1>6, <1>7, <1>8, <1>9, <1>10, <1>11
        DEF ClientMoves, ClientNext, ClientStep

\* a loss does,
LEMMA NetworkHandshake == TypeOK /\ HandshakeInv /\ NetworkMoves => HandshakeInv'
<1> SUFFICES ASSUME TypeOK, HandshakeInv, NetworkMoves, restarts + errors = 0
             PROVE  "ERROR" \notin Types(toServer') /\ NoTestYet'
  BY DEF HandshakeInv, NetworkMoves, serverVars
<1>1. "ERROR" \notin Types(toServer) /\ NoTestYet
  BY DEF HandshakeInv
<1>2. srv' = srv /\ testdata' = testdata /\ phase' = phase
  BY DEF NetworkMoves, serverVars, clientVars
<1>3. CASE DropToServer
  <2>1. PICK i \in 1..Len(toServer) : toServer' = Without(toServer, i) /\ toClient' = toClient
    BY <1>3 DEF DropToServer, Deliverable
  <2>2. Types(toServer') \subseteq Types(toServer)
    BY <2>1, TypesWithout DEF TypeOK, ChannelTypeOK
  <2> QED BY <1>1, <1>2, <2>1, <2>2 DEF NoTestYet
<1>4. CASE DropToClient
  <2>1. toClient # <<>> /\ toServer' = toServer
    BY <1>4 DEF DropToClient, Deliverable
  <2> QED BY <1>1, <1>2, <2>1 DEF NoTestYet
<1> QED BY <1>3, <1>4 DEF NetworkMoves

\* and with them every step of the system.
LEMMA StepHandshake == TypeOK /\ HandshakeInv /\ [Next]_vars => HandshakeInv'
<1> SUFFICES ASSUME TypeOK, HandshakeInv, [Next]_vars PROVE HandshakeInv'
  OBVIOUS
<1>1. CASE PeerSendsError
  <2>1. restarts' + errors' # 0
    BY <1>1, Bounds DEF PeerSendsError, serverVars, TypeOK, ServerTypeOK
  <2> QED BY <2>1 DEF HandshakeInv
<1>2. CASE UNCHANGED vars
  BY <1>2 DEF vars, channelVars, clientVars, serverVars, HandshakeInv, NoTestYet, Types
<1> QED BY <1>1, <1>2, ServerHandshake, ClientHandshake, NetworkHandshake DEF Next

\* While the server was not restarted and no ERROR was sent, it has a test
\* object before any PROBE or COMPLETE of a client is in flight: client.cpp
\* leaves its first retry loop only after the acknowledgement of BEGIN.
THEOREM HandshakeHolds == Spec => []HandshakeInv
BY InitHandshake, StepHandshake, TypeCorrect, PTL DEF Spec

\* On every network the server dereferences a null testdata only after a
\* restart or an ERROR message, for any number of client runs and retries.
THEOREM NullDerefNeedsRestart == Spec => []NullDerefExplained
<1>1. TypeOK /\ HandshakeInv => NullDerefExplained
  BY Bounds DEF TypeOK, ServerTypeOK, HandshakeInv, NullDerefExplained
<1> QED BY <1>1, TypeCorrect, HandshakeHolds, PTL

-----------------------------------------------------------------------------
(* In a single run no probe points past the end of _bursts.                *)

\* What BurstNumbersAgree says of the datagrams under way to the server.
Agrees(m, num_bursts) ==
    /\ m.type = "BEGIN" => m.burst_num = num_bursts
    /\ m.type = "PROBE" => m.burst_num < num_bursts

AllAgree(q, num_bursts) == \A i \in 1..Len(q) : Agrees(q[i], num_bursts)

\* Sending a message that agrees on the number of bursts.
LEMMA AllAgreeAppend ==
    ASSUME NEW q \in Seq(MessageType), NEW m \in MessageType, NEW n,
           AllAgree(q, n), Agrees(m, n)
    PROVE  AllAgree(Append(q, m), n)
<1>1. Len(q) \in Nat
  BY LenProperties
<1>2. /\ Len(Append(q, m)) = Len(q) + 1
      /\ \A i \in 1..Len(q) : Append(q, m)[i] = q[i]
      /\ Append(q, m)[Len(q) + 1] = m
  BY AppendProperties
<1>3. ASSUME NEW i \in 1..(Len(q) + 1) PROVE Agrees(Append(q, m)[i], n)
  <2>1. CASE i \in 1..Len(q)
    BY <1>2, <2>1 DEF AllAgree
  <2>2. CASE i = Len(q) + 1
    BY <1>2, <2>2
  <2> QED BY <1>1, <2>1, <2>2
<1> QED BY <1>2, <1>3 DEF AllAgree

\* What is left of a queue that agrees on it agrees on it.
LEMMA AllAgreeRest ==
    ASSUME NEW q, NEW rest, NEW n, AllAgree(q, n),
           \A j \in 1..Len(rest) : \E k \in 1..Len(q) : rest[j] = q[k]
    PROVE  AllAgree(rest, n)
BY DEF AllAgree

\* BurstNumbersInv holds initially,
LEMMA InitBurstNumbers == Init => BurstNumbersInv
<1> SUFFICES ASSUME Init PROVE BurstNumbersAgree /\ NothingBeforeTheFirstRun /\ "index" \notin ub
  BY DEF BurstNumbersInv
<1> QED BY TypesEmpty DEF Init, ChannelInit, ClientInit, ServerInit, BurstNumbersAgree,
                          NothingBeforeTheFirstRun

\* What a handler of the server leaves in flight, and that it indexes _bursts
\* within its bounds.
LEMMA ReceivesBurstNumbers ==
    ASSUME TypeOK, NEW i \in 1..Len(toServer), Receives(i),
           BurstNumbersAgree, "index" \notin ub
    PROVE  /\ "index" \notin ub'
           /\ AllAgree(toServer', params.num_bursts)
           /\ Agrees(toServer[i], params.num_bursts)
           /\ Types(toServer') \subseteq Types(toServer)
           /\ toServer[i].type \in Types(toServer)
<1>1. toServer \in Seq(MessageType) /\ Arrive(toServer, i, toServer')
  BY DEF TypeOK, ChannelTypeOK, Receives
<1>2. AllAgree(toServer, params.num_bursts)
  BY DEF BurstNumbersAgree, AllAgree, Agrees
<1>3. Agrees(toServer[i], params.num_bursts)
  BY <1>2 DEF AllAgree
<1>4. AllAgree(toServer', params.num_bursts)
  BY <1>1, <1>2, ArriveOne, AllAgreeRest
<1>5. "index" \notin FaultsOf(toServer[i])
  <2>1. SUFFICES ASSUME "index" \in FaultsOf(toServer[i]) PROVE FALSE
    OBVIOUS
  <2>2. testdata = "object" /\ toServer[i].type = "PROBE" /\ toServer[i].burst_num >= Len(bursts)
    BY <2>1 DEF FaultsOf
  <2>3. toServer[i].burst_num < params.num_bursts /\ Len(bursts) = params.num_bursts
    BY <1>3, <2>2 DEF Agrees, BurstNumbersAgree
  <2>4. toServer[i] \in MessageType /\ bursts \in Seq(BurstDataType)
    BY <1>1, ElementOfSeq DEF TypeOK, ServerTypeOK
  <2>5. toServer[i].burst_num \in Nat /\ Len(bursts) \in Nat
    BY <2>4, LenProperties DEF MessageType
  <2> QED BY <2>2, <2>3, <2>5
<1>6. "index" \notin ub'
  BY <1>5 DEF Receives
<1> QED BY <1>1, <1>3, <1>4, <1>6, TypesArrive

\* every step of the server preserves it,
LEMMA ServerBurstNumbers == TypeOK /\ BurstNumbersInv /\ ServerMoves => BurstNumbersInv'
<1> SUFFICES ASSUME TypeOK, BurstNumbersInv, ServerMoves, run' <= 1
             PROVE  "index" \notin ub' /\ BurstNumbersAgree' /\ NothingBeforeTheFirstRun'
  BY DEF BurstNumbersInv
<1>1. run' = run /\ params' = params /\ phase' = phase /\ burst_num' = burst_num
  BY DEF ServerMoves, clientVars
<1>2. "index" \notin ub /\ BurstNumbersAgree /\ NothingBeforeTheFirstRun
  BY <1>1 DEF BurstNumbersInv
<1> DEFINE n == params.num_bursts
<1>3. ASSUME AllAgree(toServer', n), "index" \notin ub',
             testdata' = "object" => Len(bursts') = n,
             Types(toServer') \subseteq Types(toServer),
             run = 0 => testdata' # "object"
      PROVE  "index" \notin ub' /\ BurstNumbersAgree' /\ NothingBeforeTheFirstRun'
  BY <1>1, <1>2, <1>3 DEF BurstNumbersAgree, NothingBeforeTheFirstRun, AllAgree, Agrees
<1>4. AllAgree(toServer, n)
  BY <1>2 DEF BurstNumbersAgree, AllAgree, Agrees
<1>5. CASE ServerHandles
  <2>1. PICK i \in 1..Len(toServer) : Receives(i)
    BY <1>5 DEF ServerHandles, ServerBegin, ServerProbeDropped, ServerProbe,
                ServerComplete, ServerError, ServerCrash, ServerSendFails
  <2>2. /\ "index" \notin ub'
        /\ AllAgree(toServer', n)
        /\ Types(toServer') \subseteq Types(toServer)
    BY <1>2, <2>1, ReceivesBurstNumbers
  <2>3. CASE ServerBegin
    <3>1. PICK k \in 1..Len(toServer) :
            /\ toServer[k].type = "BEGIN"
            /\ Receives(k)
            /\ bursts' = NewTestData(toServer[k].burst_num)
      BY <2>3 DEF ServerBegin
    <3>2. toServer[k].burst_num = n /\ "BEGIN" \in Types(toServer)
      BY <1>2, <3>1, ReceivesBurstNumbers DEF Agrees
    <3>3. n \in Nat
      BY Bounds DEF TypeOK, ClientTypeOK, ParamsType, NoParams
    <3>4. Len(bursts') = n
      BY <3>1, <3>2, <3>3, NewTestDataType
    <3>5. run # 0
      BY <1>2, <3>2 DEF NothingBeforeTheFirstRun
    <3> QED BY <1>3, <2>2, <3>4, <3>5
  <2>4. CASE ServerProbeDropped \/ ServerComplete
    <3>1. UNCHANGED <<testdata, bursts>>
      BY <2>4 DEF ServerProbeDropped, ServerComplete
    <3> QED BY <1>2, <1>3, <2>2, <3>1 DEF BurstNumbersAgree, NothingBeforeTheFirstRun
  <2>5. CASE ServerProbe
    <3>1. PICK m : /\ testdata' = testdata
                   /\ bursts' = IF m.burst_num + 1 \in DOMAIN bursts
                                THEN [bursts EXCEPT ![m.burst_num + 1] = AddProbe(@, m)]
                                ELSE bursts
      BY <2>5 DEF ServerProbe
    <3>2. Len(bursts') = Len(bursts)
      BY <3>1, LenProperties DEF TypeOK, ServerTypeOK
    <3> QED BY <1>2, <1>3, <2>2, <3>1, <3>2 DEF BurstNumbersAgree, NothingBeforeTheFirstRun
  <2>6. CASE ServerError \/ ServerCrash \/ ServerSendFails
    <3>1. testdata' = "null"
      BY <2>6 DEF ServerError, ServerCrash, ServerSendFails, ProcessEnds
    <3> QED BY <1>3, <2>2, <3>1
  <2> QED BY <1>5, <2>3, <2>4, <2>5, <2>6 DEF ServerHandles
<1>6. CASE ServerStop
  <2>1. testdata' = "null" /\ toServer' = toServer /\ "index" \notin ub'
    BY <1>2, <1>6 DEF ServerStop, ProcessEnds, channelVars
  <2> QED BY <1>3, <1>4, <2>1
<1>7. CASE ServerRestart
  <2>1. testdata' # "object" /\ toServer' = toServer /\ ub' = ub
    BY <1>7 DEF ServerRestart, channelVars
  <2> QED BY <1>2, <1>3, <1>4, <2>1
<1>8. CASE ServerPortClosed
  <2>1. PICK i \in 1..Len(toServer) : toServer' = Without(toServer, i)
    BY <1>8 DEF ServerPortClosed, Deliverable
  <2>2. UNCHANGED <<ub, testdata, bursts>>
    BY <1>8 DEF ServerPortClosed, serverVars
  <2>3. toServer \in Seq(MessageType)
    BY DEF TypeOK, ChannelTypeOK
  <2>4. AllAgree(toServer', n)
    BY <1>4, <2>1, <2>3, WithoutOne, AllAgreeRest
  <2>5. Types(toServer') \subseteq Types(toServer)
    BY <2>1, <2>3, TypesWithout
  <2> QED BY <1>2, <1>3, <2>2, <2>4, <2>5 DEF BurstNumbersAgree, NothingBeforeTheFirstRun
<1> QED BY <1>5, <1>6, <1>7, <1>8 DEF ServerMoves, ServerNext

\* every step of the client does,
LEMMA ClientBurstNumbers == TypeOK /\ BurstNumbersInv /\ ClientMoves => BurstNumbersInv'
<1> SUFFICES ASSUME TypeOK, BurstNumbersInv, ClientMoves, run' <= 1
             PROVE  BurstNumbersInv'
  BY DEF BurstNumbersInv
<1>1. UNCHANGED <<ub, testdata, bursts>> /\ run \in Nat
  BY Bounds DEF ClientMoves, serverVars, TypeOK, ClientTypeOK
<1>2. CASE ClientStart
  <2>1. run = 0 /\ run' = 1 /\ phase' = "begin" /\ toServer' = toServer
    BY <1>1, <1>2 DEF ClientStart
  <2>2. "index" \notin ub /\ testdata # "object" /\ Types(toServer) \subseteq {"ERROR"}
    BY <2>1 DEF BurstNumbersInv, NothingBeforeTheFirstRun
  <2>3. \A i \in 1..Len(toServer) : toServer[i].type = "ERROR"
    BY <2>2 DEF Types
  <2> QED BY <1>1, <2>1, <2>2, <2>3
          DEF BurstNumbersInv, BurstNumbersAgree, NothingBeforeTheFirstRun
<1>3. ASSUME ~ClientStart
      PROVE  /\ run' = run /\ params' = params
             /\ "index" \notin ub /\ BurstNumbersAgree /\ NothingBeforeTheFirstRun
  <2>1. run' = run /\ params' = params
    BY <1>3 DEF ClientMoves, ClientNext, ClientStep, SendControl, MayTry, ReceiveTimeout, GiveUp,
                ClientSendFails, ReceiveBeginAck, ReceiveCompleteAck, ReceiveUnexpected,
                ClientReceives, StartBurst, SendProbe, EndBurst, EndBursts, Interrupt,
                ClientPortClosed, clientVars
  <2> QED BY <2>1 DEF BurstNumbersInv
<1> DEFINE n == params.num_bursts
<1>4. ASSUME ~ClientStart, AllAgree(toServer', n),
             phase' = "burst" => burst_num' < n,
             run = 0 => phase' = "idle" /\ toServer' = toServer
      PROVE  BurstNumbersInv'
  BY <1>1, <1>3, <1>4
     DEF BurstNumbersInv, BurstNumbersAgree, NothingBeforeTheFirstRun, AllAgree, Agrees
<1>5. ASSUME ~ClientStart PROVE AllAgree(toServer, n)
  BY <1>3, <1>5 DEF BurstNumbersAgree, AllAgree, Agrees
<1>6. ASSUME ~ClientStart, run = 0 PROVE phase = "idle"
  BY <1>3, <1>6 DEF NothingBeforeTheFirstRun
<1>7. CASE SendControl
  <2> DEFINE m == controlMessage(tries + 1)
  <2>1. ~ClientStart
    BY <1>7 DEF ClientStart, SendControl, Alive
  <2>2. m \in MessageType
    BY <1>7, Bounds, ControlMessageType DEF SendControl, MayTry, TypeOK, ClientTypeOK
  <2>3. Agrees(m, n)
    BY DEF Agrees, controlMessage, Message
  <2>4. toServer' = Append(toServer, m) /\ phase' = phase /\ phase \in {"begin", "complete"}
    BY <1>7 DEF SendControl
  <2> HIDE DEF m
  <2>5. AllAgree(toServer', n)
    BY <1>5, <2>1, <2>2, <2>3, <2>4, AllAgreeAppend DEF TypeOK, ChannelTypeOK
  <2> QED BY <1>4, <1>6, <2>1, <2>4, <2>5
<1>8. CASE SendProbe
  <2> DEFINE m == Message("PROBE", run, burst_num, seq_num, AsUnsigned(burst_len))
  <2>1. ~ClientStart
    BY <1>8 DEF ClientStart, SendProbe, Alive
  <2>2. m \in MessageType
    <3>1. run \in Nat /\ burst_num \in Nat /\ seq_num \in Nat
      BY Bounds DEF TypeOK, ClientTypeOK
    <3>2. AsUnsigned(burst_len) \in Nat
      BY AsUnsignedType DEF TypeOK, ClientTypeOK
    <3> QED BY <3>1, <3>2, MessageIsTyped DEF MessageTypes
  <2>3. burst_num < n
    BY <1>3, <1>8, <2>1 DEF SendProbe, BurstNumbersAgree
  <2>4. Agrees(m, n)
    BY <2>3 DEF Agrees, Message
  <2>5. toServer' = Append(toServer, m) /\ phase' = phase /\ phase = "burst" /\ burst_num' = burst_num
    BY <1>8 DEF SendProbe
  <2> HIDE DEF m
  <2>6. AllAgree(toServer', n)
    BY <1>5, <2>1, <2>2, <2>4, <2>5, AllAgreeAppend DEF TypeOK, ChannelTypeOK
  <2> QED BY <1>4, <1>6, <2>1, <2>3, <2>5, <2>6
<1>9. CASE StartBurst
  <2>1. ~ClientStart /\ burst_num' < n /\ toServer' = toServer /\ phase = "loop"
    BY <1>9 DEF ClientStart, StartBurst, BurstsLeft, Alive, channelVars
  <2> QED BY <1>4, <1>5, <1>6, <2>1
<1>10. CASE ReceiveTimeout \/ Interrupt \/ ClientPortClosed
  <2>1. UNCHANGED <<toServer, phase, burst_num, run>>
    BY <1>10 DEF ReceiveTimeout, Interrupt, ClientPortClosed, channelVars, clientVars
  <2>2. ~ClientStart
    BY <2>1, <1>1 DEF ClientStart
  <2> QED BY <1>3, <1>4, <1>5, <1>6, <2>1, <2>2 DEF BurstNumbersAgree
<1>11. CASE GiveUp \/ ClientSendFails \/ ReceiveBeginAck \/ ReceiveCompleteAck
            \/ ReceiveUnexpected \/ EndBurst \/ EndBursts
  <2>1. toServer' = toServer /\ run' = run /\ phase' # "burst" /\ phase # "idle"
    BY <1>11 DEF GiveUp, ClientSendFails, ReceiveBeginAck, ReceiveCompleteAck,
                 ReceiveUnexpected, ClientReceives, EndBurst, EndBursts, channelVars
  <2>2. ~ClientStart
    BY <2>1, <1>1 DEF ClientStart
  <2> QED BY <1>4, <1>5, <1>6, <2>1, <2>2
<1> QED BY <1>2, <1>7, <1>8, <1>9, <1>10, <1>11 DEF ClientMoves, ClientNext, ClientStep

\* losses and the ERROR of another peer do,
LEMMA OtherBurstNumbers ==
    TypeOK /\ BurstNumbersInv /\ (NetworkMoves \/ PeerSendsError) => BurstNumbersInv'
<1> SUFFICES ASSUME TypeOK, BurstNumbersInv, NetworkMoves \/ PeerSendsError, run <= 1
             PROVE  BurstNumbersAgree' /\ NothingBeforeTheFirstRun'
  BY DEF BurstNumbersInv, NetworkMoves, PeerSendsError, serverVars, clientVars
<1>1. UNCHANGED <<run, params, phase, burst_num, testdata, bursts>>
  BY DEF NetworkMoves, PeerSendsError, serverVars, clientVars
<1>2. BurstNumbersAgree /\ NothingBeforeTheFirstRun
  BY DEF BurstNumbersInv
<1> DEFINE n == params.num_bursts
<1>3. AllAgree(toServer, n) /\ toServer \in Seq(MessageType)
  BY <1>2 DEF BurstNumbersAgree, AllAgree, Agrees, TypeOK, ChannelTypeOK
<1>4. AllAgree(toServer', n) /\ Types(toServer') \subseteq Types(toServer) \cup {"ERROR"}
  <2>1. CASE DropToServer
    <3>1. PICK i \in 1..Len(toServer) : toServer' = Without(toServer, i)
      BY <2>1 DEF DropToServer, Deliverable
    <3> QED BY <1>3, <3>1, WithoutOne, TypesWithout, AllAgreeRest
  <2>2. CASE DropToClient
    BY <1>3, <2>2 DEF DropToClient
  <2>3. CASE PeerSendsError
    <3> DEFINE m == Message("ERROR", run, 0, 0, 0)
    <3>1. m \in MessageType
      <4>1. run \in Nat
        BY Bounds DEF TypeOK, ClientTypeOK
      <4> QED BY <4>1, MessageIsTyped DEF MessageTypes
    <3>2. m.type = "ERROR" /\ Agrees(m, n)
      BY DEF Message, Agrees
    <3>3. toServer' = Append(toServer, m)
      BY <2>3 DEF PeerSendsError
    <3> HIDE DEF m
    <3> QED BY <1>3, <3>1, <3>2, <3>3, AllAgreeAppend, TypesAppend
  <2> QED BY <2>1, <2>2, <2>3 DEF NetworkMoves
<1> QED BY <1>1, <1>2, <1>4 DEF BurstNumbersAgree, NothingBeforeTheFirstRun, AllAgree, Agrees

\* and with them every step of the system.
LEMMA StepBurstNumbers == TypeOK /\ BurstNumbersInv /\ [Next]_vars => BurstNumbersInv'
<1> SUFFICES ASSUME TypeOK, BurstNumbersInv, [Next]_vars PROVE BurstNumbersInv'
  OBVIOUS
<1>1. CASE UNCHANGED vars
  BY <1>1 DEF vars, channelVars, clientVars, serverVars, BurstNumbersInv,
              BurstNumbersAgree, NothingBeforeTheFirstRun, Types
<1> QED BY <1>1, ServerBurstNumbers, ClientBurstNumbers, OtherBurstNumbers DEF Next

\* In a single client run the BEGINs in flight, the vector of the server, the
\* probes in flight and the loop of the client agree on the number of bursts.
THEOREM BurstNumbersHold == Spec => []BurstNumbersInv
BY InitBurstNumbers, StepBurstNumbers, TypeCorrect, PTL DEF Spec

-----------------------------------------------------------------------------
(* A run is a session, as ProbeSession describes it, as long as the server *)
(* is not started again.                                                   *)

\* The probes sent in a burst.
ProbesOf(b) == {m \in sent : m.burst_num = b}

\* The length of a burst of which the given probes arrived, and its line in
\* the report.
LengthOf(arrived) == IF arrived = {} THEN 0 ELSE (CHOOSE m \in arrived : TRUE).burst_len
LineOf(arrived) == Summary(LengthOf(arrived), {m.seq_num : m \in arrived})

\* What was sent: burst after burst, each with one length, and the probes of
\* the burst under way are as many as seq_num says.
SentInv ==
    /\ sent # {} => phase \notin {"idle", "begin"}
    /\ \A m \in sent : /\ m.burst_num <= burst_num
                       /\ m.burst_num = burst_num => m.burst_len = AsUnsigned(burst_len)
    /\ \A m, p \in sent : m.burst_num = p.burst_num => m.burst_len = p.burst_len
    /\ phase = "loop" => ProbesOf(burst_num) = {}
    /\ phase = "burst" => /\ IsFiniteSet(ProbesOf(burst_num))
                          /\ Cardinality(ProbesOf(burst_num)) = seq_num
                          /\ \A m \in ProbesOf(burst_num) : m.seq_num < seq_num

\* A burst of the server holds the probes that arrived, or some of those that
\* may have.
RecordOf(burst, arrived) ==
    /\ SeqNums(burst) = {m.seq_num : m \in arrived}
    /\ burst.len = LengthOf(arrived)

Records(burst, probes) == \E arrived \in SUBSET probes : RecordOf(burst, arrived)

\* Results with a line for every burst, each about some of its probes.
IsReport(results) ==
    /\ Len(results) = params.num_bursts
    /\ \A b \in 1..params.num_bursts :
          \E arrived \in SUBSET ProbesOf(b - 1) : results[b] = LineOf(arrived)

\* The probes in flight, those in the vector and those in the results under
\* way are probes that were sent.
ProbesInFlight ==
    \A i \in 1..Len(toServer) : toServer[i].type = "PROBE" => toServer[i] \in sent

BurstsRecord ==
    /\ testdata # "object" => bursts = <<>>
    /\ \A b \in DOMAIN bursts : Records(bursts[b], ProbesOf(b - 1))

ReportsInFlight ==
    \A i \in 1..Len(toClient) :
        toClient[i].type = "COMPLETE_ACK" => IsReport(toClient[i].results)

\* A pointer that was never set is followed by no COMPLETE: no BEGIN was
\* handled, so the client is not that far.
WildBeforeBegin ==
    testdata = "wild"
        => /\ toClient = <<>>
           /\ "COMPLETE" \notin Types(toServer)
           /\ phase \in {"idle", "begin", "failed"}

RecordedInv ==
    /\ ProbesInFlight
    /\ BurstsRecord
    /\ ReportsInFlight
    /\ WildBeforeBegin
    /\ run = 0 => toClient = <<>> /\ sent = {} /\ report = <<>>

\* Everything a step of the session rests on.
SessionInv == SentInv /\ RecordedInv

\* The initial state has sent and recorded nothing.
LEMMA InitSession == Init => SessionInv
<1> SUFFICES ASSUME Init PROVE SessionInv
  OBVIOUS
<1>1. /\ sent = {} /\ phase = "idle" /\ toServer = <<>> /\ toClient = <<>> /\ bursts = <<>>
      /\ report = <<>>
  BY DEF Init, ChannelInit, ClientInit, ServerInit
<1>2. SentInv
  BY <1>1 DEF SentInv
<1>3. RecordedInv
  BY <1>1, TypesEmpty
     DEF RecordedInv, ProbesInFlight, BurstsRecord, ReportsInFlight, WildBeforeBegin
<1> QED BY <1>2, <1>3 DEF SessionInv

\* When the only run starts nothing was sent yet.
LEMMA FirstStart ==
    ASSUME TypeOK, BurstNumbersInv, ClientStart, MaxRuns = 1
    PROVE  /\ run = 0 /\ phase = "idle" /\ testdata # "object"
           /\ Types(toServer) \subseteq {"ERROR"}
<1>1. run = 0
  BY DEF ClientStart, TypeOK, ClientTypeOK
<1> QED BY <1>1 DEF BurstNumbersInv, NothingBeforeTheFirstRun

\* The steps that leave the bursts as they are, and main in its place or out
\* of the bursts.
LEMMA SentKept ==
    ASSUME SentInv, UNCHANGED <<sent, burst_num, burst_len, seq_num>>,
           phase' = phase \/ (phase' \in {"failed", "reported", "complete"})
    PROVE  SentInv'
BY DEF SentInv, ProbesOf

\* Every step keeps what was sent in order.
LEMMA SentPreserved ==
    ASSUME TypeOK, SentInv, [Next]_vars
    PROVE  SentInv'
<1>1. CASE ClientStart
  BY <1>1 DEF ClientStart, SentInv
<1>2. CASE SendProbe
  <2> DEFINE probe == Message("PROBE", run, burst_num, seq_num, AsUnsigned(burst_len))
  <2>1. /\ probe.burst_num = burst_num /\ probe.seq_num = seq_num
        /\ probe.burst_len = AsUnsigned(burst_len)
    BY DEF Message
  <2>2. /\ phase = "burst" /\ sent' = sent \cup {probe} /\ seq_num' = seq_num + 1
        /\ UNCHANGED <<phase, burst_num, burst_len>>
    BY <1>2 DEF SendProbe
  <2> HIDE DEF probe
  <2>3. seq_num \in Nat /\ burst_num \in Nat
    BY DEF TypeOK, ClientTypeOK
  <2>4. ProbesOf(burst_num)' = ProbesOf(burst_num) \cup {probe}
    BY <2>1, <2>2 DEF ProbesOf
  <2>5. /\ IsFiniteSet(ProbesOf(burst_num)) /\ Cardinality(ProbesOf(burst_num)) = seq_num
        /\ \A m \in ProbesOf(burst_num) : m.seq_num < seq_num
        /\ \A m \in ProbesOf(burst_num) : m.seq_num # seq_num
    BY <2>2, <2>3 DEF SentInv
  <2>6. probe \notin ProbesOf(burst_num)
    BY <2>1, <2>5
  <2>7. IsFiniteSet(ProbesOf(burst_num)') /\ Cardinality(ProbesOf(burst_num)') = seq_num + 1
    BY <2>4, <2>5, <2>6, FS_AddElement
  <2>8. \A m \in ProbesOf(burst_num)' : m.seq_num < seq_num + 1
    <3>1. ASSUME NEW m \in ProbesOf(burst_num) PROVE m.seq_num < seq_num + 1
      <4>1. m.seq_num \in Nat
        BY DEF ProbesOf, TypeOK, ClientTypeOK, MessageType
      <4> QED BY <2>3, <2>5, <4>1
    <3>2. probe.seq_num < seq_num + 1
      BY <2>1, <2>3
    <3> QED BY <2>4, <3>1, <3>2
  <2>9. \A m \in sent' : /\ m.burst_num <= burst_num
                         /\ m.burst_num = burst_num => m.burst_len = AsUnsigned(burst_len)
    BY <2>1, <2>2, <2>3 DEF SentInv
  <2>10. \A m, p \in sent' : m.burst_num = p.burst_num => m.burst_len = p.burst_len
    BY <2>1, <2>2, <2>9 DEF SentInv
  <2> QED BY <2>2, <2>7, <2>8, <2>9, <2>10 DEF SentInv
<1>3. CASE StartBurst
  <2>1. /\ phase = "loop" /\ phase' = "burst" /\ seq_num' = 0
        /\ UNCHANGED <<sent, burst_num, burst_len>>
    BY <1>3 DEF StartBurst
  <2>2. ProbesOf(burst_num)' = {}
    BY <2>1 DEF SentInv, ProbesOf
  <2> QED BY <2>1, <2>2, FS_EmptySet DEF SentInv
<1>4. CASE EndBurst
  <2>1. /\ phase' = "loop" /\ burst_num' = burst_num + 1 /\ UNCHANGED sent /\ phase = "burst"
    BY <1>4 DEF EndBurst
  <2>2. burst_num \in Nat
    BY DEF TypeOK, ClientTypeOK
  <2>3. ASSUME NEW m \in sent PROVE m.burst_num <= burst_num' /\ m.burst_num # burst_num'
    <3>1. m.burst_num \in Nat /\ m.burst_num <= burst_num
      BY DEF SentInv, TypeOK, ClientTypeOK, MessageType
    <3> QED BY <2>1, <2>2, <3>1
  <2>4. ProbesOf(burst_num)' = {}
    BY <2>1, <2>3 DEF ProbesOf
  <2> QED BY <2>1, <2>3, <2>4 DEF SentInv
<1>5. CASE ReceiveBeginAck
  <2>1. /\ phase = "begin" /\ phase' = "loop" /\ UNCHANGED <<sent, burst_num, burst_len>>
    BY <1>5 DEF ReceiveBeginAck, ClientReceives
  <2>2. sent = {} /\ sent' = {} /\ ProbesOf(burst_num)' = {}
    BY <2>1 DEF SentInv, ProbesOf
  <2> QED BY <2>1, <2>2 DEF SentInv
<1>6. CASE SendControl \/ ReceiveTimeout \/ GiveUp \/ ClientSendFails \/ ReceiveCompleteAck
            \/ ReceiveUnexpected \/ EndBursts \/ Interrupt \/ ClientPortClosed
  BY <1>6, SentKept
     DEF SendControl, ReceiveTimeout, GiveUp, ClientSendFails, ReceiveCompleteAck,
         ReceiveUnexpected, ClientReceives, EndBursts, Interrupt, ClientPortClosed, clientVars
<1>7. CASE ServerMoves \/ NetworkMoves \/ PeerSendsError \/ UNCHANGED vars
  <2>1. UNCHANGED clientVars
    BY <1>7 DEF ServerMoves, NetworkMoves, PeerSendsError, vars
  <2> QED BY <2>1, SentKept DEF clientVars
<1> QED BY <1>1, <1>2, <1>3, <1>4, <1>5, <1>6, <1>7
        DEF Next, ClientMoves, ClientNext, ClientStep

\* What was sent is only added to, so reports and bursts stay true.
LEMMA StaysTrue ==
    ASSUME sent \subseteq sent', params' = params
    PROVE  /\ \A results : IsReport(results) => IsReport(results)'
           /\ \A burst, b : Records(burst, ProbesOf(b)) => Records(burst, ProbesOf(b)')
<1>1. \A b : ProbesOf(b) \subseteq ProbesOf(b)'
  BY DEF ProbesOf
<1>2. ASSUME NEW results, IsReport(results) PROVE IsReport(results)'
  BY <1>1, <1>2 DEF IsReport
<1>3. ASSUME NEW burst, NEW b, Records(burst, ProbesOf(b))
      PROVE  Records(burst, ProbesOf(b)')
  BY <1>1, <1>3 DEF Records
<1> QED BY <1>2, <1>3

\* All probes of a burst announce the length the line of the burst has.
LEMMA OneLength ==
    ASSUME SentInv, NEW b, NEW arrived \in SUBSET ProbesOf(b), NEW m \in arrived
    PROVE  LengthOf(arrived) = m.burst_len
<1> DEFINE p == CHOOSE x \in arrived : TRUE
<1>1. p \in arrived
  OBVIOUS
<1>2. p \in sent /\ m \in sent /\ p.burst_num = m.burst_num
  BY <1>1 DEF ProbesOf
<1>3. p.burst_len = m.burst_len
  BY <1>2 DEF SentInv
<1> QED BY <1>3 DEF LengthOf

\* A probe of the burst joins those that were recorded,
LEMMA RecordOfMore ==
    ASSUME SentInv, NEW burst, NEW b, NEW arrived \in SUBSET ProbesOf(b), NEW m \in ProbesOf(b),
           RecordOf(burst, arrived)
    PROVE  RecordOf(AddProbe(burst, m), arrived \cup {m})
<1> DEFINE more == arrived \cup {m}
<1>1. more \in SUBSET ProbesOf(b) /\ m \in more
  OBVIOUS
<1>2. LengthOf(more) = m.burst_len
  BY <1>1, OneLength
<1>3. AddProbe(burst, m).len = m.burst_len
  BY DEF AddProbe
<1>4. SeqNums(AddProbe(burst, m)) = SeqNums(burst) \cup {m.seq_num}
  <2>1. CASE m.seq_num \in SeqNums(burst)
    BY <2>1 DEF AddProbe, SeqNums
  <2>2. CASE m.seq_num \notin SeqNums(burst)
    <3> DEFINE entry == [seq_num |-> m.seq_num, run |-> m.run]
    <3>1. AddProbe(burst, m).probes = burst.probes \cup {entry} /\ entry.seq_num = m.seq_num
      BY <2>2 DEF AddProbe
    <3> HIDE DEF entry
    <3> QED BY <3>1 DEF SeqNums
  <2> QED BY <2>1, <2>2
<1>5. {p.seq_num : p \in more} = {p.seq_num : p \in arrived} \cup {m.seq_num}
  OBVIOUS
<1> QED BY <1>2, <1>3, <1>4, <1>5 DEF RecordOf

\* and so is recorded as one of those that were sent in it.
LEMMA RecordsAdd ==
    ASSUME SentInv, NEW burst, NEW m \in sent, Records(burst, ProbesOf(m.burst_num))
    PROVE  Records(AddProbe(burst, m), ProbesOf(m.burst_num))
<1>1. PICK arrived \in SUBSET ProbesOf(m.burst_num) : RecordOf(burst, arrived)
  BY DEF Records
<1>2. m \in ProbesOf(m.burst_num)
  BY DEF ProbesOf
<1>3. RecordOf(AddProbe(burst, m), arrived \cup {m})
  BY <1>1, <1>2, RecordOfMore
<1> QED BY <1>2, <1>3 DEF Records

\* The results of the bursts are a report.
LEMMA ResultsReport ==
    ASSUME BurstsRecord, Len(bursts) = params.num_bursts, bursts \in Seq(BurstDataType)
    PROVE  IsReport(TestResults(bursts))
<1>1. DOMAIN bursts = 1..params.num_bursts /\ Len(bursts) \in Nat
  OBVIOUS
<1>2. TestResults(bursts) = [b \in 1..params.num_bursts |-> BurstResults(bursts[b])]
  BY <1>1 DEF TestResults
<1>3. Len(TestResults(bursts)) = params.num_bursts
  BY <1>1, <1>2
<1>4. ASSUME NEW b \in 1..params.num_bursts
      PROVE  \E arrived \in SUBSET ProbesOf(b - 1) : TestResults(bursts)[b] = LineOf(arrived)
  <2>1. PICK arrived \in SUBSET ProbesOf(b - 1) :
            /\ SeqNums(bursts[b]) = {m.seq_num : m \in arrived}
            /\ bursts[b].len = LengthOf(arrived)
    BY <1>1 DEF BurstsRecord, Records, RecordOf
  <2>2. TestResults(bursts)[b] = LineOf(arrived)
    BY <1>2, <2>1 DEF BurstResults, LineOf
  <2> QED BY <2>2
<1> QED BY <1>3, <1>4 DEF IsReport

\* A message that joins those on their way back, and the rest of them.
LEMMA ReportsAppend ==
    ASSUME toClient \in Seq(MessageType), NEW m, ReportsInFlight,
           m.type = "COMPLETE_ACK" => IsReport(m.results),
           toClient' = Append(toClient, m), UNCHANGED <<sent, params>>
    PROVE  ReportsInFlight'
<1>1. ASSUME NEW i \in 1..(Len(toClient) + 1), toClient'[i].type = "COMPLETE_ACK"
      PROVE  IsReport(toClient'[i].results)
  <2>1. CASE i = Len(toClient) + 1
    BY <1>1, <2>1
  <2>2. CASE i # Len(toClient) + 1
    <3>1. i \in 1..Len(toClient) /\ toClient'[i] = toClient[i]
      BY <2>2
    <3> QED BY <1>1, <3>1 DEF ReportsInFlight
  <2> QED BY <2>1, <2>2
<1>2. Len(toClient') = Len(toClient) + 1
  OBVIOUS
<1> QED BY <1>1, <1>2 DEF ReportsInFlight, IsReport, ProbesOf

LEMMA ReportsRest ==
    ASSUME ReportsInFlight, sent \subseteq sent', params' = params,
           \A j \in 1..Len(toClient') : \E k \in 1..Len(toClient) : toClient'[j] = toClient[k]
    PROVE  ReportsInFlight'
<1>1. \A b : ProbesOf(b) \subseteq ProbesOf(b)'
  BY DEF ProbesOf
<1>2. ASSUME NEW j \in 1..Len(toClient'), toClient'[j].type = "COMPLETE_ACK"
      PROVE  /\ Len(toClient'[j].results) = params.num_bursts
             /\ \A b \in 1..params.num_bursts :
                   \E arrived \in SUBSET ProbesOf(b - 1)' :
                       toClient'[j].results[b] = LineOf(arrived)
  <2>1. PICK k \in 1..Len(toClient) : toClient'[j] = toClient[k]
    OBVIOUS
  <2>2. IsReport(toClient[k].results)
    BY <1>2, <2>1 DEF ReportsInFlight
  <2> QED BY <1>1, <2>1, <2>2 DEF IsReport
<1> QED BY <1>2 DEF ReportsInFlight, IsReport

\* Every message left on its way to the server was on its way before.
LEMMA ServerTakes ==
    ASSUME TypeOK, ServerMoves
    PROVE  /\ \A j \in 1..Len(toServer') : \E k \in 1..Len(toServer) : toServer'[j] = toServer[k]
           /\ Types(toServer') \subseteq Types(toServer)
<1>1. toServer \in Seq(MessageType)
  BY DEF TypeOK, ChannelTypeOK
<1>2. \A j \in 1..Len(toServer') : \E k \in 1..Len(toServer) : toServer'[j] = toServer[k]
  <2>1. CASE ServerHandles
    <3>1. PICK i \in 1..Len(toServer) : Receives(i)
      BY <2>1 DEF ServerHandles, ServerBegin, ServerProbeDropped, ServerProbe,
                  ServerComplete, ServerError, ServerCrash, ServerSendFails
    <3> QED BY <1>1, <3>1, ArriveOne DEF Receives
  <2>2. CASE ServerStop \/ ServerRestart
    <3>1. toServer' = toServer
      BY <2>2 DEF ServerStop, ServerRestart, channelVars
    <3> QED BY <3>1
  <2>3. CASE ServerPortClosed
    <3>1. PICK i \in 1..Len(toServer) : toServer' = Without(toServer, i)
      BY <2>3 DEF ServerPortClosed, Deliverable
    <3>2. \A j \in 1..Len(Without(toServer, i)) :
              \E k \in 1..Len(toServer) : Without(toServer, i)[j] = toServer[k]
      BY <1>1, WithoutOne
    <3> QED BY <3>1, <3>2
  <2> QED BY <2>1, <2>2, <2>3 DEF ServerMoves, ServerNext
<1> QED BY <1>2 DEF Types

\* What the single run and the server that is not started again come to.
LEMMA OneRun ==
    ASSUME TypeOK, BurstNumbersInv, MaxRuns = 1, MaxRestarts = 0
    PROVE  /\ run \in 0..1 /\ ~ServerRestart
           /\ BurstNumbersAgree /\ NothingBeforeTheFirstRun
<1>1. run \in 0..1 /\ restarts \in 0..0
  BY DEF TypeOK, ClientTypeOK, ServerTypeOK
<1>2. ~ServerRestart
  BY <1>1 DEF ServerRestart
<1> QED BY <1>1, <1>2 DEF BurstNumbersInv

\* No handler of the server makes up a probe: what it records and what it
\* answers was sent,
LEMMA ServerRecords ==
    ASSUME TypeOK, BurstNumbersInv, SentInv, RecordedInv, ServerMoves,
           MaxRuns = 1, MaxRestarts = 0
    PROVE  RecordedInv'
<1>1. /\ UNCHANGED <<sent, params, phase, run, report>>
      /\ toServer \in Seq(MessageType) /\ toClient \in Seq(MessageType)
      /\ bursts \in Seq(BurstDataType)
  BY DEF ServerMoves, clientVars, TypeOK, ChannelTypeOK, ServerTypeOK
<1>2. /\ ~ServerRestart /\ BurstNumbersAgree
      /\ run = 0 => Types(toServer) \subseteq {"ERROR"}
  BY OneRun DEF NothingBeforeTheFirstRun
<1>3. ProbesInFlight' /\ Types(toServer') \subseteq Types(toServer)
  BY <1>1, ServerTakes DEF RecordedInv, ProbesInFlight
<1>4. /\ \A results : IsReport(results) => IsReport(results)'
      /\ \A burst, b : Records(burst, ProbesOf(b)) => Records(burst, ProbesOf(b)')
  BY <1>1, StaysTrue
<1>5. ASSUME UNCHANGED <<testdata, toClient>>,
             \A b \in DOMAIN bursts' : Records(bursts'[b], ProbesOf(b - 1)),
             testdata # "object" => bursts' = <<>>
      PROVE  RecordedInv'
  <2>1. BurstsRecord'
    BY <1>4, <1>5 DEF BurstsRecord
  <2>2. ReportsInFlight'
    BY <1>1, <1>5, ReportsRest DEF RecordedInv
  <2>3. WildBeforeBegin'
    BY <1>1, <1>3, <1>5 DEF RecordedInv, WildBeforeBegin
  <2> QED BY <1>1, <1>3, <1>5, <2>1, <2>2, <2>3 DEF RecordedInv
<1>6. ASSUME testdata' = "null", bursts' = <<>>, toClient' = toClient PROVE RecordedInv'
  <2>1. BurstsRecord' /\ WildBeforeBegin'
    BY <1>6 DEF BurstsRecord, WildBeforeBegin
  <2>2. ReportsInFlight'
    BY <1>1, <1>6, ReportsRest DEF RecordedInv
  <2> QED BY <1>1, <1>3, <1>6, <2>1, <2>2 DEF RecordedInv
<1>7. CASE ServerBegin
  <2>1. PICK i \in 1..Len(toServer) :
          /\ toServer[i].type = "BEGIN"
          /\ testdata' = "object"
          /\ bursts' = NewTestData(toServer[i].burst_num)
          /\ toClient' = Append(toClient, [toServer[i] EXCEPT !.type = "BEGIN_ACK"])
    BY <1>7 DEF ServerBegin, Reply
  <2> DEFINE ack == [toServer[i] EXCEPT !.type = "BEGIN_ACK"]
  <2>2. ack.type = "BEGIN_ACK" /\ "BEGIN" \in Types(toServer)
    <3>1. toServer[i] \in MessageType
      BY <1>1, ElementOfSeq
    <3>2. ack.type = "BEGIN_ACK"
      BY <3>1 DEF MessageType
    <3>3. "BEGIN" \in Types(toServer)
      BY <2>1 DEF Types
    <3> QED BY <3>2, <3>3
  <2> HIDE DEF ack
  <2>3. ReportsInFlight'
    BY <1>1, <2>1, <2>2, ReportsAppend DEF RecordedInv, ack
  <2>4. BurstsRecord'
    <3>1. ASSUME NEW b \in DOMAIN bursts' PROVE Records(bursts'[b], ProbesOf(b - 1)')
      <4>1. bursts'[b] = [len |-> 0, probes |-> {}]
        BY <2>1, <3>1 DEF NewTestData, EmptyBurst
      <4>2. SeqNums(bursts'[b]) = {m.seq_num : m \in {}} /\ bursts'[b].len = LengthOf({})
        BY <4>1 DEF SeqNums, LengthOf
      <4> QED BY <4>2 DEF Records, RecordOf
    <3> QED BY <2>1, <3>1 DEF BurstsRecord
  <2>5. run # 0
    BY <1>2, <2>2
  <2> QED BY <1>1, <1>3, <2>1, <2>3, <2>4, <2>5 DEF RecordedInv, WildBeforeBegin
<1>8. CASE ServerProbeDropped
  BY <1>5, <1>8 DEF ServerProbeDropped, RecordedInv, BurstsRecord
<1>9. CASE ServerProbe
  <2>1. PICK i \in 1..Len(toServer) :
          /\ toServer[i].type = "PROBE"
          /\ UNCHANGED <<testdata, toClient>>
          /\ bursts' = IF toServer[i].burst_num + 1 \in DOMAIN bursts
                       THEN [bursts EXCEPT ![toServer[i].burst_num + 1] = AddProbe(@, toServer[i])]
                       ELSE bursts
    BY <1>9 DEF ServerProbe
  <2> DEFINE m == toServer[i]
  <2>2. m \in sent /\ m.burst_num \in Nat /\ (m.burst_num + 1) - 1 = m.burst_num
    <3>1. m \in MessageType
      BY <1>1, ElementOfSeq
    <3>2. m.burst_num \in Nat
      BY <3>1 DEF MessageType
    <3>3. m \in sent
      BY <2>1 DEF RecordedInv, ProbesInFlight
    <3> QED BY <3>2, <3>3
  <2>3. \A b \in DOMAIN bursts : Records(bursts[b], ProbesOf(b - 1))
    BY DEF RecordedInv, BurstsRecord
  <2>4. ASSUME NEW b \in DOMAIN bursts' PROVE Records(bursts'[b], ProbesOf(b - 1))
    <3>1. b \in DOMAIN bursts
      BY <2>1, <2>4
    <3>2. CASE b = m.burst_num + 1
      <4>1. Records(bursts[b], ProbesOf(m.burst_num))
        BY <2>2, <2>3, <3>1, <3>2
      <4>2. bursts'[b] = AddProbe(bursts[b], m)
        BY <2>1, <3>1, <3>2
      <4>3. Records(AddProbe(bursts[b], m), ProbesOf(m.burst_num))
        BY <2>2, <4>1, RecordsAdd
      <4> QED BY <2>2, <3>2, <4>2, <4>3
    <3>3. CASE b # m.burst_num + 1
      <4>1. bursts'[b] = bursts[b]
        BY <2>1, <3>1, <3>3
      <4> QED BY <2>3, <3>1, <4>1
    <3> QED BY <3>2, <3>3
  <2>5. testdata # "object" => bursts' = <<>>
    <3>1. ASSUME testdata # "object" PROVE bursts' = <<>>
      <4>1. bursts = <<>>
        BY <3>1 DEF RecordedInv, BurstsRecord
      <4> QED BY <2>1, <4>1
    <3> QED BY <3>1
  <2> QED BY <1>5, <2>1, <2>4, <2>5
<1>10. CASE ServerComplete
  <2>1. PICK i \in 1..Len(toServer) :
          /\ toServer[i].type = "COMPLETE"
          /\ testdata # "null"
          /\ UNCHANGED <<testdata, bursts>>
          /\ toClient' = Append(toClient, [toServer[i] EXCEPT !.type = "COMPLETE_ACK",
                                                              !.results = TestResults(bursts)])
    BY <1>10 DEF ServerComplete, Reply
  <2>2. "COMPLETE" \in Types(toServer)
    BY <2>1 DEF Types
  <2>3. testdata = "object"
    BY <2>1, <2>2 DEF RecordedInv, WildBeforeBegin, TypeOK, ServerTypeOK
  <2>4. Len(bursts) = params.num_bursts /\ run # 0
    BY <1>2, <2>2, <2>3 DEF BurstNumbersAgree
  <2>5. IsReport(TestResults(bursts))
    BY <1>1, <2>4, ResultsReport DEF RecordedInv
  <2> DEFINE ack == [toServer[i] EXCEPT !.type = "COMPLETE_ACK", !.results = TestResults(bursts)]
  <2>6. ack.results = TestResults(bursts)
    BY <1>1, ElementOfSeq DEF MessageType
  <2> HIDE DEF ack
  <2>7. ReportsInFlight'
    BY <1>1, <2>1, <2>5, <2>6, ReportsAppend DEF RecordedInv, ack
  <2>8. BurstsRecord'
    BY <1>4, <2>1 DEF RecordedInv, BurstsRecord
  <2> QED BY <1>1, <1>3, <2>1, <2>3, <2>4, <2>7, <2>8 DEF RecordedInv, WildBeforeBegin
<1>11. CASE ServerError \/ ServerCrash \/ ServerSendFails \/ ServerStop
  BY <1>6, <1>11 DEF ServerError, ServerCrash, ServerSendFails, ServerStop, ProcessEnds, channelVars
<1>12. CASE ServerPortClosed
  BY <1>5, <1>12 DEF ServerPortClosed, serverVars, RecordedInv, BurstsRecord
<1> QED BY <1>2, <1>7, <1>8, <1>9, <1>10, <1>11, <1>12 DEF ServerMoves, ServerNext, ServerHandles

\* A message of the client joins those on their way to the server.
LEMMA ProbesAppend ==
    ASSUME toServer \in Seq(MessageType), NEW m, ProbesInFlight, sent \subseteq sent',
           m.type = "PROBE" => m \in sent', toServer' = Append(toServer, m)
    PROVE  ProbesInFlight'
<1>1. ASSUME NEW i \in 1..(Len(toServer) + 1), toServer'[i].type = "PROBE"
      PROVE  toServer'[i] \in sent'
  <2>1. CASE i = Len(toServer) + 1
    BY <1>1, <2>1
  <2>2. CASE i # Len(toServer) + 1
    <3>1. i \in 1..Len(toServer) /\ toServer'[i] = toServer[i]
      BY <2>2
    <3> QED BY <1>1, <3>1 DEF ProbesInFlight
  <2> QED BY <2>1, <2>2
<1>2. Len(toServer') = Len(toServer) + 1
  OBVIOUS
<1> QED BY <1>1, <1>2 DEF ProbesInFlight

\* nor do those of the client,
LEMMA ClientRecords ==
    ASSUME TypeOK, BurstNumbersInv, SentInv, RecordedInv, ClientMoves,
           MaxRuns = 1, MaxRestarts = 0
    PROVE  RecordedInv'
<1>1. /\ UNCHANGED <<testdata, bursts>>
      /\ toServer \in Seq(MessageType) /\ toClient \in Seq(MessageType)
      /\ run = 0 => phase = "idle"
  BY OneRun DEF ClientMoves, serverVars, TypeOK, ChannelTypeOK, NothingBeforeTheFirstRun
<1>2. ASSUME UNCHANGED <<run, params>>, sent \subseteq sent', ProbesInFlight', WildBeforeBegin',
             \A j \in 1..Len(toClient') : \E k \in 1..Len(toClient) : toClient'[j] = toClient[k],
             run = 0 => toClient' = <<>> /\ sent' = {} /\ report' = <<>>
      PROVE  RecordedInv'
  <2>1. ReportsInFlight'
    BY <1>2, ReportsRest DEF RecordedInv
  <2>2. \A burst, b : Records(burst, ProbesOf(b)) => Records(burst, ProbesOf(b)')
    BY <1>2, StaysTrue
  <2>3. BurstsRecord'
    BY <1>1, <2>2 DEF RecordedInv, BurstsRecord
  <2> QED BY <1>2, <2>1, <2>3 DEF RecordedInv
<1>3. CASE ClientStart
  <2>1. run = 0 /\ testdata # "object" /\ Types(toServer) \subseteq {"ERROR"}
    BY <1>3, FirstStart
  <2>2. /\ run' = 1 /\ phase' = "begin" /\ sent' = {} /\ report' = <<>>
        /\ UNCHANGED <<toServer, toClient>>
    BY <1>3, <2>1 DEF ClientStart
  <2>3. toClient' = <<>> /\ bursts' = <<>>
    BY <1>1, <2>1, <2>2 DEF RecordedInv, BurstsRecord
  <2>4. ProbesInFlight' /\ "COMPLETE" \notin Types(toServer')
    BY <2>1, <2>2 DEF ProbesInFlight, Types
  <2>5. ReportsInFlight' /\ BurstsRecord' /\ WildBeforeBegin'
    BY <2>2, <2>3, <2>4 DEF ReportsInFlight, BurstsRecord, WildBeforeBegin
  <2> QED BY <2>2, <2>4, <2>5 DEF RecordedInv
<1>4. CASE SendControl
  <2> DEFINE m == controlMessage(tries + 1)
  <2>1. /\ phase \in {"begin", "complete"} /\ toServer' = Append(toServer, m)
        /\ UNCHANGED <<run, params, phase, sent, toClient>>
    BY <1>4 DEF SendControl
  <2>2. m \in MessageType
    BY <1>4, Bounds, ControlMessageType DEF SendControl, MayTry, TypeOK, ClientTypeOK
  <2>3. m.type = IF phase = "begin" THEN "BEGIN" ELSE "COMPLETE"
    BY DEF controlMessage, Message
  <2> HIDE DEF m
  <2>4. ProbesInFlight'
    BY <1>1, <2>1, <2>3, ProbesAppend DEF RecordedInv
  <2>5. Types(toServer') = Types(toServer) \cup {m.type}
    BY <1>1, <2>1, <2>2, TypesAppend
  <2>6. WildBeforeBegin'
    BY <1>1, <2>1, <2>3, <2>5 DEF RecordedInv, WildBeforeBegin
  <2> QED BY <1>1, <1>2, <2>1, <2>4, <2>6
<1>5. CASE SendProbe
  <2> DEFINE m == Message("PROBE", run, burst_num, seq_num, AsUnsigned(burst_len))
  <2>1. /\ phase = "burst" /\ toServer' = Append(toServer, m) /\ sent' = sent \cup {m}
        /\ UNCHANGED <<run, params, phase, toClient>>
    BY <1>5 DEF SendProbe
  <2> HIDE DEF m
  <2>2. ProbesInFlight'
    BY <1>1, <2>1, ProbesAppend DEF RecordedInv
  <2>3. WildBeforeBegin'
    BY <1>1, <2>1 DEF RecordedInv, WildBeforeBegin
  <2> QED BY <1>1, <1>2, <2>1, <2>2, <2>3
<1>6. CASE ReceiveBeginAck \/ ReceiveCompleteAck \/ ReceiveUnexpected
  <2>1. PICK i \in 1..Len(toClient) :
          ClientReceives(i) /\ phase \in {"begin", "complete"}
    BY <1>6 DEF ReceiveBeginAck, ReceiveCompleteAck, ReceiveUnexpected
  <2>2. UNCHANGED <<run, params, sent, toServer>> /\ Arrive(toClient, i, toClient')
    BY <2>1 DEF ClientReceives
  <2>3. toClient # <<>> /\ run # 0
    BY <1>1, <2>1
  <2>4. ProbesInFlight' /\ WildBeforeBegin'
    BY <1>1, <2>2, <2>3 DEF RecordedInv, ProbesInFlight, WildBeforeBegin
  <2> QED BY <1>1, <1>2, <2>2, <2>3, <2>4, ArriveOne
<1>7. CASE ReceiveTimeout \/ GiveUp \/ ClientSendFails \/ StartBurst \/ EndBurst \/ EndBursts
            \/ Interrupt
  <2>1. /\ UNCHANGED <<run, params, sent, report, toServer, toClient>>
        /\ phase \in {"idle", "begin", "failed"} => phase' \in {"idle", "begin", "failed"}
    BY <1>7 DEF ReceiveTimeout, GiveUp, ClientSendFails, StartBurst, EndBurst, EndBursts,
                Interrupt, channelVars
  <2>2. ProbesInFlight' /\ WildBeforeBegin'
    BY <1>1, <2>1 DEF RecordedInv, ProbesInFlight, WildBeforeBegin
  <2> QED BY <1>2, <2>1, <2>2 DEF RecordedInv
<1>8. CASE ClientPortClosed
  <2>1. PICK i \in 1..Len(toClient) : toClient' = Without(toClient, i)
    BY <1>8 DEF ClientPortClosed, Deliverable
  <2>2. UNCHANGED <<run, params, phase, sent, report, toServer>> /\ toClient # <<>>
    BY <1>1, <1>8, <2>1 DEF ClientPortClosed, clientVars
  <2>3. ProbesInFlight' /\ WildBeforeBegin'
    BY <1>1, <2>2 DEF RecordedInv, ProbesInFlight, WildBeforeBegin
  <2> QED BY <1>1, <1>2, <2>1, <2>2, <2>3, WithoutOne DEF RecordedInv
<1> QED BY <1>3, <1>4, <1>5, <1>6, <1>7, <1>8 DEF ClientMoves, ClientNext, ClientStep

\* losses and the ERROR of another peer.
LEMMA OthersRecord ==
    ASSUME TypeOK, RecordedInv, NetworkMoves \/ PeerSendsError
    PROVE  RecordedInv'
<1>1. /\ UNCHANGED <<run, params, phase, sent, report, testdata, bursts>>
      /\ toServer \in Seq(MessageType) /\ toClient \in Seq(MessageType)
  BY DEF NetworkMoves, PeerSendsError, serverVars, clientVars, TypeOK, ChannelTypeOK
<1>2. ASSUME ProbesInFlight', Types(toServer') \subseteq Types(toServer) \cup {"ERROR"},
             \A j \in 1..Len(toClient') : \E k \in 1..Len(toClient) : toClient'[j] = toClient[k],
             toClient = <<>> => toClient' = <<>>
      PROVE  RecordedInv'
  <2>1. ReportsInFlight'
    BY <1>1, <1>2, ReportsRest DEF RecordedInv
  <2>2. BurstsRecord'
    BY <1>1, StaysTrue DEF RecordedInv, BurstsRecord
  <2>3. WildBeforeBegin'
    BY <1>1, <1>2 DEF RecordedInv, WildBeforeBegin
  <2> QED BY <1>1, <1>2, <2>1, <2>2, <2>3 DEF RecordedInv
<1>3. CASE DropToServer
  <2>1. PICK i \in 1..Len(toServer) : toServer' = Without(toServer, i) /\ toClient' = toClient
    BY <1>3 DEF DropToServer, Deliverable
  <2>2. \A j \in 1..Len(toServer') : \E k \in 1..Len(toServer) : toServer'[j] = toServer[k]
    <3>1. toServer \in Seq(MessageType)
      BY <1>1
    <3> QED BY <2>1, <3>1, WithoutOne
  <2>3. ProbesInFlight'
    BY <1>1, <2>2 DEF RecordedInv, ProbesInFlight
  <2> QED BY <1>1, <1>2, <2>1, <2>3, TypesWithout
<1>4. CASE DropToClient
  <2>1. PICK i \in 1..Len(toClient) : toClient' = Without(toClient, i) /\ toServer' = toServer
    BY <1>4 DEF DropToClient, Deliverable
  <2>2. ProbesInFlight' /\ toClient # <<>>
    BY <1>1, <2>1 DEF RecordedInv, ProbesInFlight
  <2> QED BY <1>1, <1>2, <2>1, <2>2, WithoutOne
<1>5. CASE PeerSendsError
  <2> DEFINE m == Message("ERROR", run, 0, 0, 0)
  <2>1. toServer' = Append(toServer, m) /\ toClient' = toClient /\ m.type = "ERROR"
    BY <1>5 DEF PeerSendsError, Message
  <2>2. m \in MessageType
    <3>1. run \in Nat
      BY Bounds DEF TypeOK, ClientTypeOK
    <3> QED BY <3>1, MessageIsTyped DEF MessageTypes
  <2> HIDE DEF m
  <2>3. ProbesInFlight'
    BY <1>1, <2>1, ProbesAppend DEF RecordedInv
  <2>4. Types(toServer') = Types(toServer) \cup {"ERROR"}
    BY <1>1, <2>1, <2>2, TypesAppend
  <2> QED BY <1>2, <2>1, <2>3, <2>4
<1> QED BY <1>3, <1>4, <1>5 DEF NetworkMoves

\* The summary of TestData is that of the session.
LEMMA SameSummary ==
    ASSUME NEW len, NEW arrived
    PROVE  Session!Summary(len, arrived) = Summary(len, arrived)
<1>1. \A S : Session!Cardinality(S) = Cardinality(S)
  BY DEF Session!Cardinality, Cardinality
<1> QED BY <1>1 DEF Session!Summary, Summary, Min, Session!Min

\* A report that was on its way is one the session may print.
LEMMA ReportIsLines ==
    ASSUME NEW results \in Seq(BurstResultType), params.num_bursts \in Nat, IsReport(results)
    PROVE  \E arrived \in SUBSET sent :
               results = [b \in 1..params.num_bursts |->
                             Session!LineFor(Session!InBurst(arrived, b - 1))]
<1> DEFINE n == params.num_bursts
           Good(b, A) == A \in SUBSET ProbesOf(b - 1) /\ results[b] = LineOf(A)
           chosen == [b \in 1..n |-> CHOOSE A : Good(b, A)]
           arrived == UNION {chosen[b] : b \in 1..n}
<1>1. Len(results) = n /\ \A b \in 1..n : \E A : Good(b, A)
  BY DEF IsReport
<1>2. \A b \in 1..n : Good(b, chosen[b])
  BY <1>1
<1> HIDE DEF chosen
<1>3. arrived \in SUBSET sent
  BY <1>2 DEF ProbesOf
<1>4. ASSUME NEW b \in 1..n PROVE Session!InBurst(arrived, b - 1) = chosen[b]
  <2>1. ASSUME NEW m \in arrived, m.burst_num = b - 1 PROVE m \in chosen[b]
    <3>1. PICK c \in 1..n : m \in chosen[c]
      OBVIOUS
    <3>2. m.burst_num = c - 1
      BY <1>2, <3>1 DEF ProbesOf
    <3>3. b \in Int /\ c \in Int
      OBVIOUS
    <3>4. c = b
      BY <2>1, <3>2, <3>3
    <3> QED BY <3>1, <3>4
  <2>2. \A m \in chosen[b] : m \in arrived /\ m.burst_num = b - 1
    BY <1>2 DEF ProbesOf
  <2> HIDE DEF arrived
  <2> QED BY <2>1, <2>2 DEF Session!InBurst
<1> HIDE DEF arrived
<1>5. ASSUME NEW A PROVE Session!LineFor(A) = LineOf(A)
  BY SameSummary DEF Session!LineFor, LineOf, LengthOf
<1>6. \A b \in 1..n : results[b] = Session!LineFor(Session!InBurst(arrived, b - 1))
  BY <1>2, <1>4, <1>5
<1>7. results \in [1..n -> BurstResultType]
  BY <1>1
<1>8. results = [b \in 1..n |-> Session!LineFor(Session!InBurst(arrived, b - 1))]
  <2> HIDE DEF n
  <2> QED BY <1>6, <1>7
<1> QED BY <1>3, <1>8

\* A step of the programs is one of the session, or none.
LEMMA StepIsSessionStep ==
    ASSUME TypeOK, BurstNumbersInv, SentInv, RecordedInv, [Next]_vars,
           MaxRuns = 1, MaxRestarts = 0
    PROVE  [Session!Next]_(Session!sessionVars)
<1> DEFINE status == IF phase \in {"idle", "reported", "failed"} THEN phase ELSE "running"
<1>1. params.num_bursts \in Nat
  BY Bounds DEF TypeOK, ClientTypeOK, ParamsType, NoParams
<1>2. CASE ClientStart
  <2>1. run = 0 /\ phase = "idle"
    BY <1>2, FirstStart
  <2>2. UNCHANGED <<sent, report>>
    BY <1>2, <2>1 DEF ClientStart, RecordedInv
  <2>3. phase' = "begin" /\ params'.num_bursts \in Nat \ {0}
    BY <1>2, Bounds DEF ClientStart, ParamsType
  <2>4. Session!Open
    BY <2>1, <2>2, <2>3 DEF Session!Open
  <2> QED BY <2>4 DEF Session!Next
<1>3. CASE SendProbe
  <2> DEFINE m == Message("PROBE", run, burst_num, seq_num, AsUnsigned(burst_len))
  <2>1. /\ phase = "burst" /\ m.seq_num < m.burst_len /\ sent' = sent \cup {m}
        /\ m.type = "PROBE" /\ m.burst_num = burst_num /\ m.seq_num = seq_num
        /\ m.burst_len = AsUnsigned(burst_len)
        /\ UNCHANGED <<phase, params, report>>
    BY <1>3 DEF SendProbe, Message
  <2> HIDE DEF m
  <2>2. m.burst_num < params.num_bursts
    BY <2>1, OneRun DEF BurstNumbersAgree
  <2>3. Session!InBurst(sent, m.burst_num) = ProbesOf(burst_num)
    BY <2>1 DEF Session!InBurst, ProbesOf
  <2>4. m.seq_num = Session!Cardinality(Session!InBurst(sent, m.burst_num))
    <3>1. \A S : Session!Cardinality(S) = Cardinality(S)
      BY DEF Session!Cardinality, Cardinality
    <3>2. Cardinality(ProbesOf(burst_num)) = seq_num
      BY <2>1 DEF SentInv
    <3> QED BY <2>1, <2>3, <3>1, <3>2
  <2>5. /\ \A p \in sent : p.burst_num <= m.burst_num
        /\ \A p \in Session!InBurst(sent, m.burst_num) : p.burst_len = m.burst_len
    BY <2>1, <2>3 DEF SentInv, ProbesOf
  <2>6. Session!Send
    BY <2>1, <2>2, <2>4, <2>5 DEF Session!Send
  <2> QED BY <2>6 DEF Session!Next
<1>4. CASE ReceiveCompleteAck
  <2>1. PICK i \in 1..Len(toClient) :
          /\ phase = "complete"
          /\ ClientReceives(i)
          /\ isResponsePair(controlMessage(tries), toClient[i])
          /\ phase' = "reported"
          /\ report' = toClient[i].results
    BY <1>4 DEF ReceiveCompleteAck
  <2>2. UNCHANGED <<params, sent>>
    BY <2>1 DEF ClientReceives
  <2>3. toClient[i].type = "COMPLETE_ACK"
    BY <2>1 DEF isResponsePair, controlMessage, Message
  <2>4. IsReport(report') /\ report' \in Seq(BurstResultType)
    BY <2>1, <2>3, ClientReceivesType DEF RecordedInv, ReportsInFlight
  <2>5. \E arrived \in SUBSET sent :
            report' = [b \in 1..params.num_bursts |->
                          Session!LineFor(Session!InBurst(arrived, b - 1))]
    BY <1>1, <2>4, ReportIsLines
  <2>6. Session!Report
    BY <2>1, <2>2, <2>5 DEF Session!Report
  <2> QED BY <2>6 DEF Session!Next
<1>5. CASE GiveUp \/ ClientSendFails \/ ReceiveUnexpected
  <2>1. /\ phase \in {"begin", "complete", "burst"} /\ phase' = "failed"
        /\ UNCHANGED <<params, sent, report>>
    BY <1>5 DEF GiveUp, ClientSendFails, ReceiveUnexpected, ClientReceives
  <2>2. Session!Fail
    BY <2>1 DEF Session!Fail
  <2> QED BY <2>2 DEF Session!Next
<1>6. ASSUME UNCHANGED <<params, sent, report>>, UNCHANGED status
      PROVE  [Session!Next]_(Session!sessionVars)
  BY <1>6 DEF Session!sessionVars
<1>7. CASE SendControl \/ ReceiveTimeout \/ ReceiveBeginAck \/ StartBurst \/ EndBurst
            \/ EndBursts \/ Interrupt \/ ClientPortClosed
  <2>1. /\ UNCHANGED <<params, sent, report>>
        /\ \/ phase' = phase
           \/ /\ phase \in {"begin", "loop", "burst"}
              /\ phase' \in {"loop", "burst", "complete"}
    BY <1>7 DEF SendControl, ReceiveTimeout, ReceiveBeginAck, ClientReceives, StartBurst,
                EndBurst, EndBursts, Interrupt, ClientPortClosed, clientVars
  <2> QED BY <1>6, <2>1
<1>8. CASE ServerMoves \/ NetworkMoves \/ PeerSendsError \/ UNCHANGED vars
  <2>1. UNCHANGED <<params, sent, report, phase>>
    BY <1>8 DEF ServerMoves, NetworkMoves, PeerSendsError, vars, clientVars
  <2> QED BY <1>6, <2>1
<1> QED BY <1>2, <1>3, <1>4, <1>5, <1>7, <1>8 DEF Next, ClientMoves, ClientNext, ClientStep

\* One client run against a server that is not started again is a session:
\* whatever the network loses, delays, reorders or duplicates, whatever the
\* ERRORs of a peer and whichever process dies, the client fails or prints
\* one line for every burst, each the exact summary of probes it sent.
THEOREM RunIsSession ==
    ASSUME MaxRuns = 1, MaxRestarts = 0
    PROVE  Spec => ImplementsSession
<1>1. Init => Session!Init /\ SessionInv
  <2>1. Init => Session!Init
    BY DEF Init, ClientInit, NoParams, Session!Init
  <2> QED BY <2>1, InitSession
<1>2. TypeOK /\ BurstNumbersInv /\ SessionInv /\ [Next]_vars => SessionInv'
  <2> SUFFICES ASSUME TypeOK, BurstNumbersInv, SessionInv, [Next]_vars PROVE SessionInv'
    OBVIOUS
  <2>1. SentInv'
    BY SentPreserved DEF SessionInv
  <2>2. CASE UNCHANGED vars
    BY <2>2 DEF vars, channelVars, clientVars, serverVars, SessionInv, SentInv, RecordedInv,
                ProbesOf, ProbesInFlight, BurstsRecord, ReportsInFlight, WildBeforeBegin,
                IsReport, Types
  <2>3. CASE Next
    BY <2>1, <2>3, ServerRecords, ClientRecords, OthersRecord DEF Next, SessionInv
  <2> QED BY <2>2, <2>3
<1>3. TypeOK /\ BurstNumbersInv /\ SessionInv /\ [Next]_vars
        => [Session!Next]_(Session!sessionVars)
  BY StepIsSessionStep DEF SessionInv
<1> QED BY <1>1, <1>2, <1>3, TypeCorrect, BurstNumbersHold, PTL
        DEF Spec, ImplementsSession, Session!Spec

-----------------------------------------------------------------------------
(* On a network that keeps the order and makes no duplicates, the loss the *)
(* client prints is the real one.                                          *)

\* What this section supposes: such a network, and a server that is not
\* started again.
InOrder == Reordering = FALSE /\ MaxDuplicates = 0 /\ MaxRestarts = 0

\* Messages of earlier runs come first, and nothing is of a later run.
RunsSorted(q) ==
    /\ \A i \in 1..Len(q) : q[i].run <= run
    /\ \A i, j \in 1..Len(q) : i < j => q[i].run <= q[j].run

RunsInv ==
    /\ RunsSorted(toServer)
    /\ \A i \in 1..Len(toClient) : toClient[i].run <= run /\ toClient[i].type # "PROBE"
    /\ \A m \in sent : m.type = "PROBE" /\ m.run = run /\ m.burst_num < params.num_bursts
    /\ phase = "burst" => burst_num < params.num_bursts

\* In the first handshake of a run the BEGINs of the run are under way in the
\* order of their tries, behind what earlier runs left.
BeginsInOrder(q) ==
    /\ \A i \in 1..Len(q) :
          q[i].run = run
             => /\ q[i].type \in {"BEGIN", "ERROR"}
                /\ q[i].type = "BEGIN"
                      => q[i].seq_num <= tries /\ q[i].burst_num = params.num_bursts
    /\ \A i, j \in 1..Len(q) :
          (i < j /\ q[i].run = run /\ q[i].type = "BEGIN" /\ q[j].type = "BEGIN")
             => q[i].seq_num < q[j].seq_num

\* Once one of them is acknowledged what earlier runs left is gone, and so are
\* the BEGINs up to that one, and the server has a test without probes.
Acknowledged(ack, q, pointer, object) ==
    /\ ack.type = "BEGIN_ACK"
    /\ ack.seq_num <= tries
    /\ \A i \in 1..Len(q) :
          /\ q[i].run = run
          /\ q[i].type = "BEGIN" => q[i].seq_num > ack.seq_num
    /\ pointer # "wild"
    /\ pointer = "object" => object = NewTestData(params.num_bursts)

BeginInv ==
    phase = "begin"
        => /\ \A m \in lost : m.type = "PROBE" => m.run # run
           /\ BeginsInOrder(toServer)
           /\ \A k \in 1..Len(toClient) :
                 toClient[k].run = run
                    => Acknowledged(toClient[k], toServer, testdata, bursts)

\* After it was accepted, the probes on their way are those that were neither
\* lost nor handled, none of them twice and none behind a COMPLETE.
Begun == phase \in {"loop", "burst", "complete", "reported"} /\ beginRun = run

LostWereSent == \A m \in lost : m.type = "PROBE" /\ m.run = run => m \in sent

ProbesInOrder ==
    /\ \A i \in 1..Len(toServer) :
          /\ toServer[i].run = run
          /\ toServer[i].type \in {"PROBE", "COMPLETE", "ERROR"}
          /\ toServer[i].type = "PROBE" => toServer[i] \in sent \ lost
          /\ toServer[i].type = "COMPLETE" => phase \notin {"loop", "burst"}
    /\ \A i, j \in 1..Len(toServer) :
          (i < j /\ toServer[j].type = "PROBE")
             => toServer[i].type # "COMPLETE" /\ toServer[i] # toServer[j]

\* The probes of a burst that the network did not drop, nor the simulated
\* queue, and those of them the server has handled.
Arrived(b) == {m \in sent \ lost : m.burst_num = b /\ ~QueueDrops(m.seq_num)}
InFlight   == {toServer[i] : i \in 1..Len(toServer)}
Handled(b) == Arrived(b) \ InFlight

\* The server has recorded exactly those.
TestRecords ==
    /\ testdata # "wild"
    /\ testdata = "object"
          => /\ Len(bursts) = params.num_bursts
             /\ \A b \in DOMAIN bursts : RecordOf(bursts[b], Handled(b - 1))

\* Results of the run are only there when no probe is under way any more, and
\* they are those of all probes that arrived.
AllHandled ==
    /\ phase \notin {"loop", "burst"}
    /\ \A i \in 1..Len(toServer) : toServer[i].type # "PROBE"

AcksTrue ==
    \A k \in 1..Len(toClient) :
        (toClient[k].run = run /\ toClient[k].type = "COMPLETE_ACK")
           => AllHandled /\ toClient[k].results = ExpectedReport

ReportTrue ==
    (phase = "reported" /\ reportRun = run) => AllHandled /\ report = ExpectedReport

MeasureInv ==
    Begun => LostWereSent /\ ProbesInOrder /\ TestRecords /\ AcksTrue /\ ReportTrue

\* rest is q without its first message.
Headless(q, rest) ==
    /\ 1 \in 1..Len(q)
    /\ Len(rest) = Len(q) - 1
    /\ \A j \in 1..Len(rest) : j + 1 \in 1..Len(q) /\ rest[j] = q[j + 1]

\* What is taken from a queue that keeps the order is its head.
LEMMA TakesHead ==
    ASSUME InOrder, NEW q \in Seq(MessageType), NEW i \in Deliverable(q)
    PROVE  i = 1 /\ Headless(q, Without(q, i))
<1>1. i = 1 /\ i \in 1..Len(q) /\ Len(q) \in Nat
  BY DEF InOrder, Deliverable
<1>2. Len(Without(q, 1)) = Len(q) - 1
  BY <1>1, WithoutOne
<1>3. ASSUME NEW j \in 1..(Len(q) - 1) PROVE j + 1 \in 1..Len(q) /\ Without(q, 1)[j] = q[j + 1]
  BY <1>1, <1>3 DEF Without
<1> QED BY <1>1, <1>2, <1>3 DEF Headless

\* The same of what a process takes.
LEMMA ArriveHead ==
    ASSUME InOrder, duplicates \in 0..MaxDuplicates, NEW q \in Seq(MessageType),
           NEW i, NEW rest, Arrive(q, i, rest)
    PROVE  i = 1 /\ Headless(q, rest)
<1>1. ~(duplicates < MaxDuplicates)
  BY DEF InOrder
<1>2. i \in Deliverable(q) /\ rest = Without(q, i)
  BY <1>1 DEF Arrive
<1> QED BY <1>2, TakesHead

-----------------------------------------------------------------------------
(* Runs.                                                                   *)

\* Order survives taking the head,
LEMMA SortedHeadless ==
    ASSUME NEW q, NEW rest, Headless(q, rest), RunsSorted(q), Len(q) \in Nat
    PROVE  RunsSorted(rest)
<1>1. /\ Len(rest) = Len(q) - 1
      /\ \A j \in 1..Len(rest) : j + 1 \in 1..Len(q) /\ rest[j] = q[j + 1]
  BY DEF Headless
<1>2. /\ \A i \in 1..Len(q) : q[i].run <= run
      /\ \A i, j \in 1..Len(q) : i < j => q[i].run <= q[j].run
  BY DEF RunsSorted
<1>3. ASSUME NEW j \in 1..Len(rest) PROVE rest[j].run <= run
  BY <1>1, <1>2
<1>4. ASSUME NEW i \in 1..Len(rest), NEW j \in 1..Len(rest), i < j
      PROVE  rest[i].run <= rest[j].run
  <2>1. i + 1 \in 1..Len(q) /\ j + 1 \in 1..Len(q) /\ i + 1 < j + 1
    BY <1>1, <1>4
  <2> QED BY <1>1, <1>2, <2>1
<1> QED BY <1>3, <1>4 DEF RunsSorted

\* and adding a message of this run.
LEMMA SortedAppend ==
    ASSUME NEW q \in Seq(MessageType), NEW m, RunsSorted(q), m.run = run, run \in Nat
    PROVE  RunsSorted(Append(q, m))
<1>1. /\ Len(q) \in Nat /\ Len(Append(q, m)) = Len(q) + 1
      /\ \A i \in 1..Len(q) : Append(q, m)[i] = q[i]
      /\ Append(q, m)[Len(q) + 1] = m
  BY AppendProperties
<1>2. ASSUME NEW i \in 1..(Len(q) + 1) PROVE Append(q, m)[i].run <= run
  <2>1. CASE i \in 1..Len(q)
    BY <1>1, <2>1 DEF RunsSorted
  <2>2. CASE i = Len(q) + 1
    BY <1>1, <2>2
  <2> QED BY <1>1, <2>1, <2>2
<1>3. ASSUME NEW i \in 1..(Len(q) + 1), NEW j \in 1..(Len(q) + 1), i < j
      PROVE  Append(q, m)[i].run <= Append(q, m)[j].run
  <2>1. CASE j \in 1..Len(q)
    <3>1. i \in 1..Len(q)
      BY <1>1, <1>3, <2>1
    <3> QED BY <1>1, <1>3, <2>1, <3>1 DEF RunsSorted
  <2>2. CASE j = Len(q) + 1
    BY <1>1, <1>2, <2>2
  <2> QED BY <1>1, <2>1, <2>2
<1> QED BY <1>1, <1>2, <1>3 DEF RunsSorted

\* A handler takes some message out of the queue.
LEMMA HandlerReceives ==
    ASSUME ServerHandles
    PROVE  \E i \in 1..Len(toServer) : Receives(i)
<1>1. CASE ServerBegin
  BY <1>1 DEF ServerBegin
<1>2. CASE ServerProbeDropped \/ ServerProbe
  BY <1>2 DEF ServerProbeDropped, ServerProbe
<1>3. CASE ServerComplete
  <2>1. \E i \in 1..Len(toServer) : toServer[i].type = "COMPLETE" /\ Receives(i)
    BY <1>3, Zenon DEF ServerComplete
  <2> QED BY <2>1
<1>4. CASE ServerError \/ ServerCrash \/ ServerSendFails
  BY <1>4 DEF ServerError, ServerCrash, ServerSendFails
<1> QED BY <1>1, <1>2, <1>3, <1>4 DEF ServerHandles

\* What a step does to the messages on their way to the server.
LEMMA ServerHead ==
    ASSUME TypeOK, InOrder, ServerHandles
    PROVE  /\ Receives(1) /\ Headless(toServer, toServer')
           /\ toServer[1] \in MessageType
<1>1. PICK i \in 1..Len(toServer) : Receives(i)
  BY HandlerReceives
<1>2. toServer \in Seq(MessageType) /\ duplicates \in 0..MaxDuplicates
  BY DEF TypeOK, ChannelTypeOK
<1>3. i = 1 /\ Headless(toServer, toServer')
  BY <1>1, <1>2, ArriveHead DEF Receives
<1> QED BY <1>1, <1>2, <1>3, ElementOfSeq

\* Where the order is kept a handler takes the head of the queue.
LEMMA HandlerTakesFirst ==
    ASSUME Reordering = FALSE
    PROVE  \A i \in 1..Len(toServer) : Receives(i) => i = 1
BY DEF Receives, Arrive, Deliverable

\* What a handler does, said of the head of the queue.
BeginHandled(m) ==
    /\ m.type = "BEGIN"
    /\ testdata' = "object"
    /\ bursts' = NewTestData(m.burst_num)
    /\ toClient' = Append(toClient, [m EXCEPT !.type = "BEGIN_ACK"])

ProbeHandled(m) ==
    /\ m.type = "PROBE"
    /\ UNCHANGED <<testdata, toClient>>
    /\ \/ QueueDrops(m.seq_num) /\ UNCHANGED bursts
       \/ /\ ~QueueDrops(m.seq_num)
          /\ bursts' = IF m.burst_num + 1 \in DOMAIN bursts
                       THEN [bursts EXCEPT ![m.burst_num + 1] = AddProbe(@, m)]
                       ELSE bursts

CompleteHandled(m) ==
    /\ m.type = "COMPLETE"
    /\ testdata # "null"
    /\ UNCHANGED <<testdata, bursts>>
    /\ toClient' = Append(toClient, [m EXCEPT !.type = "COMPLETE_ACK",
                                              !.results = TestResults(bursts)])

TestGone == testdata' = "null" /\ bursts' = <<>> /\ UNCHANGED toClient

\* One of these is what happens.
LEMMA FirstHandled ==
    ASSUME Reordering = FALSE, ServerHandles
    PROVE  \/ BeginHandled(toServer[1])
           \/ ProbeHandled(toServer[1])
           \/ CompleteHandled(toServer[1])
           \/ TestGone
<1>1. CASE ServerBegin
  <2>1. PICK i \in 1..Len(toServer) : Receives(i) /\ BeginHandled(toServer[i])
    BY <1>1 DEF ServerBegin, BeginHandled, Reply
  <2> QED BY <2>1, HandlerTakesFirst
<1>2. CASE ServerProbeDropped
  <2>1. PICK i \in 1..Len(toServer) : Receives(i) /\ ProbeHandled(toServer[i])
    BY <1>2 DEF ServerProbeDropped, ProbeHandled
  <2> QED BY <2>1, HandlerTakesFirst
<1>3. CASE ServerProbe
  <2>1. PICK i \in 1..Len(toServer) : Receives(i) /\ ProbeHandled(toServer[i])
    BY <1>3 DEF ServerProbe, ProbeHandled
  <2> QED BY <2>1, HandlerTakesFirst
<1>4. CASE ServerComplete
  <2>1. PICK i \in 1..Len(toServer) : Receives(i) /\ CompleteHandled(toServer[i])
    BY <1>4 DEF ServerComplete, CompleteHandled, Reply
  <2> QED BY <2>1, HandlerTakesFirst
<1>5. CASE ServerError \/ ServerCrash \/ ServerSendFails
  BY <1>5 DEF ServerError, ServerCrash, ServerSendFails, ProcessEnds, TestGone
<1> QED BY <1>1, <1>2, <1>3, <1>4, <1>5 DEF ServerHandles

\* The same under the suppositions of this section.
LEMMA HeadHandled ==
    ASSUME TypeOK, InOrder, ServerHandles
    PROVE  \/ BeginHandled(toServer[1])
           \/ ProbeHandled(toServer[1])
           \/ CompleteHandled(toServer[1])
           \/ TestGone
BY FirstHandled DEF InOrder

\* What else can happen at the server's end.
LEMMA ServerElse ==
    ASSUME TypeOK, InOrder, ServerMoves, ~ServerHandles
    PROVE  /\ UNCHANGED toClient
           /\ \/ TestGone /\ UNCHANGED <<toServer, lost>>
              \/ /\ Headless(toServer, toServer') /\ lost' = lost \cup {toServer[1]}
                 /\ UNCHANGED <<testdata, bursts>>
<1>1. ~ServerRestart
  <2>1. restarts \in 0..0
    BY DEF InOrder, TypeOK, ServerTypeOK
  <2> QED BY <2>1 DEF ServerRestart, InOrder
<1>2. CASE ServerStop
  BY <1>2 DEF ServerStop, ProcessEnds, TestGone, channelVars
<1>3. CASE ServerPortClosed
  <2>1. PICK i \in Deliverable(toServer) :
          toServer' = Without(toServer, i) /\ lost' = lost \cup {toServer[i]}
    BY <1>3 DEF ServerPortClosed
  <2>2. toServer \in Seq(MessageType)
    BY DEF TypeOK, ChannelTypeOK
  <2>3. i = 1 /\ Headless(toServer, toServer')
    BY <2>1, <2>2, TakesHead
  <2> QED BY <1>3, <2>1, <2>3 DEF ServerPortClosed, serverVars
<1> QED BY <1>1, <1>2, <1>3 DEF ServerMoves, ServerNext

\* What is in a queue a message has joined.
LEMMA AppendedOne ==
    ASSUME NEW q \in Seq(MessageType), NEW m
    PROVE  \A k \in 1..Len(Append(q, m)) :
               Append(q, m)[k] = m \/ \E j \in 1..Len(q) : Append(q, m)[k] = q[j]
<1>1. /\ Len(q) \in Nat /\ Len(Append(q, m)) = Len(q) + 1
      /\ \A i \in 1..Len(q) : Append(q, m)[i] = q[i]
      /\ Append(q, m)[Len(q) + 1] = m
  BY AppendProperties
<1>2. \A k \in 1..(Len(q) + 1) : k \in 1..Len(q) \/ k = Len(q) + 1
  BY <1>1
<1> QED BY <1>1, <1>2

\* Types the lemmas below keep needing.
LEMMA QueueTypes ==
    ASSUME TypeOK
    PROVE  /\ toServer \in Seq(MessageType) /\ Len(toServer) \in Nat
           /\ toClient \in Seq(MessageType) /\ Len(toClient) \in Nat
           /\ run \in Nat /\ params.num_bursts \in Nat /\ tries \in Nat
           /\ \A i \in 1..Len(toServer) : toServer[i] \in MessageType
           /\ \A i \in 1..Len(toClient) : toClient[i] \in MessageType
<1>1. toServer \in Seq(MessageType) /\ toClient \in Seq(MessageType)
  BY DEF TypeOK, ChannelTypeOK
<1>2. run \in Nat /\ tries \in Nat
  BY Bounds DEF TypeOK, ClientTypeOK
<1>3. params.num_bursts \in Nat
  BY Bounds DEF TypeOK, ClientTypeOK, ParamsType, NoParams
<1> QED BY <1>1, <1>2, <1>3, LenProperties, ElementOfSeq

\* The numbers of a message.
LEMMA Numbers ==
    ASSUME NEW m \in MessageType
    PROVE  m.run \in Nat /\ m.seq_num \in Nat /\ m.burst_num \in Nat /\ m.type \in MessageTypes
BY DEF MessageType

\* Replies carry the run and the numbers of what they answer.
LEMMA RepliesEcho ==
    ASSUME NEW m \in MessageType, NEW type, NEW results
    PROVE  LET a == [m EXCEPT !.type = type]
               b == [m EXCEPT !.type = type, !.results = results]
           IN  /\ a.type = type /\ a.run = m.run /\ a.seq_num = m.seq_num
               /\ b.type = type /\ b.run = m.run /\ b.results = results
BY DEF MessageType

\* Every reply on its way is one that was there or one of the head.
LEMMA RepliesOfHead ==
    ASSUME TypeOK, InOrder, ServerMoves
    PROVE  \/ UNCHANGED toClient
           \/ /\ ServerHandles
              /\ \E ack : /\ toClient' = Append(toClient, ack)
                          /\ ack.run = toServer[1].run /\ ack.type # "PROBE"
<1>1. CASE ServerHandles
  <2> DEFINE m == toServer[1]
  <2>1. m \in MessageType
    BY <1>1, ServerHead
  <2>2. CASE BeginHandled(m)
    <3>1. /\ [m EXCEPT !.type = "BEGIN_ACK"].run = m.run
          /\ [m EXCEPT !.type = "BEGIN_ACK"].type = "BEGIN_ACK"
      BY <2>1, RepliesEcho
    <3> QED BY <1>1, <2>2, <3>1 DEF BeginHandled
  <2>3. CASE CompleteHandled(m)
    <3> DEFINE ack == [m EXCEPT !.type = "COMPLETE_ACK", !.results = TestResults(bursts)]
    <3>1. ack.run = m.run /\ ack.type = "COMPLETE_ACK"
      BY <2>1, RepliesEcho
    <3> QED BY <1>1, <2>3, <3>1 DEF CompleteHandled
  <2> QED BY <1>1, <2>2, <2>3, HeadHandled DEF ProbeHandled, TestGone
<1> QED BY <1>1, ServerElse

\* The server keeps the runs in order,
LEMMA ServerRuns ==
    ASSUME TypeOK, InOrder, RunsInv, ServerMoves
    PROVE  RunsInv'
<1>1. UNCHANGED clientVars
  BY DEF ServerMoves
<1>2. RunsSorted(toServer')
  BY QueueTypes, ServerHead, ServerElse, SortedHeadless DEF RunsInv
<1>3. \A i \in 1..Len(toClient') : toClient'[i].run <= run /\ toClient'[i].type # "PROBE"
  <2>1. CASE UNCHANGED toClient
    BY <2>1 DEF RunsInv
  <2>2. ASSUME ServerHandles, NEW ack, toClient' = Append(toClient, ack),
               ack.run = toServer[1].run, ack.type # "PROBE"
        PROVE  \A i \in 1..Len(toClient') : toClient'[i].run <= run /\ toClient'[i].type # "PROBE"
    <3>1. ack.run <= run
      BY <2>2, ServerHead DEF RunsInv, RunsSorted, Headless
    <3>2. \A k \in 1..Len(toClient') :
              toClient'[k] = ack \/ \E j \in 1..Len(toClient) : toClient'[k] = toClient[j]
      BY <2>2, QueueTypes, AppendedOne
    <3> QED BY <2>2, <3>1, <3>2 DEF RunsInv
  <2> QED BY <2>1, <2>2, RepliesOfHead
<1> QED BY <1>1, <1>2, <1>3 DEF RunsInv, RunsSorted, clientVars

\* so does the client,
LEMMA ClientRuns ==
    ASSUME TypeOK, InOrder, RunsInv, ClientMoves
    PROVE  RunsInv'
<1>1. CASE ClientStart
  <2>1. /\ run' = run + 1 /\ UNCHANGED <<toServer, toClient>> /\ sent' = {} /\ phase' = "begin"
    BY <1>1 DEF ClientStart
  <2>2. ASSUME NEW i \in 1..Len(toServer) PROVE toServer[i].run <= run + 1
    <3>1. toServer[i].run \in Nat /\ run \in Nat
      BY QueueTypes, Numbers
    <3>2. toServer[i].run <= run
      BY DEF RunsInv, RunsSorted
    <3> QED BY <3>1, <3>2
  <2>3. ASSUME NEW i \in 1..Len(toClient) PROVE toClient[i].run <= run + 1 /\ toClient[i].type # "PROBE"
    <3>1. toClient[i].run \in Nat /\ run \in Nat
      BY QueueTypes, Numbers
    <3>2. toClient[i].run <= run /\ toClient[i].type # "PROBE"
      BY DEF RunsInv
    <3> QED BY <3>1, <3>2
  <2> QED BY <2>1, <2>2, <2>3 DEF RunsInv, RunsSorted
<1>2. CASE SendControl
  <2>1. /\ toServer' = Append(toServer, controlMessage(tries + 1))
        /\ controlMessage(tries + 1).run = run
        /\ UNCHANGED <<run, params, phase, sent, burst_num, toClient>>
    BY <1>2 DEF SendControl, controlMessage, Message
  <2>2. RunsSorted(toServer')
    BY <2>1, QueueTypes, SortedAppend DEF RunsInv
  <2> QED BY <2>1, <2>2 DEF RunsInv, RunsSorted
<1>3. CASE SendProbe
  <2> DEFINE m == Message("PROBE", run, burst_num, seq_num, AsUnsigned(burst_len))
  <2>1. /\ toServer' = Append(toServer, m) /\ sent' = sent \cup {m} /\ phase = "burst"
        /\ m.run = run /\ m.type = "PROBE" /\ m.burst_num = burst_num
        /\ UNCHANGED <<run, params, phase, burst_num, toClient>>
    BY <1>3 DEF SendProbe, Message
  <2> HIDE DEF m
  <2>2. RunsSorted(toServer')
    BY <2>1, QueueTypes, SortedAppend DEF RunsInv
  <2> QED BY <2>1, <2>2 DEF RunsInv, RunsSorted
<1>4. CASE StartBurst
  BY <1>4 DEF StartBurst, BurstsLeft, channelVars, RunsInv, RunsSorted
<1>5. CASE ReceiveBeginAck \/ ReceiveCompleteAck \/ ReceiveUnexpected
  <2>1. PICK i \in 1..Len(toClient) : ClientReceives(i) /\ phase' # "burst"
    BY <1>5 DEF ReceiveBeginAck, ReceiveCompleteAck, ReceiveUnexpected
  <2>2. UNCHANGED <<run, params, sent, toServer>> /\ Arrive(toClient, i, toClient')
    BY <2>1 DEF ClientReceives
  <2>3. \A j \in 1..Len(toClient') : \E k \in 1..Len(toClient) : toClient'[j] = toClient[k]
    <3>1. toClient \in Seq(MessageType)
      BY QueueTypes
    <3> QED BY <2>2, <3>1, AnswersStay
  <2> QED BY <2>1, <2>2, <2>3 DEF RunsInv, RunsSorted
<1>6. CASE ReceiveTimeout \/ GiveUp \/ ClientSendFails \/ EndBurst \/ EndBursts \/ Interrupt
  <2>1. /\ UNCHANGED <<run, params, sent, toServer, toClient>>
        /\ phase' = "burst" => phase = "burst" /\ burst_num' = burst_num
    BY <1>6 DEF ReceiveTimeout, GiveUp, ClientSendFails, EndBurst, EndBursts, Interrupt,
                channelVars
  <2> QED BY <2>1 DEF RunsInv, RunsSorted
<1>7. CASE ClientPortClosed
  <2>1. PICK i \in 1..Len(toClient) : toClient' = Without(toClient, i)
    BY <1>7 DEF ClientPortClosed, Deliverable
  <2>2. \A j \in 1..Len(toClient') : \E k \in 1..Len(toClient) : toClient'[j] = toClient[k]
    BY <2>1, QueueTypes, OthersStay
  <2>3. UNCHANGED clientVars /\ UNCHANGED toServer
    BY <1>7 DEF ClientPortClosed
  <2> QED BY <2>2, <2>3 DEF RunsInv, RunsSorted, clientVars
<1> QED BY <1>1, <1>2, <1>3, <1>4, <1>5, <1>6, <1>7 DEF ClientMoves, ClientNext, ClientStep

\* What losses and the ERROR of a peer do to the two queues.
LEMMA OthersDo ==
    ASSUME TypeOK, InOrder, NetworkMoves \/ PeerSendsError
    PROVE  /\ UNCHANGED <<clientVars, serverVars>>
           /\ \/ /\ Headless(toServer, toServer') /\ UNCHANGED toClient
                 /\ lost' = lost \cup {toServer[1]}
              \/ /\ Headless(toClient, toClient') /\ UNCHANGED toServer
                 /\ lost' = lost \cup {toClient[1]}
              \/ /\ UNCHANGED <<toClient, lost>>
                 /\ toServer' = Append(toServer, Message("ERROR", run, 0, 0, 0))
<1>1. CASE DropToServer
  <2>1. PICK i \in Deliverable(toServer) :
          /\ toServer' = Without(toServer, i) /\ lost' = lost \cup {toServer[i]}
          /\ UNCHANGED toClient
    BY <1>1 DEF DropToServer
  <2>2. i = 1 /\ Headless(toServer, toServer')
    BY <2>1, QueueTypes, TakesHead
  <2> QED BY <1>1, <2>1, <2>2 DEF NetworkMoves, PeerSendsError
<1>2. CASE DropToClient
  <2>1. PICK i \in Deliverable(toClient) :
          /\ toClient' = Without(toClient, i) /\ lost' = lost \cup {toClient[i]}
          /\ UNCHANGED toServer
    BY <1>2 DEF DropToClient
  <2>2. i = 1 /\ Headless(toClient, toClient')
    BY <2>1, QueueTypes, TakesHead
  <2> QED BY <1>2, <2>1, <2>2 DEF NetworkMoves, PeerSendsError
<1>3. CASE PeerSendsError
  BY <1>3 DEF PeerSendsError
<1> QED BY <1>1, <1>2, <1>3 DEF NetworkMoves

\* and so do they.
LEMMA OthersRuns ==
    ASSUME TypeOK, InOrder, RunsInv, NetworkMoves \/ PeerSendsError
    PROVE  RunsInv'
<1>1. UNCHANGED <<run, params, phase, sent, burst_num>>
  BY OthersDo DEF clientVars
<1>2. Message("ERROR", run, 0, 0, 0).run = run
  BY DEF Message
<1>3. RunsSorted(toServer')
  BY <1>2, QueueTypes, OthersDo, SortedHeadless, SortedAppend DEF RunsInv
<1>4. \A i \in 1..Len(toClient') : toClient'[i].run <= run /\ toClient'[i].type # "PROBE"
  BY OthersDo DEF Headless, RunsInv
<1> QED BY <1>1, <1>3, <1>4 DEF RunsInv, RunsSorted

-----------------------------------------------------------------------------
(* The first handshake of a run.                                           *)

\* The order of the BEGINs survives taking the head,
LEMMA BeginsHeadless ==
    ASSUME NEW q, NEW rest, Headless(q, rest), BeginsInOrder(q), Len(q) \in Nat
    PROVE  BeginsInOrder(rest)
<1>1. \A i, j \in 1..Len(rest) : i < j => i + 1 < j + 1
  BY DEF Headless
<1> QED BY <1>1 DEF Headless, BeginsInOrder

\* and adding the BEGIN of the next try, or an ERROR.
LEMMA BeginsAppend ==
    ASSUME TypeOK, BeginsInOrder(toServer), NEW m, toServer' = Append(toServer, m),
           UNCHANGED <<run, params>>, m.run = run,
           \/ /\ m.type = "BEGIN" /\ m.seq_num = tries + 1 /\ tries' = tries + 1
              /\ m.burst_num = params.num_bursts
           \/ m.type = "ERROR" /\ tries' = tries
    PROVE  BeginsInOrder(toServer)'
<1>1. /\ Len(toServer) \in Nat /\ Len(toServer') = Len(toServer) + 1
      /\ \A i \in 1..Len(toServer) : toServer'[i] = toServer[i]
      /\ toServer'[Len(toServer) + 1] = m
  BY QueueTypes, AppendProperties
<1>2. tries \in Nat /\ \A i \in 1..Len(toServer) : toServer[i].seq_num \in Nat
  BY QueueTypes, Numbers
<1>3. ASSUME NEW i \in 1..(Len(toServer) + 1), toServer'[i].run = run
      PROVE  /\ toServer'[i].type \in {"BEGIN", "ERROR"}
             /\ toServer'[i].type = "BEGIN"
                   => toServer'[i].seq_num <= tries' /\ toServer'[i].burst_num = params.num_bursts
  <2>1. CASE i \in 1..Len(toServer)
    BY <1>1, <1>2, <1>3, <2>1 DEF BeginsInOrder
  <2>2. CASE i = Len(toServer) + 1
    BY <1>1, <1>2, <2>2
  <2> QED BY <1>1, <2>1, <2>2
<1>4. ASSUME NEW i \in 1..(Len(toServer) + 1), NEW j \in 1..(Len(toServer) + 1), i < j,
             toServer'[i].run = run, toServer'[i].type = "BEGIN", toServer'[j].type = "BEGIN"
      PROVE  toServer'[i].seq_num < toServer'[j].seq_num
  <2>1. i \in 1..Len(toServer)
    BY <1>1, <1>4
  <2>2. CASE j \in 1..Len(toServer)
    BY <1>1, <1>4, <2>1, <2>2 DEF BeginsInOrder
  <2>3. CASE j = Len(toServer) + 1
    <3>1. toServer[i].seq_num <= tries
      BY <1>1, <1>4, <2>1 DEF BeginsInOrder
    <3>2. toServer'[j].seq_num = tries + 1
      BY <1>1, <1>4, <2>3
    <3> QED BY <1>1, <1>2, <2>1, <3>1, <3>2
  <2> QED BY <1>1, <2>2, <2>3
<1> QED BY <1>1, <1>3, <1>4 DEF BeginsInOrder

\* What was acknowledged stays so while messages are taken and the test is kept
\* or lost.
LEMMA AcknowledgedKept ==
    ASSUME \A i \in 1..Len(toServer') : \/ \E j \in 1..Len(toServer) : toServer'[i] = toServer[j]
                                        \/ toServer'[i].run = run /\ toServer'[i].type = "ERROR",
           UNCHANGED <<testdata, bursts>> \/ testdata' = "null"
    PROVE  \A ack : Acknowledged(ack, toServer, testdata, bursts)
                        => Acknowledged(ack, toServer', testdata', bursts')
BY DEF Acknowledged

\* The server keeps the handshake in order,
LEMMA ServerBegins ==
    ASSUME TypeOK, InOrder, RunsInv, BeginInv, ServerMoves
    PROVE  BeginInv'
<1> SUFFICES ASSUME phase = "begin" PROVE BeginInv'
  BY DEF BeginInv, ServerMoves, clientVars
<1>1. UNCHANGED <<run, params, phase, tries>>
  BY DEF ServerMoves, clientVars
<1>2. /\ \A m \in lost : m.type = "PROBE" => m.run # run
      /\ BeginsInOrder(toServer)
      /\ \A k \in 1..Len(toClient) : toClient[k].run = run
                => Acknowledged(toClient[k], toServer, testdata, bursts)
  BY DEF BeginInv
<1>3. toServer' = toServer \/ Headless(toServer, toServer')
  BY ServerHead, ServerElse
<1>4. BeginsInOrder(toServer')
  BY <1>2, <1>3, QueueTypes, BeginsHeadless
<1>5. \A i \in 1..Len(toServer') : \E j \in 1..Len(toServer) : toServer'[i] = toServer[j]
  BY <1>3 DEF Headless
<1>6. \A m \in lost' : m.type = "PROBE" => m.run # run
  <2>1. CASE lost' = lost
    BY <1>2, <2>1
  <2>2. CASE lost' = lost \cup {toServer[1]} /\ Headless(toServer, toServer')
    <3>1. toServer[1].type = "PROBE" => toServer[1].run # run
      BY <1>2, <2>2 DEF Headless, BeginsInOrder
    <3> QED BY <1>2, <2>2, <3>1
  <2> QED BY <2>1, <2>2, ServerHead, ServerElse DEF Receives
<1>7. \A k \in 1..Len(toClient') :
          toClient'[k].run = run => Acknowledged(toClient'[k], toServer', testdata', bursts')
  <2>1. CASE UNCHANGED toClient /\ (UNCHANGED <<testdata, bursts>> \/ testdata' = "null")
    BY <1>1, <1>2, <1>5, <2>1, AcknowledgedKept
  <2>2. ASSUME ServerHandles, toServer[1].run # run PROVE \A k \in 1..Len(toClient') : toClient'[k].run # run
    <3>1. \A k \in 1..Len(toClient) : toClient[k].run # run
      BY <1>2, <2>2, ServerHead DEF Acknowledged, Headless
    <3>2. CASE UNCHANGED toClient
      BY <3>1, <3>2
    <3>3. ASSUME NEW ack, toClient' = Append(toClient, ack), ack.run = toServer[1].run
          PROVE  \A k \in 1..Len(toClient') : toClient'[k].run # run
      BY <2>2, <3>1, <3>3, QueueTypes, AppendedOne
    <3> QED BY <3>2, <3>3, RepliesOfHead
  <2>3. CASE ServerHandles /\ toServer[1].run = run
    <3> DEFINE m == toServer[1]
               ack == [m EXCEPT !.type = "BEGIN_ACK"]
    <3>1. m \in MessageType /\ Headless(toServer, toServer') /\ m.type \in {"BEGIN", "ERROR"}
      BY <1>2, <2>3, ServerHead DEF Headless, BeginsInOrder
    <3>2. CASE BeginHandled(m)
      <4>1. /\ m.type = "BEGIN" /\ testdata' = "object" /\ toClient' = Append(toClient, ack)
            /\ bursts' = NewTestData(params.num_bursts) /\ m.seq_num <= tries
        BY <1>2, <2>3, <3>1, <3>2 DEF BeginHandled, BeginsInOrder, Headless
      <4>2. ack.type = "BEGIN_ACK" /\ ack.run = run /\ ack.seq_num = m.seq_num
        BY <2>3, <3>1, RepliesEcho
      <4> HIDE DEF ack
      <4>3. ASSUME NEW i \in 1..Len(toServer')
            PROVE  /\ toServer'[i].run = run
                   /\ toServer'[i].type = "BEGIN" => toServer'[i].seq_num > m.seq_num
        <5>1. /\ 1 \in 1..Len(toServer) /\ i + 1 \in 1..Len(toServer) /\ 1 < i + 1
              /\ toServer'[i] = toServer[i + 1]
          BY <3>1 DEF Headless
        <5>2. toServer[1].run <= toServer[i + 1].run /\ toServer[i + 1].run <= run
          BY <5>1 DEF RunsInv, RunsSorted
        <5>3. toServer[i + 1].run \in Nat /\ run \in Nat /\ toServer[i + 1].seq_num \in Nat
              /\ m.seq_num \in Nat
          BY <3>1, <5>1, QueueTypes, Numbers
        <5>4. toServer[i + 1].type = "BEGIN" => m.seq_num < toServer[i + 1].seq_num
          BY <1>2, <2>3, <4>1, <5>1 DEF BeginsInOrder
        <5> QED BY <2>3, <5>1, <5>2, <5>3, <5>4
      <4>4. Acknowledged(ack, toServer', testdata', bursts')
        BY <1>1, <4>1, <4>2, <4>3 DEF Acknowledged
      <4>5. \A k \in 1..Len(toClient) : toClient[k].run = run
                => Acknowledged(toClient[k], toServer', testdata', bursts')
        BY <1>2, <1>5, <4>1 DEF Acknowledged
      <4>6. \A k \in 1..Len(toClient') :
                toClient'[k] = ack \/ \E j \in 1..Len(toClient) : toClient'[k] = toClient[j]
        BY <4>1, QueueTypes, AppendedOne
      <4> QED BY <1>2, <4>4, <4>5, <4>6
    <3>3. CASE TestGone
      BY <2>1, <3>3 DEF TestGone
    <3> QED BY <2>3, <3>1, <3>2, <3>3, HeadHandled DEF ProbeHandled, CompleteHandled
  <2>4. CASE ~ServerHandles
    BY <2>1, <2>4, ServerElse DEF TestGone
  <2> QED BY <2>2, <2>3, <2>4
<1> QED BY <1>1, <1>4, <1>6, <1>7 DEF BeginInv, BeginsInOrder, Acknowledged

\* so does the client, which starts with a network that holds nothing of the
\* run,
LEMMA ClientBegins ==
    ASSUME TypeOK, InOrder, RunsInv, BeginInv, ClientMoves
    PROVE  BeginInv'
<1>1. UNCHANGED <<testdata, bursts>>
  BY DEF ClientMoves, serverVars
<1>2. CASE ClientStart
  <2>1. /\ run' = run + 1 /\ lost' = {} /\ UNCHANGED <<toServer, toClient>>
    BY <1>2 DEF ClientStart
  <2>2. ASSUME NEW i \in 1..Len(toServer) PROVE toServer[i].run # run + 1
    <3>1. toServer[i].run \in Nat /\ run \in Nat
      BY QueueTypes, Numbers
    <3>2. toServer[i].run <= run
      BY DEF RunsInv, RunsSorted
    <3> QED BY <3>1, <3>2
  <2>3. ASSUME NEW i \in 1..Len(toClient) PROVE toClient[i].run # run + 1
    <3>1. toClient[i].run \in Nat /\ run \in Nat
      BY QueueTypes, Numbers
    <3>2. toClient[i].run <= run
      BY DEF RunsInv
    <3> QED BY <3>1, <3>2
  <2> QED BY <2>1, <2>2, <2>3 DEF BeginInv, BeginsInOrder
<1>3. CASE phase = "begin" /\ SendControl
  <2> DEFINE m == controlMessage(tries + 1)
  <2>1. /\ toServer' = Append(toServer, m) /\ tries' = tries + 1 /\ phase' = "begin"
        /\ UNCHANGED <<run, params, toClient, lost>>
    BY <1>3 DEF SendControl
  <2>2. /\ m.type = "BEGIN" /\ m.run = run /\ m.seq_num = tries + 1
        /\ m.burst_num = params.num_bursts
    BY <1>3 DEF controlMessage, Message
  <2> HIDE DEF m
  <2>3. BeginsInOrder(toServer)'
    BY <1>3, <2>1, <2>2, BeginsAppend DEF BeginInv
  <2>4. \A j \in 1..Len(toServer') :
            toServer'[j] = m \/ \E k \in 1..Len(toServer) : toServer'[j] = toServer[k]
    BY <2>1, QueueTypes, AppendedOne
  <2>5. ASSUME NEW k \in 1..Len(toClient), toClient[k].run = run
        PROVE  /\ toClient[k].type = "BEGIN_ACK" /\ toClient[k].seq_num <= tries'
               /\ \A j \in 1..Len(toServer') :
                     /\ toServer'[j].run = run
                     /\ toServer'[j].type = "BEGIN" => toServer'[j].seq_num > toClient[k].seq_num
               /\ testdata # "wild"
               /\ testdata = "object" => bursts = NewTestData(params.num_bursts)
    <3>1. Acknowledged(toClient[k], toServer, testdata, bursts)
      BY <1>3, <2>5 DEF BeginInv
    <3>2. tries \in Nat /\ toClient[k].seq_num \in Nat /\ toClient[k].seq_num <= tries
      BY <3>1, QueueTypes, Numbers DEF Acknowledged
    <3>3. \A j \in 1..Len(toServer') :
            /\ toServer'[j].run = run
            /\ toServer'[j].type = "BEGIN" => toServer'[j].seq_num > toClient[k].seq_num
      BY <2>2, <2>4, <3>1, <3>2 DEF Acknowledged
    <3> QED BY <2>1, <3>1, <3>2, <3>3 DEF Acknowledged
  <2> QED BY <1>1, <1>3, <2>1, <2>3, <2>5 DEF BeginInv, Acknowledged
<1>4. CASE phase' # "begin"
  BY <1>4 DEF BeginInv
<1>5. CASE UNCHANGED <<phase, run, params, tries, lost, toServer, toClient>>
  BY <1>1, <1>5 DEF BeginInv, BeginsInOrder, Acknowledged
<1> QED
  BY <1>2, <1>3, <1>4, <1>5
     DEF ClientMoves, ClientNext, ClientStep, SendControl, ReceiveTimeout, GiveUp,
         ClientSendFails, ReceiveBeginAck, ReceiveCompleteAck, ReceiveUnexpected, StartBurst,
         SendProbe, EndBurst, EndBursts, Interrupt, ClientPortClosed, Alive, clientVars,
         channelVars

\* and so do losses and the ERROR of a peer.
LEMMA OthersBegin ==
    ASSUME TypeOK, InOrder, RunsInv, BeginInv, NetworkMoves \/ PeerSendsError
    PROVE  BeginInv'
<1> SUFFICES ASSUME phase = "begin" PROVE BeginInv'
  BY OthersDo DEF BeginInv, clientVars
<1>1. UNCHANGED <<run, params, phase, tries, testdata, bursts>>
  BY OthersDo DEF clientVars, serverVars
<1>2. /\ \A m \in lost : m.type = "PROBE" => m.run # run
      /\ BeginsInOrder(toServer)
      /\ \A k \in 1..Len(toClient) : toClient[k].run = run
                => Acknowledged(toClient[k], toServer, testdata, bursts)
  BY DEF BeginInv
<1>3. CASE /\ Headless(toServer, toServer') /\ UNCHANGED toClient
           /\ lost' = lost \cup {toServer[1]}
  <2>1. BeginsInOrder(toServer')
    BY <1>2, <1>3, QueueTypes, BeginsHeadless
  <2>2. \A k \in 1..Len(toClient) : toClient[k].run = run
                => Acknowledged(toClient[k], toServer', testdata', bursts')
    BY <1>1, <1>2, <1>3, AcknowledgedKept DEF Headless
  <2>3. toServer[1].type = "PROBE" => toServer[1].run # run
    BY <1>2, <1>3 DEF Headless, BeginsInOrder
  <2> QED BY <1>1, <1>2, <1>3, <2>1, <2>2, <2>3 DEF BeginInv, BeginsInOrder, Acknowledged
<1>4. CASE /\ Headless(toClient, toClient') /\ UNCHANGED toServer
           /\ lost' = lost \cup {toClient[1]}
  <2>1. toClient[1].run = run => toClient[1].type # "PROBE"
    BY <1>2, <1>4 DEF Headless, Acknowledged
  <2>2. \A k \in 1..Len(toClient') : toClient'[k].run = run
                => Acknowledged(toClient'[k], toServer, testdata, bursts)
    BY <1>2, <1>4 DEF Headless
  <2>3. \A m \in lost' : m.type = "PROBE" => m.run # run
    BY <1>2, <1>4, <2>1
  <2> QED BY <1>1, <1>2, <1>4, <2>2, <2>3 DEF BeginInv, BeginsInOrder, Acknowledged
<1>5. CASE /\ UNCHANGED <<toClient, lost>>
           /\ toServer' = Append(toServer, Message("ERROR", run, 0, 0, 0))
  <2> DEFINE m == Message("ERROR", run, 0, 0, 0)
  <2>1. m.type = "ERROR" /\ m.run = run
    BY DEF Message
  <2> HIDE DEF m
  <2>2. BeginsInOrder(toServer)'
    BY <1>1, <1>2, <1>5, <2>1, BeginsAppend DEF m
  <2>3. \A j \in 1..Len(toServer') :
            toServer'[j] = m \/ \E k \in 1..Len(toServer) : toServer'[j] = toServer[k]
    BY <1>5, QueueTypes, AppendedOne DEF m
  <2>4. \A k \in 1..Len(toClient) : toClient[k].run = run
                => Acknowledged(toClient[k], toServer', testdata', bursts')
    BY <1>1, <1>2, <2>1, <2>3, AcknowledgedKept
  <2> QED BY <1>1, <1>2, <1>5, <2>2, <2>4 DEF BeginInv, BeginsInOrder, Acknowledged
<1> QED BY <1>3, <1>4, <1>5, OthersDo

-----------------------------------------------------------------------------
(* The probes of a run, from the client to the report.                     *)

\* What is left of the queue when its head is handled or lost.
LEMMA HeadGone ==
    ASSUME TypeOK, RunsInv, LostWereSent, ProbesInOrder, UNCHANGED clientVars,
           Headless(toServer, toServer'), lost' = lost \/ lost' = lost \cup {toServer[1]}
    PROVE  /\ ProbesInOrder' /\ LostWereSent'
           /\ InFlight = InFlight' \cup {toServer[1]}
           /\ toServer[1].type = "PROBE" => toServer[1] \notin InFlight'
           /\ toServer[1].type = "COMPLETE" => \A i \in 1..Len(toServer') : toServer'[i].type # "PROBE"
<1>1. 1 \in 1..Len(toServer) /\ Len(toServer) \in Nat /\ Len(toServer') = Len(toServer) - 1
  BY QueueTypes DEF Headless
<1>2. ASSUME NEW i \in 1..Len(toServer')
      PROVE  i + 1 \in 1..Len(toServer) /\ toServer'[i] = toServer[i + 1] /\ 1 < i + 1
  BY <1>1 DEF Headless
<1>3. UNCHANGED <<run, sent, phase>>
  BY DEF clientVars
<1>4. ASSUME NEW i \in 1..Len(toServer')
      PROVE  /\ toServer'[i].run = run
             /\ toServer'[i].type \in {"PROBE", "COMPLETE", "ERROR"}
             /\ toServer'[i].type = "PROBE" => toServer'[i] \in sent \ lost'
             /\ toServer'[i].type = "COMPLETE" => phase \notin {"loop", "burst"}
  BY <1>1, <1>2 DEF ProbesInOrder
<1>5. ASSUME NEW i \in 1..Len(toServer'), NEW j \in 1..Len(toServer'), i < j,
             toServer'[j].type = "PROBE"
      PROVE  toServer'[i].type # "COMPLETE" /\ toServer'[i] # toServer'[j]
  <2>1. i + 1 < j + 1
    BY <1>5
  <2> QED BY <1>2, <1>5, <2>1 DEF ProbesInOrder
<1>6. ProbesInOrder'
  BY <1>3, <1>4, <1>5 DEF ProbesInOrder
<1>7. LostWereSent'
  BY <1>1, <1>3 DEF LostWereSent, ProbesInOrder
<1>8. InFlight = InFlight' \cup {toServer[1]}
  <2>1. ASSUME NEW j \in 1..Len(toServer), j # 1
        PROVE  j - 1 \in 1..Len(toServer') /\ toServer'[j - 1] = toServer[j]
    <3>1. j - 1 \in 1..Len(toServer') /\ (j - 1) + 1 = j
      BY <1>1, <2>1
    <3> QED BY <1>2, <3>1
  <2>2. InFlight \subseteq InFlight' \cup {toServer[1]}
    BY <2>1 DEF InFlight
  <2>3. InFlight' \cup {toServer[1]} \subseteq InFlight
    BY <1>1, <1>2 DEF InFlight
  <2> QED BY <2>2, <2>3
<1>9. toServer[1].type = "PROBE" => toServer[1] \notin InFlight'
  BY <1>1, <1>2 DEF InFlight, ProbesInOrder
<1>10. toServer[1].type = "COMPLETE" => \A i \in 1..Len(toServer') : toServer'[i].type # "PROBE"
  BY <1>1, <1>2 DEF ProbesInOrder
<1> QED BY <1>6, <1>7, <1>8, <1>9, <1>10

\* What was handled, then: the probe that was at the head, unless it was lost.
LEMMA HandledGrows ==
    ASSUME NEW m, InFlight = InFlight' \cup {m}, UNCHANGED sent,
           m.type = "PROBE" => m \in sent \ lost,
           m.type = "PROBE" => m \notin InFlight', \A p \in sent : p.type = "PROBE"
    PROVE  /\ lost' = lost => \A b : Handled(b)' = Handled(b) \cup ({m} \cap Arrived(b))
           /\ lost' = lost \cup {m} => \A b : Handled(b)' = Handled(b)
<1>1. m \in sent => m \notin InFlight'
  OBVIOUS
<1>2. ASSUME lost' = lost, NEW b PROVE Handled(b)' = Handled(b) \cup ({m} \cap Arrived(b))
  <2>1. Arrived(b)' = Arrived(b) /\ Arrived(b) \subseteq sent
    BY <1>2 DEF Arrived
  <2> HIDE DEF Arrived
  <2> QED BY <1>1, <2>1 DEF Handled
<1>3. ASSUME lost' = lost \cup {m}, NEW b PROVE Handled(b)' = Handled(b)
  <2>1. Arrived(b)' = Arrived(b) \ {m}
    BY <1>3 DEF Arrived
  <2> QED BY <1>1, <2>1 DEF Handled
<1> QED BY <1>2, <1>3

\* No probe of the run is added to the losses once all were handled.
LEMMA ExpectedKept ==
    ASSUME UNCHANGED <<sent, params>>, sent \cap lost' = sent \cap lost
    PROVE  ExpectedReport' = ExpectedReport
<1> DEFINE Of(probes, n) ==
        [b \in 1..n |->
            LET arrived == {m \in probes : m.burst_num = b - 1 /\ ~QueueDrops(m.seq_num)}
            IN  Summary(IF arrived = {} THEN 0 ELSE (CHOOSE m \in arrived : TRUE).burst_len,
                        {m.seq_num : m \in arrived})]
<1>1. ExpectedReport = Of(sent \ lost, params.num_bursts)
  BY DEF ExpectedReport
<1>2. ExpectedReport' = Of(sent' \ lost', params'.num_bursts)
  BY DEF ExpectedReport
<1>3. sent' \ lost' = sent \ lost /\ params' = params
  OBVIOUS
<1> HIDE DEF Of
<1> QED BY <1>1, <1>2, <1>3

\* What was true of the results on their way stays so when some of them are
\* taken and all probes stay handled.
LEMMA AcksKept ==
    ASSUME AcksTrue, UNCHANGED run, AllHandled => AllHandled' /\ ExpectedReport' = ExpectedReport,
           \A j \in 1..Len(toClient') : \E k \in 1..Len(toClient) : toClient'[j] = toClient[k]
    PROVE  AcksTrue'
BY DEF AcksTrue

\* The results of a test that recorded every probe that arrived are those the
\* report should have.
LEMMA ResultsExpected ==
    ASSUME bursts \in Seq(BurstDataType), Len(bursts) = params.num_bursts,
           \A b \in DOMAIN bursts : RecordOf(bursts[b], Arrived(b - 1))
    PROVE  TestResults(bursts) = ExpectedReport
<1>1. DOMAIN bursts = 1..params.num_bursts
  BY LenProperties
<1>2. ASSUME NEW b \in 1..params.num_bursts
      PROVE  BurstResults(bursts[b])
               = LET arrived == {m \in sent \ lost :
                                    m.burst_num = b - 1 /\ ~QueueDrops(m.seq_num)}
                 IN  Summary(IF arrived = {} THEN 0
                             ELSE (CHOOSE m \in arrived : TRUE).burst_len,
                             {m.seq_num : m \in arrived})
  <2>1. RecordOf(bursts[b], Arrived(b - 1))
    BY <1>1
  <2> QED BY <2>1 DEF RecordOf, LengthOf, Arrived, BurstResults
<1> QED BY <1>1, <1>2 DEF TestResults, ExpectedReport

\* The server records what arrives, or loses its test.
LEMMA ServerMeasures ==
    ASSUME TypeOK, InOrder, RunsInv, SentInv, MeasureInv, ServerMoves
    PROVE  MeasureInv'
<1> SUFFICES ASSUME Begun PROVE (LostWereSent /\ ProbesInOrder /\ TestRecords /\ AcksTrue /\ ReportTrue)'
  BY DEF MeasureInv, Begun, ServerMoves, clientVars
<1> DEFINE m == toServer[1]
<1>1. UNCHANGED clientVars /\ UNCHANGED <<run, params, phase, sent, report, reportRun>>
  BY DEF ServerMoves, clientVars
<1>2. LostWereSent /\ ProbesInOrder /\ TestRecords /\ AcksTrue /\ ReportTrue
  BY DEF MeasureInv
<1>3. /\ toServer \in Seq(MessageType) /\ toClient \in Seq(MessageType)
      /\ bursts \in Seq(BurstDataType) /\ testdata \in {"null", "wild", "object"}
  BY QueueTypes DEF TypeOK, ServerTypeOK
<1>4. ASSUME UNCHANGED toClient, AllHandled => AllHandled' /\ ExpectedReport' = ExpectedReport
      PROVE  AcksTrue' /\ ReportTrue'
  <2>1. AcksTrue'
    BY <1>1, <1>2, <1>4, AcksKept
  <2> QED BY <1>1, <1>2, <1>4, <2>1 DEF ReportTrue
<1>5. ASSUME testdata' = "null" PROVE TestRecords'
  BY <1>5 DEF TestRecords
<1>6. CASE toServer' = toServer /\ lost' = lost /\ TestGone
  <2>1. AllHandled => AllHandled' /\ ExpectedReport' = ExpectedReport
    BY <1>1, <1>6, ExpectedKept DEF AllHandled
  <2>2. LostWereSent' /\ ProbesInOrder'
    BY <1>1, <1>2, <1>6 DEF LostWereSent, ProbesInOrder
  <2> QED BY <1>4, <1>5, <1>6, <2>1, <2>2 DEF TestGone
<1>7. ASSUME Headless(toServer, toServer'), lost' = lost \/ lost' = lost \cup {m}
      PROVE  /\ ProbesInOrder' /\ LostWereSent'
             /\ InFlight = InFlight' \cup {m}
             /\ m.type = "PROBE" => m \in sent \ lost
             /\ m.type = "PROBE" => m \notin InFlight'
             /\ AllHandled => AllHandled' /\ ExpectedReport' = ExpectedReport
             /\ m.type = "COMPLETE" => AllHandled'
  <2>1. /\ ProbesInOrder' /\ LostWereSent'
        /\ InFlight = InFlight' \cup {m}
        /\ m.type = "PROBE" => m \notin InFlight'
        /\ m.type = "COMPLETE" => \A i \in 1..Len(toServer') : toServer'[i].type # "PROBE"
    BY <1>1, <1>2, <1>7, HeadGone
  <2>2. 1 \in 1..Len(toServer)
    BY <1>7 DEF Headless
  <2>3. m.type = "PROBE" => m \in sent \ lost
    BY <1>2, <2>2 DEF ProbesInOrder
  <2>4. m.type = "COMPLETE" => AllHandled'
    BY <1>1, <1>2, <2>1, <2>2 DEF ProbesInOrder, AllHandled
  <2>5. ASSUME AllHandled PROVE AllHandled' /\ ExpectedReport' = ExpectedReport
    <3>1. AllHandled'
      BY <1>1, <1>7, <2>5 DEF AllHandled, Headless
    <3>2. m \notin sent
      BY <2>2, <2>5 DEF AllHandled, RunsInv
    <3>3. sent \cap lost' = sent \cap lost
      BY <1>7, <3>2
    <3> QED BY <1>1, <3>1, <3>3, ExpectedKept
  <2> QED BY <2>1, <2>3, <2>4, <2>5
<1>8. \A p \in sent : p.type = "PROBE" /\ p.burst_num < params.num_bursts
  BY DEF RunsInv
<1>9. CASE /\ Headless(toServer, toServer') /\ lost' = lost \cup {m}
           /\ UNCHANGED <<testdata, bursts, toClient>>
  <2>1. \A b : Handled(b)' = Handled(b)
    BY <1>1, <1>7, <1>8, <1>9, HandledGrows
  <2>2. TestRecords'
    BY <1>1, <1>2, <1>9, <2>1 DEF TestRecords
  <2> QED BY <1>4, <1>7, <1>9, <2>2
<1>10. CASE ServerHandles
  <2>1. Headless(toServer, toServer') /\ lost' = lost /\ m \in MessageType
    BY <1>10, ServerHead DEF Receives
  <2>2. 1 \in 1..Len(toServer)
    BY <2>1 DEF Headless
  <2>3. /\ ProbesInOrder' /\ LostWereSent'
        /\ InFlight = InFlight' \cup {m}
        /\ m.type = "PROBE" => m \in sent \ lost
        /\ m.type = "PROBE" => m \notin InFlight'
        /\ AllHandled => AllHandled' /\ ExpectedReport' = ExpectedReport
        /\ m.type = "COMPLETE" => AllHandled'
    BY <1>7, <2>1
  <2>4. \A b : Handled(b)' = Handled(b) \cup ({m} \cap Arrived(b))
    BY <1>1, <1>8, <2>1, <2>3, HandledGrows
  <2>5. CASE TestGone
    BY <1>4, <1>5, <2>3, <2>5 DEF TestGone
  <2>6. ~BeginHandled(m)
    BY <1>2, <2>2 DEF ProbesInOrder, BeginHandled
  <2>7. CASE ProbeHandled(m)
    <3>1. m.type = "PROBE" /\ UNCHANGED <<testdata, toClient>>
      BY <2>7 DEF ProbeHandled
    <3>2. CASE QueueDrops(m.seq_num) /\ UNCHANGED bursts
      <4>1. \A b : Handled(b)' = Handled(b)
        BY <2>4, <3>2 DEF Arrived
      <4>2. TestRecords'
        BY <1>1, <1>2, <3>1, <3>2, <4>1 DEF TestRecords
      <4> QED BY <1>4, <2>3, <3>1, <4>2
    <3>3. CASE /\ ~QueueDrops(m.seq_num)
               /\ bursts' = IF m.burst_num + 1 \in DOMAIN bursts
                            THEN [bursts EXCEPT ![m.burst_num + 1] = AddProbe(@, m)]
                            ELSE bursts
      <4>1. m \in sent /\ m.burst_num < params.num_bursts /\ m.burst_num \in Nat
        BY <1>8, <2>1, <2>3, <3>1, Numbers
      <4>2. m \in Arrived(m.burst_num) /\ \A b : b # m.burst_num => m \notin Arrived(b)
        BY <2>3, <3>1, <3>3 DEF Arrived
      <4>3. ASSUME testdata = "object"
            PROVE  /\ Len(bursts') = params.num_bursts
                   /\ \A b \in DOMAIN bursts' : RecordOf(bursts'[b], Handled(b - 1)')
        <5>1. /\ Len(bursts) = params.num_bursts /\ DOMAIN bursts = 1..Len(bursts)
              /\ \A b \in DOMAIN bursts : RecordOf(bursts[b], Handled(b - 1))
          BY <1>2, <1>3, <4>3 DEF TestRecords
        <5>2. params.num_bursts \in Nat /\ m.burst_num + 1 \in DOMAIN bursts
          BY <4>1, <5>1, QueueTypes
        <5>3. /\ Len(bursts') = params.num_bursts /\ DOMAIN bursts' = DOMAIN bursts
              /\ bursts' = [bursts EXCEPT ![m.burst_num + 1] = AddProbe(@, m)]
          BY <1>3, <3>3, <5>1, <5>2
        <5>4. ASSUME NEW b \in DOMAIN bursts PROVE RecordOf(bursts'[b], Handled(b - 1)')
          <6>1. CASE b = m.burst_num + 1
            <7>1. bursts'[b] = AddProbe(bursts[b], m) /\ b - 1 = m.burst_num
              BY <4>1, <5>2, <5>3, <6>1
            <7>2. Handled(b - 1)' = Handled(b - 1) \cup {m}
              BY <2>4, <4>2, <7>1
            <7>3. Handled(b - 1) \in SUBSET ProbesOf(b - 1) /\ m \in ProbesOf(b - 1)
              BY <4>1, <7>1 DEF Handled, Arrived, ProbesOf
            <7>4. RecordOf(bursts[b], Handled(b - 1))
              BY <5>1
            <7> QED BY <7>1, <7>2, <7>3, <7>4, RecordOfMore
          <6>2. CASE b # m.burst_num + 1
            <7>1. bursts'[b] = bursts[b] /\ b - 1 # m.burst_num
              BY <4>1, <5>1, <5>2, <5>3, <5>4, <6>2
            <7>2. Handled(b - 1)' = Handled(b - 1)
              BY <2>4, <4>2, <7>1
            <7> QED BY <5>1, <7>1, <7>2
          <6> QED BY <6>1, <6>2
        <5> QED BY <5>3, <5>4
      <4>4. TestRecords'
        BY <1>1, <1>2, <3>1, <4>3 DEF TestRecords
      <4> QED BY <1>4, <2>3, <3>1, <4>4
    <3> QED BY <2>7, <3>2, <3>3 DEF ProbeHandled
  <2>8. CASE CompleteHandled(m)
    <3> DEFINE ack == [m EXCEPT !.type = "COMPLETE_ACK", !.results = TestResults(bursts)]
    <3>1. /\ m.type = "COMPLETE" /\ testdata # "null" /\ UNCHANGED <<testdata, bursts>>
          /\ toClient' = Append(toClient, ack)
      BY <2>8 DEF CompleteHandled
    <3>2. ack.results = TestResults(bursts)
      BY <2>1, RepliesEcho
    <3> HIDE DEF ack
    <3>3. AllHandled' /\ m \notin sent
      BY <1>8, <2>3, <3>1
    <3>4. \A b : Handled(b)' = Handled(b)
      BY <2>4, <3>3 DEF Arrived
    <3>5. ASSUME NEW b PROVE Handled(b)' = Arrived(b)'
      <4>1. \A p \in InFlight' : p \notin sent'
        BY <1>1, <1>8, <3>3 DEF InFlight, AllHandled
      <4> QED BY <4>1 DEF Handled, Arrived
    <3>6. ASSUME NEW b PROVE Arrived(b)' = Arrived(b)
      BY <1>1, <2>1 DEF Arrived
    <3>7. testdata = "object"
      BY <1>2, <1>3, <3>1 DEF TestRecords
    <3>8. ack.results = ExpectedReport
      BY <1>2, <1>3, <3>2, <3>4, <3>5, <3>6, <3>7, ResultsExpected DEF TestRecords
    <3>9. ExpectedReport' = ExpectedReport
      BY <1>1, <2>1, ExpectedKept
    <3>10. TestRecords'
      BY <1>1, <1>2, <3>1, <3>4 DEF TestRecords
    <3>11. \A k \in 1..Len(toClient') :
               toClient'[k] = ack \/ \E j \in 1..Len(toClient) : toClient'[k] = toClient[j]
      BY <1>3, <3>1, AppendedOne
    <3>12. AcksTrue'
      BY <1>1, <1>2, <3>3, <3>8, <3>9, <3>11 DEF AcksTrue
    <3>13. ReportTrue'
      BY <1>1, <1>2, <3>3, <3>9 DEF ReportTrue
    <3> QED BY <2>3, <3>10, <3>12, <3>13
  <2> QED BY <1>10, <2>5, <2>6, <2>7, <2>8, HeadHandled
<1> QED BY <1>6, <1>9, <1>10, ServerElse

\* A message that is no probe joins the queue without disturbing what is known
\* of the probes.
LEMMA NoProbeJoins ==
    ASSUME TypeOK, RunsInv, ProbesInOrder, NEW m, m.run = run,
           m.type = "ERROR" \/ (m.type = "COMPLETE" /\ phase \notin {"loop", "burst"}),
           toServer' = Append(toServer, m), UNCHANGED <<run, phase, sent, lost, params>>
    PROVE  /\ ProbesInOrder'
           /\ \A b : Handled(b)' = Handled(b)
           /\ AllHandled => AllHandled'
<1>1. /\ Len(toServer) \in Nat /\ Len(toServer') = Len(toServer) + 1
      /\ \A i \in 1..Len(toServer) : toServer'[i] = toServer[i]
      /\ toServer'[Len(toServer) + 1] = m
  BY QueueTypes, AppendProperties
<1>2. \A i \in 1..(Len(toServer) + 1) : i \in 1..Len(toServer) \/ i = Len(toServer) + 1
  BY <1>1
<1>3. ASSUME NEW i \in 1..(Len(toServer) + 1)
      PROVE  /\ toServer'[i].run = run
             /\ toServer'[i].type \in {"PROBE", "COMPLETE", "ERROR"}
             /\ toServer'[i].type = "PROBE" => toServer'[i] \in sent \ lost
             /\ toServer'[i].type = "COMPLETE" => phase \notin {"loop", "burst"}
  BY <1>1, <1>2 DEF ProbesInOrder
<1>4. ASSUME NEW i \in 1..(Len(toServer) + 1), NEW j \in 1..(Len(toServer) + 1), i < j,
             toServer'[j].type = "PROBE"
      PROVE  toServer'[i].type # "COMPLETE" /\ toServer'[i] # toServer'[j]
  <2>1. j \in 1..Len(toServer)
    BY <1>1, <1>2, <1>4
  <2>2. i \in 1..Len(toServer)
    BY <1>1, <1>4, <2>1
  <2> QED BY <1>1, <1>4, <2>1, <2>2 DEF ProbesInOrder
<1>5. ProbesInOrder'
  BY <1>1, <1>3, <1>4 DEF ProbesInOrder
<1>6. InFlight' = InFlight \cup {m}
  BY <1>1, <1>2 DEF InFlight
<1>7. m \notin sent
  BY DEF RunsInv
<1>8. ASSUME NEW b PROVE Handled(b)' = Handled(b)
  <2>1. Arrived(b)' = Arrived(b) /\ Arrived(b) \subseteq sent
    BY DEF Arrived
  <2> HIDE DEF Arrived
  <2> QED BY <1>6, <1>7, <2>1 DEF Handled
<1>9. AllHandled => AllHandled'
  BY <1>1, <1>2 DEF AllHandled
<1> QED BY <1>5, <1>8, <1>9

\* The acceptance of a BEGIN_ACK of the run: nothing of it was sent, and the
\* server has an empty test of it, unless it has none any more.
LEMMA MeasureBegins ==
    ASSUME TypeOK, InOrder, RunsInv, BeginInv, SentInv, ReceiveBeginAck,
           UNCHANGED <<testdata, bursts>>, Begun'
    PROVE  MeasureInv'
<1>1. PICK i \in 1..Len(toClient) :
        /\ phase = "begin" /\ ClientReceives(i) /\ isResponsePair(controlMessage(tries), toClient[i])
        /\ phase' = "loop" /\ beginRun' = toClient[i].run
  BY DEF ReceiveBeginAck
<1> DEFINE ack == toClient[i]
<1>2. /\ Arrive(toClient, i, toClient') /\ duplicates \in 0..MaxDuplicates
      /\ UNCHANGED <<run, params, tries, sent, toServer, lost>>
  BY <1>1 DEF ClientReceives, TypeOK, ChannelTypeOK
<1>3. i = 1 /\ Headless(toClient, toClient')
  BY <1>2, QueueTypes, ArriveHead
<1>4. ack.run = run /\ ack.seq_num = tries
  BY <1>1, <1>2 DEF Begun, isResponsePair, controlMessage, Message
<1>5. /\ \A m \in lost : m.type = "PROBE" => m.run # run
      /\ BeginsInOrder(toServer)
      /\ \A k \in 1..Len(toClient) : toClient[k].run = run
                => Acknowledged(toClient[k], toServer, testdata, bursts)
  BY <1>1 DEF BeginInv
<1>6. Acknowledged(ack, toServer, testdata, bursts)
  BY <1>4, <1>5
<1>7. ASSUME NEW j \in 1..Len(toServer)
      PROVE  toServer[j].run = run /\ toServer[j].type = "ERROR"
  <2>1. /\ toServer[j].run = run
        /\ toServer[j].type = "BEGIN" => toServer[j].seq_num > tries
    BY <1>4, <1>6 DEF Acknowledged
  <2>2. /\ toServer[j].type \in {"BEGIN", "ERROR"}
        /\ toServer[j].type = "BEGIN" => toServer[j].seq_num <= tries
    BY <1>5, <2>1 DEF BeginsInOrder
  <2>3. tries \in Nat /\ toServer[j].seq_num \in Nat
    BY QueueTypes, Numbers
  <2> QED BY <2>1, <2>2, <2>3
<1>8. sent = {}
  BY <1>1 DEF SentInv
<1>9. LostWereSent' /\ ProbesInOrder'
  BY <1>2, <1>5, <1>7 DEF LostWereSent, ProbesInOrder
<1>10. \A b : Handled(b)' = {}
  BY <1>2, <1>8 DEF Handled, Arrived
<1>11. ASSUME testdata = "object"
       PROVE  /\ Len(bursts) = params.num_bursts
              /\ \A b \in DOMAIN bursts : bursts[b] = EmptyBurst
  <2>1. bursts = NewTestData(params.num_bursts)
    BY <1>6, <1>11 DEF Acknowledged
  <2> QED BY <2>1, QueueTypes, NewTestDataType DEF NewTestData
<1>12. RecordOf(EmptyBurst, {})
  BY DEF RecordOf, EmptyBurst, SeqNums, LengthOf
<1>13. TestRecords'
  BY <1>2, <1>6, <1>10, <1>11, <1>12 DEF TestRecords, Acknowledged
<1>14. \A k \in 1..Len(toClient') : toClient'[k].run = run => toClient'[k].type = "BEGIN_ACK"
  BY <1>3, <1>5 DEF Headless, Acknowledged
<1>15. AcksTrue'
  BY <1>2, <1>14 DEF AcksTrue
<1>16. ReportTrue'
  BY <1>1 DEF ReportTrue
<1> QED BY <1>9, <1>13, <1>15, <1>16 DEF MeasureInv

\* The next probe: it was neither sent nor lost before, and nothing behind it
\* is under way.
LEMMA MeasureSends ==
    ASSUME TypeOK, RunsInv, SentInv, LostWereSent, ProbesInOrder, TestRecords, AcksTrue,
           SendProbe, UNCHANGED <<testdata, bursts>>
    PROVE  (LostWereSent /\ ProbesInOrder /\ TestRecords /\ AcksTrue /\ ReportTrue)'
<1> DEFINE m == Message("PROBE", run, burst_num, seq_num, AsUnsigned(burst_len))
<1>1. /\ m.type = "PROBE" /\ m.run = run /\ m.burst_num = burst_num /\ m.seq_num = seq_num
  BY DEF Message
<1>2. /\ phase = "burst" /\ sent' = sent \cup {m} /\ toServer' = Append(toServer, m)
      /\ UNCHANGED <<run, params, phase, toClient, lost>>
  BY DEF SendProbe
<1> HIDE DEF m
<1>3. m \notin sent
  <2>1. \A p \in ProbesOf(burst_num) : p.seq_num < seq_num
    BY <1>2 DEF SentInv
  <2>2. seq_num \in Nat
    BY DEF TypeOK, ClientTypeOK
  <2> QED BY <1>1, <2>1, <2>2 DEF ProbesOf
<1>4. m \notin lost
  BY <1>1, <1>3 DEF LostWereSent
<1>5. /\ Len(toServer) \in Nat /\ Len(toServer') = Len(toServer) + 1
      /\ \A i \in 1..Len(toServer) : toServer'[i] = toServer[i]
      /\ toServer'[Len(toServer) + 1] = m
  BY <1>2, QueueTypes, AppendProperties
<1>6. \A i \in 1..(Len(toServer) + 1) : i \in 1..Len(toServer) \/ i = Len(toServer) + 1
  BY <1>5
<1>7. \A i \in 1..Len(toServer) : toServer[i].type # "COMPLETE" /\ toServer[i] # m
  BY <1>1, <1>2, <1>3 DEF ProbesInOrder
<1>8. ASSUME NEW i \in 1..(Len(toServer) + 1)
      PROVE  /\ toServer'[i].run = run
             /\ toServer'[i].type \in {"PROBE", "COMPLETE", "ERROR"}
             /\ toServer'[i].type = "PROBE" => toServer'[i] \in sent' \ lost
             /\ toServer'[i].type # "COMPLETE"
  BY <1>1, <1>2, <1>4, <1>5, <1>6, <1>7 DEF ProbesInOrder
<1>9. ASSUME NEW i \in 1..(Len(toServer) + 1), NEW j \in 1..(Len(toServer) + 1), i < j,
             toServer'[j].type = "PROBE"
      PROVE  toServer'[i].type # "COMPLETE" /\ toServer'[i] # toServer'[j]
  <2>1. i \in 1..Len(toServer)
    BY <1>5, <1>9
  <2>2. CASE j \in 1..Len(toServer)
    BY <1>5, <1>9, <2>1, <2>2 DEF ProbesInOrder
  <2>3. CASE j = Len(toServer) + 1
    BY <1>5, <1>7, <2>1, <2>3
  <2> QED BY <1>6, <2>2, <2>3
<1>10. ProbesInOrder'
  BY <1>2, <1>5, <1>8, <1>9 DEF ProbesInOrder
<1>11. LostWereSent'
  BY <1>2 DEF LostWereSent
<1>12. ASSUME NEW b PROVE Handled(b)' = Handled(b)
  <2>1. InFlight' = InFlight \cup {m}
    BY <1>5, <1>6 DEF InFlight
  <2>2. Arrived(b)' \ {m} = Arrived(b)
    BY <1>2, <1>3 DEF Arrived
  <2> QED BY <2>1, <2>2 DEF Handled
<1>13. TestRecords'
  BY <1>2, <1>12 DEF TestRecords
<1>14. AcksTrue'
  BY <1>2 DEF AcksTrue, AllHandled
<1> QED BY <1>2, <1>10, <1>11, <1>13, <1>14 DEF ReportTrue

\* The steps of the client keep the measure.
LEMMA ClientMeasures ==
    ASSUME TypeOK, InOrder, RunsInv, BeginInv, SentInv, MeasureInv, ClientMoves
    PROVE  MeasureInv'
<1>1. UNCHANGED <<testdata, bursts>>
  BY DEF ClientMoves, serverVars
<1>2. CASE ReceiveBeginAck
  BY <1>1, <1>2, MeasureBegins DEF MeasureInv
<1>3. CASE ~Begun'
  BY <1>3 DEF MeasureInv
<1>4. ASSUME Begun PROVE LostWereSent /\ ProbesInOrder /\ TestRecords /\ AcksTrue /\ ReportTrue
  BY <1>4 DEF MeasureInv
<1>5. CASE Begun /\ SendProbe
  BY <1>1, <1>4, <1>5, MeasureSends DEF MeasureInv
<1>6. CASE Begun /\ SendControl
  <2> DEFINE m == controlMessage(tries + 1)
  <2>1. /\ toServer' = Append(toServer, m) /\ phase = "complete"
        /\ UNCHANGED <<run, params, phase, sent, toClient, lost, report, reportRun>>
    BY <1>6 DEF SendControl, Begun
  <2>2. m.type = "COMPLETE" /\ m.run = run
    BY <2>1 DEF controlMessage, Message
  <2> HIDE DEF m
  <2>3. /\ ProbesInOrder' /\ \A b : Handled(b)' = Handled(b)
        /\ AllHandled => AllHandled'
    BY <1>4, <1>6, <2>1, <2>2, NoProbeJoins
  <2>4. ExpectedReport' = ExpectedReport
    BY <2>1, ExpectedKept
  <2>5. AcksTrue'
    BY <1>4, <1>6, <2>1, <2>3, <2>4, AcksKept
  <2>6. TestRecords'
    BY <1>1, <1>4, <1>6, <2>1, <2>3 DEF TestRecords
  <2>7. LostWereSent' /\ ReportTrue'
    BY <1>4, <1>6, <2>1 DEF LostWereSent, ReportTrue
  <2> QED BY <2>3, <2>5, <2>6, <2>7 DEF MeasureInv
<1>7. ASSUME Begun, UNCHANGED <<run, params, sent, lost, toServer>>,
             phase' \in {"loop", "burst"} => phase \in {"loop", "burst"},
             \A j \in 1..Len(toClient') : \E k \in 1..Len(toClient) : toClient'[j] = toClient[k],
             ReportTrue'
      PROVE  MeasureInv'
  <2>1. ExpectedReport' = ExpectedReport /\ (AllHandled => AllHandled')
    BY <1>7, ExpectedKept DEF AllHandled
  <2>2. AcksTrue'
    BY <1>4, <1>7, <2>1, AcksKept
  <2>3. \A b : Handled(b)' = Handled(b)
    BY <1>7 DEF Handled, Arrived, InFlight
  <2>4. TestRecords'
    BY <1>1, <1>4, <1>7, <2>3 DEF TestRecords
  <2>5. LostWereSent' /\ ProbesInOrder'
    BY <1>4, <1>7 DEF LostWereSent, ProbesInOrder
  <2> QED BY <1>7, <2>2, <2>4, <2>5 DEF MeasureInv
<1>8. CASE Begun /\ ReceiveCompleteAck
  <2>1. PICK i \in 1..Len(toClient) :
          /\ phase = "complete" /\ ClientReceives(i)
          /\ isResponsePair(controlMessage(tries), toClient[i])
          /\ phase' = "reported" /\ report' = toClient[i].results
          /\ reportRun' = toClient[i].run
    BY <1>8 DEF ReceiveCompleteAck
  <2>2. /\ UNCHANGED <<run, params, sent, lost, toServer>> /\ Arrive(toClient, i, toClient')
    BY <2>1 DEF ClientReceives
  <2>3. \A j \in 1..Len(toClient') : \E k \in 1..Len(toClient) : toClient'[j] = toClient[k]
    <3>1. toClient \in Seq(MessageType)
      BY QueueTypes
    <3> QED BY <2>2, <3>1, AnswersStay
  <2>4. toClient[i].type = "COMPLETE_ACK"
    BY <2>1 DEF isResponsePair, controlMessage, Message
  <2>5. ExpectedReport' = ExpectedReport /\ (AllHandled => AllHandled')
    BY <2>1, <2>2, ExpectedKept DEF AllHandled
  <2>6. ReportTrue'
    BY <1>4, <1>8, <2>1, <2>2, <2>4, <2>5 DEF ReportTrue, AcksTrue
  <2> QED BY <1>7, <1>8, <2>1, <2>2, <2>3, <2>6
<1>9. CASE Begun /\ (StartBurst \/ EndBurst \/ EndBursts \/ ReceiveTimeout \/ Interrupt)
  <2>1. /\ UNCHANGED <<run, params, sent, lost, toServer, toClient, report, reportRun>>
        /\ phase' = phase \/ phase' \in {"loop", "burst", "complete"}
        /\ phase' \in {"loop", "burst"} => phase \in {"loop", "burst"}
    BY <1>9 DEF StartBurst, EndBurst, EndBursts, ReceiveTimeout, Interrupt, channelVars
  <2>2. ExpectedReport' = ExpectedReport /\ (AllHandled => AllHandled')
    BY <2>1, ExpectedKept DEF AllHandled
  <2>3. ReportTrue'
    BY <1>4, <1>9, <2>1, <2>2 DEF ReportTrue
  <2> QED BY <1>7, <1>9, <2>1, <2>3
<1>10. CASE Begun /\ ClientPortClosed
  <2>1. PICK i \in 1..Len(toClient) : toClient' = Without(toClient, i)
    BY <1>10 DEF ClientPortClosed, Deliverable
  <2>2. \A j \in 1..Len(toClient') : \E k \in 1..Len(toClient) : toClient'[j] = toClient[k]
    BY <2>1, QueueTypes, OthersStay
  <2>3. UNCHANGED <<run, params, phase, sent, lost, toServer, report, reportRun>>
    BY <1>10 DEF ClientPortClosed, clientVars
  <2>4. ExpectedReport' = ExpectedReport /\ (AllHandled => AllHandled')
    BY <2>3, ExpectedKept DEF AllHandled
  <2>5. ReportTrue'
    BY <1>4, <1>10, <2>3, <2>4 DEF ReportTrue
  <2> QED BY <1>7, <1>10, <2>2, <2>3, <2>5
<1>11. CASE ClientStart \/ GiveUp \/ ClientSendFails \/ ReceiveUnexpected
  <2>1. phase' \in {"begin", "failed"}
    BY <1>11 DEF ClientStart, GiveUp, ClientSendFails, ReceiveUnexpected
  <2> QED BY <1>3, <2>1 DEF Begun
<1>12. ~ReceiveBeginAck /\ ~ClientStart /\ Begun' => Begun
  BY DEF ClientMoves, ClientNext, ClientStep, SendControl, ReceiveTimeout, GiveUp,
         ClientSendFails, ReceiveCompleteAck, ReceiveUnexpected, ClientReceives, StartBurst,
         SendProbe, EndBurst, EndBursts, Interrupt, ClientPortClosed, Begun, clientVars
<1> QED
  BY <1>2, <1>3, <1>5, <1>6, <1>8, <1>9, <1>10, <1>11, <1>12
     DEF ClientMoves, ClientNext, ClientStep

\* Losses and the ERROR of a peer keep it.
LEMMA OthersMeasure ==
    ASSUME TypeOK, InOrder, RunsInv, SentInv, MeasureInv, NetworkMoves \/ PeerSendsError
    PROVE  MeasureInv'
<1> SUFFICES ASSUME Begun PROVE (LostWereSent /\ ProbesInOrder /\ TestRecords /\ AcksTrue /\ ReportTrue)'
  BY OthersDo DEF MeasureInv, Begun, clientVars
<1>1. /\ UNCHANGED clientVars
      /\ UNCHANGED <<run, params, phase, sent, report, reportRun, testdata, bursts>>
  BY OthersDo DEF clientVars, serverVars
<1>2. LostWereSent /\ ProbesInOrder /\ TestRecords /\ AcksTrue /\ ReportTrue
  BY DEF MeasureInv
<1>3. \A p \in sent : p.type = "PROBE"
  BY DEF RunsInv
<1>4. CASE /\ Headless(toServer, toServer') /\ UNCHANGED toClient
           /\ lost' = lost \cup {toServer[1]}
  <2> DEFINE m == toServer[1]
  <2>1. /\ ProbesInOrder' /\ LostWereSent' /\ InFlight = InFlight' \cup {m}
        /\ m.type = "PROBE" => m \notin InFlight'
    BY <1>1, <1>2, <1>4, HeadGone
  <2>2. 1 \in 1..Len(toServer) /\ (m.type = "PROBE" => m \in sent \ lost)
    BY <1>2, <1>4 DEF ProbesInOrder, Headless
  <2>3. \A b : Handled(b)' = Handled(b)
    BY <1>1, <1>3, <1>4, <2>1, <2>2, HandledGrows
  <2>4. TestRecords'
    BY <1>1, <1>2, <2>3 DEF TestRecords
  <2>5. ASSUME AllHandled PROVE AllHandled' /\ ExpectedReport' = ExpectedReport
    <3>1. AllHandled'
      BY <1>1, <1>4, <2>5 DEF AllHandled, Headless
    <3>2. m \notin sent
      BY <1>3, <2>2, <2>5 DEF AllHandled
    <3>3. sent \cap lost' = sent \cap lost
      BY <1>4, <3>2
    <3> QED BY <1>1, <3>1, <3>3, ExpectedKept
  <2>6. AcksTrue'
    BY <1>1, <1>2, <1>4, <2>5, AcksKept
  <2>7. ReportTrue'
    BY <1>1, <1>2, <2>5 DEF ReportTrue
  <2> QED BY <2>1, <2>4, <2>6, <2>7
<1>5. CASE /\ Headless(toClient, toClient') /\ UNCHANGED toServer
           /\ lost' = lost \cup {toClient[1]}
  <2>1. 1 \in 1..Len(toClient) /\ toClient[1].type # "PROBE"
    BY <1>5 DEF Headless, RunsInv
  <2>2. sent \cap lost' = sent \cap lost
    BY <1>3, <1>5, <2>1
  <2>3. ExpectedReport' = ExpectedReport /\ (AllHandled => AllHandled')
    BY <1>1, <1>5, <2>2, ExpectedKept DEF AllHandled
  <2>4. AcksTrue'
    BY <1>1, <1>2, <1>5, <2>3, AcksKept DEF Headless
  <2>5. sent \ lost' = sent \ lost
    BY <2>2
  <2>6. ASSUME NEW b PROVE Handled(b)' = Handled(b)
    <3>1. Arrived(b)' = Arrived(b)
      BY <1>1, <2>5 DEF Arrived
    <3>2. InFlight' = InFlight
      BY <1>5 DEF InFlight
    <3> QED BY <3>1, <3>2 DEF Handled
  <2>7. TestRecords'
    BY <1>1, <1>2, <2>6 DEF TestRecords
  <2>8. LostWereSent' /\ ProbesInOrder'
    BY <1>1, <1>2, <1>5, <2>1, <2>5 DEF LostWereSent, ProbesInOrder
  <2>9. ReportTrue'
    BY <1>1, <1>2, <2>3 DEF ReportTrue
  <2> QED BY <2>4, <2>7, <2>8, <2>9
<1>6. CASE /\ UNCHANGED <<toClient, lost>>
           /\ toServer' = Append(toServer, Message("ERROR", run, 0, 0, 0))
  <2>1. Message("ERROR", run, 0, 0, 0).type = "ERROR" /\ Message("ERROR", run, 0, 0, 0).run = run
    BY DEF Message
  <2>2. PICK m : m.type = "ERROR" /\ m.run = run /\ toServer' = Append(toServer, m)
    BY <1>6, <2>1
  <2>3. /\ ProbesInOrder' /\ \A b : Handled(b)' = Handled(b)
        /\ AllHandled => AllHandled'
    BY <1>1, <1>2, <1>6, <2>2, NoProbeJoins
  <2>4. ExpectedReport' = ExpectedReport
    BY <1>1, <1>6, ExpectedKept
  <2>5. AcksTrue'
    BY <1>1, <1>2, <1>6, <2>3, <2>4, AcksKept
  <2>6. TestRecords'
    BY <1>1, <1>2, <2>3 DEF TestRecords
  <2>7. LostWereSent' /\ ReportTrue'
    BY <1>1, <1>2, <1>6, <2>3, <2>4 DEF LostWereSent, ReportTrue
  <2> QED BY <2>3, <2>5, <2>6, <2>7
<1> QED BY <1>4, <1>5, <1>6, OthersDo

\* On a network that keeps the order of the datagrams and makes no duplicates,
\* with a server that is not started again, the client prints the real loss:
\* for any number of runs, whatever is dropped or delayed, whichever send call
\* fails, and whatever ERRORs a peer sends.
THEOREM LossIsReal ==
    ASSUME InOrder
    PROVE  Spec => []MeasuredLossIsRealLoss
<1>1. Init => SentInv /\ RunsInv /\ BeginInv /\ MeasureInv
  <2> SUFFICES ASSUME Init PROVE SentInv /\ RunsInv /\ BeginInv /\ MeasureInv
    OBVIOUS
  <2>1. SentInv
    BY InitSession DEF SessionInv
  <2>2. phase = "idle" /\ toServer = <<>> /\ toClient = <<>> /\ sent = {}
    BY DEF Init, ChannelInit, ClientInit
  <2>3. RunsInv
    BY <2>2 DEF RunsInv, RunsSorted
  <2> QED BY <2>1, <2>2, <2>3 DEF BeginInv, MeasureInv, Begun
<1>2. TypeOK /\ SentInv /\ RunsInv /\ BeginInv /\ MeasureInv /\ [Next]_vars
        => (SentInv /\ RunsInv /\ BeginInv /\ MeasureInv)'
  <2> SUFFICES ASSUME TypeOK, SentInv, RunsInv, BeginInv, MeasureInv, [Next]_vars
               PROVE  (SentInv /\ RunsInv /\ BeginInv /\ MeasureInv)'
    OBVIOUS
  <2>1. SentInv'
    BY SentPreserved
  <2>2. CASE UNCHANGED vars
    <3>1. RunsInv' /\ BeginInv'
      BY <2>2 DEF vars, channelVars, clientVars, serverVars, RunsInv, RunsSorted, BeginInv,
                  BeginsInOrder, Acknowledged
    <3>2. ExpectedReport' = ExpectedReport
      BY <2>2, ExpectedKept DEF vars, channelVars, clientVars
    <3>3. MeasureInv'
      BY <2>2, <3>2 DEF vars, channelVars, clientVars, serverVars, MeasureInv, Begun,
                  LostWereSent, ProbesInOrder, TestRecords, Handled, Arrived, InFlight,
                  AcksTrue, ReportTrue, AllHandled
    <3> QED BY <2>1, <3>1, <3>3
  <2>3. CASE ServerMoves
    BY <2>1, <2>3, ServerRuns, ServerBegins, ServerMeasures
  <2>4. CASE ClientMoves
    BY <2>1, <2>4, ClientRuns, ClientBegins, ClientMeasures
  <2>5. CASE NetworkMoves \/ PeerSendsError
    BY <2>1, <2>5, OthersRuns, OthersBegin, OthersMeasure
  <2> QED BY <2>2, <2>3, <2>4, <2>5 DEF Next
<1>3. MeasureInv => MeasuredLossIsRealLoss
  BY DEF MeasureInv, MeasuredLossIsRealLoss, Begun, ReportTrue
<1> QED BY <1>1, <1>2, <1>3, TypeCorrect, PTL DEF Spec

-----------------------------------------------------------------------------
(* On such a network no retry wipes what was recorded.                     *)

\* Behind a probe of the run there is no BEGIN: none is sent once the client
\* has left its first loop.  So none is left either once one was recorded.
KeptInv ==
    /\ errors = 0 => \A i \in 1..Len(toServer) : toServer[i].type # "ERROR"
    /\ \A b \in DOMAIN bursts : \A p \in bursts[b].probes :
          /\ p.run <= run
          /\ p.run = run => /\ phase # "begin"
                            /\ \A i \in 1..Len(toServer) : toServer[i].type # "BEGIN"
    /\ \A i \in 1..Len(toServer) :
          (toServer[i].type = "PROBE" /\ toServer[i].run = run)
             => /\ phase # "begin"
                /\ \A j \in 1..Len(toServer) : i < j => toServer[j].type # "BEGIN"

\* The server handles the head of the queue,
LEMMA ServerKeeps ==
    ASSUME TypeOK, InOrder, RunsInv, KeptInv, ServerMoves
    PROVE  KeptInv'
<1> DEFINE m == toServer[1]
<1>1. UNCHANGED <<run, phase, errors>>
  BY DEF ServerMoves, clientVars
<1>2. toServer' = toServer \/ Headless(toServer, toServer')
  BY ServerHead, ServerElse
<1>3. ASSUME NEW i \in 1..Len(toServer')
      PROVE  \E k \in 1..Len(toServer) : toServer'[i] = toServer[k]
  BY <1>2 DEF Headless
<1>4. errors' = 0 => \A i \in 1..Len(toServer') : toServer'[i].type # "ERROR"
  BY <1>1, <1>3 DEF KeptInv
<1>5. ASSUME NEW i \in 1..Len(toServer'), toServer'[i].type = "PROBE", toServer'[i].run = run
      PROVE  /\ phase # "begin"
             /\ \A j \in 1..Len(toServer') : i < j => toServer'[j].type # "BEGIN"
  <2>1. CASE toServer' = toServer
    BY <1>5, <2>1 DEF KeptInv
  <2>2. CASE Headless(toServer, toServer')
    <3>1. \A j \in 1..Len(toServer') : i < j => i + 1 < j + 1
      BY QueueTypes, <2>2 DEF Headless
    <3> QED BY <1>5, <2>2, <3>1 DEF Headless, KeptInv
  <2> QED BY <1>2, <2>1, <2>2
<1>6. \A b \in DOMAIN bursts' : \A p \in bursts'[b].probes :
          /\ p.run <= run
          /\ p.run = run => /\ phase # "begin"
                            /\ \A i \in 1..Len(toServer') : toServer'[i].type # "BEGIN"
  <2>1. CASE UNCHANGED bursts
    BY <1>3, <2>1 DEF KeptInv
  <2>2. CASE bursts' = <<>>
    BY <2>2
  <2>3. ASSUME ServerHandles, BeginHandled(m)
        PROVE  \A b \in DOMAIN bursts' : bursts'[b].probes = {}
    BY <2>3 DEF BeginHandled, NewTestData, EmptyBurst
  <2>4. CASE ServerHandles /\ ProbeHandled(m)
    <3>1. /\ m.type = "PROBE" /\ m \in MessageType
          /\ 1 \in 1..Len(toServer) /\ Headless(toServer, toServer')
      BY <2>4, ServerHead DEF ProbeHandled, Headless
    <3>2. m.run <= run
      BY <3>1 DEF RunsInv, RunsSorted
    <3>3. ASSUME m.run = run
          PROVE  phase # "begin" /\ \A i \in 1..Len(toServer') : toServer'[i].type # "BEGIN"
      <4>1. \A j \in 1..Len(toServer) : 1 < j => toServer[j].type # "BEGIN"
        BY <3>1, <3>3 DEF KeptInv
      <4>2. phase # "begin"
        BY <3>1, <3>3 DEF KeptInv
      <4>3. \A i \in 1..Len(toServer') : i + 1 \in 1..Len(toServer) /\ 1 < i + 1
                                         /\ toServer'[i] = toServer[i + 1]
        BY <3>1 DEF Headless
      <4> QED BY <4>1, <4>2, <4>3
    <3>4. ASSUME NEW b \in DOMAIN bursts', NEW p \in bursts'[b].probes
          PROVE  p.run = m.run \/ (b \in DOMAIN bursts /\ p \in bursts[b].probes)
      <4>1. CASE UNCHANGED bursts
        BY <3>4, <4>1
      <4>2. CASE /\ m.burst_num + 1 \in DOMAIN bursts
                 /\ bursts' = [bursts EXCEPT ![m.burst_num + 1] = AddProbe(@, m)]
        BY <3>4, <4>2 DEF AddProbe
      <4> QED BY <2>4, <4>1, <4>2 DEF ProbeHandled
    <3>5. \A b \in DOMAIN bursts : \A p \in bursts[b].probes :
              /\ p.run <= run
              /\ p.run = run => /\ phase # "begin"
                                /\ \A i \in 1..Len(toServer') : toServer'[i].type # "BEGIN"
      BY <1>3 DEF KeptInv
    <3> QED BY <3>2, <3>3, <3>4, <3>5
  <2> QED BY <2>1, <2>2, <2>3, <2>4, HeadHandled, ServerElse DEF CompleteHandled, TestGone
<1> QED BY <1>1, <1>4, <1>5, <1>6 DEF KeptInv

\* the client adds to its end,
LEMMA ClientKeeps ==
    ASSUME TypeOK, InOrder, RunsInv, KeptInv, ClientMoves
    PROVE  KeptInv'
<1>1. UNCHANGED <<bursts, errors>>
  BY DEF ClientMoves, serverVars
<1>2. CASE ClientStart
  <2>1. run' = run + 1 /\ UNCHANGED toServer /\ run \in Nat
    BY <1>2, QueueTypes DEF ClientStart
  <2>2. \A i \in 1..Len(toServer) : toServer[i].run # run + 1
    <3>1. \A i \in 1..Len(toServer) : toServer[i].run \in Nat /\ toServer[i].run <= run
      BY QueueTypes, Numbers DEF RunsInv, RunsSorted
    <3> QED BY <2>1, <3>1
  <2>3. ASSUME NEW b \in DOMAIN bursts, NEW p \in bursts[b].probes
        PROVE  p.run <= run + 1 /\ p.run # run + 1
    <3>1. bursts \in Seq(BurstDataType)
      BY DEF TypeOK, ServerTypeOK
    <3>2. bursts[b] \in BurstDataType
      BY <3>1, ElementOfSeq
    <3>3. p.run \in Nat
      BY <3>2 DEF BurstDataType, ProbeEntry
    <3>4. p.run <= run
      BY DEF KeptInv
    <3> QED BY <2>1, <3>3, <3>4
  <2>4. errors = 0 => \A i \in 1..Len(toServer) : toServer[i].type # "ERROR"
    BY DEF KeptInv
  <2> QED BY <1>1, <2>1, <2>2, <2>3, <2>4 DEF KeptInv
<1>3. ASSUME NEW m, toServer' = Append(toServer, m), UNCHANGED <<run, phase>>,
             m.type # "ERROR", m.type = "BEGIN" => phase = "begin",
             m.type = "PROBE" => phase # "begin"
      PROVE  KeptInv'
  <2>1. /\ Len(toServer) \in Nat /\ Len(toServer') = Len(toServer) + 1
        /\ \A i \in 1..Len(toServer) : toServer'[i] = toServer[i]
        /\ toServer'[Len(toServer) + 1] = m
    BY <1>3, QueueTypes, AppendProperties
  <2>2. \A i \in 1..(Len(toServer) + 1) : i \in 1..Len(toServer) \/ i = Len(toServer) + 1
    BY <2>1
  <2>3. errors = 0 => \A i \in 1..(Len(toServer) + 1) : toServer'[i].type # "ERROR"
    BY <1>3, <2>1, <2>2 DEF KeptInv
  <2>4. ASSUME NEW b \in DOMAIN bursts, NEW p \in bursts[b].probes
        PROVE  /\ p.run <= run
               /\ p.run = run => /\ phase # "begin"
                                 /\ \A i \in 1..(Len(toServer) + 1) : toServer'[i].type # "BEGIN"
    BY <1>3, <2>1, <2>2, <2>4 DEF KeptInv
  <2>5. ASSUME NEW i \in 1..(Len(toServer) + 1), toServer'[i].type = "PROBE",
               toServer'[i].run = run
        PROVE  /\ phase # "begin"
               /\ \A j \in 1..(Len(toServer) + 1) : i < j => toServer'[j].type # "BEGIN"
    <3>1. CASE i = Len(toServer) + 1
      BY <1>3, <2>1, <2>5, <3>1
    <3>2. CASE i \in 1..Len(toServer)
      <4>1. /\ phase # "begin"
            /\ \A j \in 1..Len(toServer) : i < j => toServer[j].type # "BEGIN"
        BY <2>1, <2>5, <3>2 DEF KeptInv
      <4> QED BY <1>3, <2>1, <2>2, <4>1
    <3> QED BY <2>2, <3>1, <3>2
  <2> QED BY <1>1, <1>3, <2>1, <2>3, <2>4, <2>5 DEF KeptInv
<1>4. CASE SendControl
  <2> DEFINE m == controlMessage(tries + 1)
  <2>1. toServer' = Append(toServer, m) /\ UNCHANGED <<run, phase>>
    BY <1>4 DEF SendControl
  <2>2. m.type = IF phase = "begin" THEN "BEGIN" ELSE "COMPLETE"
    BY DEF controlMessage, Message
  <2> HIDE DEF m
  <2> QED BY <1>3, <2>1, <2>2
<1>5. CASE SendProbe
  <2> DEFINE m == Message("PROBE", run, burst_num, seq_num, AsUnsigned(burst_len))
  <2>1. toServer' = Append(toServer, m) /\ phase = "burst" /\ UNCHANGED <<run, phase>>
    BY <1>5 DEF SendProbe
  <2>2. m.type = "PROBE"
    BY DEF Message
  <2> HIDE DEF m
  <2> QED BY <1>3, <2>1, <2>2
<1>6. CASE UNCHANGED <<run, toServer>> /\ (phase' = "begin" => phase = "begin")
  BY <1>1, <1>6 DEF KeptInv
<1> QED
  BY <1>2, <1>4, <1>5, <1>6
     DEF ClientMoves, ClientNext, ClientStep, ReceiveTimeout, GiveUp, ClientSendFails,
         ReceiveBeginAck, ReceiveCompleteAck, ReceiveUnexpected, ClientReceives, StartBurst,
         EndBurst, EndBursts, Interrupt, ClientPortClosed, clientVars, channelVars

\* and losses and ERRORs change nothing.
LEMMA OthersKeep ==
    ASSUME TypeOK, InOrder, RunsInv, KeptInv, NetworkMoves \/ PeerSendsError
    PROVE  KeptInv'
<1>1. UNCHANGED <<run, phase, bursts>>
  BY OthersDo DEF clientVars, serverVars
<1>2. CASE NetworkMoves
  <2>1. UNCHANGED errors /\ (toServer' = toServer \/ Headless(toServer, toServer'))
    <3>1. CASE DropToServer
      <4>1. PICK i \in Deliverable(toServer) : toServer' = Without(toServer, i)
        BY <3>1 DEF DropToServer
      <4> QED BY <1>2, <4>1, QueueTypes, TakesHead DEF NetworkMoves
    <3> QED BY <1>2, <3>1 DEF NetworkMoves, DropToClient
  <2>2. CASE toServer' = toServer
    BY <1>1, <2>1, <2>2 DEF KeptInv
  <2>3. CASE Headless(toServer, toServer')
    <3>1. \A i \in 1..Len(toServer') : i + 1 \in 1..Len(toServer) /\ toServer'[i] = toServer[i + 1]
      BY <2>3 DEF Headless
    <3>2. \A i, j \in 1..Len(toServer') : i < j => i + 1 < j + 1
      BY QueueTypes, <2>3 DEF Headless
    <3> QED BY <1>1, <2>1, <3>1, <3>2 DEF KeptInv
  <2> QED BY <2>1, <2>2, <2>3
<1>3. CASE PeerSendsError
  <2>1. PICK m : m.type = "ERROR" /\ toServer' = Append(toServer, m)
    BY <1>3 DEF PeerSendsError, Message
  <2>2. errors' # 0
    BY <1>3 DEF PeerSendsError, TypeOK
  <2>3. /\ Len(toServer) \in Nat /\ Len(toServer') = Len(toServer) + 1
        /\ \A i \in 1..Len(toServer) : toServer'[i] = toServer[i]
        /\ toServer'[Len(toServer) + 1] = m
    BY <2>1, QueueTypes, AppendProperties
  <2>4. \A i \in 1..Len(toServer') : i \in 1..Len(toServer) \/ i = Len(toServer) + 1
    BY <2>3
  <2> QED BY <1>1, <2>1, <2>2, <2>3, <2>4 DEF KeptInv
<1> QED BY <1>2, <1>3

\* Every entry recorded is one of a burst, and the other way round.
LEMMA RecordedEntries ==
    \A e : e \in Recorded
             <=> \E b \in DOMAIN bursts : \E p \in bursts[b].probes :
                     e = [burst |-> b, seq_num |-> p.seq_num, run |-> p.run]
BY DEF Recorded

\* What a server that stays up has recorded of the run it keeps.
LEMMA NothingWiped ==
    ASSUME TypeOK, InOrder, KeptInv, ServerMoves, srv = "running", srv' = "running", errors = 0,
           NEW e \in Recorded, e.run = run
    PROVE  e \in Recorded'
<1> DEFINE m == toServer[1]
<1>0. PICK b \in DOMAIN bursts :
          \E p \in bursts[b].probes : e = [burst |-> b, seq_num |-> p.seq_num, run |-> p.run]
  BY RecordedEntries
<1>1. PICK p \in bursts[b].probes : e = [burst |-> b, seq_num |-> p.seq_num, run |-> p.run]
  BY <1>0
<1>2. p.run = run
  BY <1>1
<1>3. \A i \in 1..Len(toServer) : toServer[i].type \notin {"BEGIN", "ERROR"}
  BY <1>2 DEF KeptInv
<1>4. CASE UNCHANGED bursts
  BY <1>4 DEF Recorded
<1>5. CASE ServerProbe
  <2>1. PICK i \in 1..Len(toServer) :
          bursts' = IF toServer[i].burst_num + 1 \in DOMAIN bursts
                    THEN [bursts EXCEPT ![toServer[i].burst_num + 1] = AddProbe(@, toServer[i])]
                    ELSE bursts
    BY <1>5 DEF ServerProbe
  <2>2. b \in DOMAIN bursts' /\ p \in bursts'[b].probes
    BY <2>1 DEF AddProbe
  <2> QED BY <1>1, <2>2, RecordedEntries DEF Recorded
<1>6. ~ServerBegin /\ ~ServerError
  BY <1>3 DEF ServerBegin, ServerError
<1>7. ~ServerCrash /\ ~ServerSendFails /\ ~ServerStop
  BY DEF ServerCrash, ServerSendFails, ServerStop, ProcessEnds
<1>8. CASE ServerProbeDropped \/ ServerComplete \/ ServerRestart \/ ServerPortClosed
  BY <1>4, <1>8 DEF ServerProbeDropped, ServerComplete, ServerRestart, ServerPortClosed
<1> QED BY <1>5, <1>6, <1>7, <1>8 DEF ServerMoves, ServerNext, ServerHandles

\* On a network that keeps the order of the datagrams and makes no duplicates
\* a BEGIN that is sent again wipes no probe of its run, for any number of
\* runs and tries: no step of a server that stays up forgets one.
THEOREM RetriesWipeNothing ==
    ASSUME InOrder
    PROVE  Spec => RecordedKept
<1>1. Init => RunsInv /\ KeptInv
  <2> SUFFICES ASSUME Init PROVE RunsInv /\ KeptInv
    OBVIOUS
  <2>1. phase = "idle" /\ toServer = <<>> /\ toClient = <<>> /\ sent = {} /\ bursts = <<>>
    BY DEF Init, ChannelInit, ClientInit, ServerInit
  <2> QED BY <2>1 DEF RunsInv, RunsSorted, KeptInv
<1>2. TypeOK /\ RunsInv /\ KeptInv /\ [Next]_vars => (RunsInv /\ KeptInv)'
  <2> SUFFICES ASSUME TypeOK, RunsInv, KeptInv, [Next]_vars PROVE (RunsInv /\ KeptInv)'
    OBVIOUS
  <2>1. CASE UNCHANGED vars
    BY <2>1 DEF vars, channelVars, clientVars, serverVars, RunsInv, RunsSorted, KeptInv
  <2>2. CASE ServerMoves
    BY <2>2, ServerRuns, ServerKeeps
  <2>3. CASE ClientMoves
    BY <2>3, ClientRuns, ClientKeeps
  <2>4. CASE NetworkMoves \/ PeerSendsError
    BY <2>4, OthersRuns, OthersKeep
  <2> QED BY <2>1, <2>2, <2>3, <2>4 DEF Next
<1>3. TypeOK /\ KeptInv /\ [Next]_vars
        => [(srv = "running" /\ srv' = "running" /\ restarts' = restarts /\ run' = run /\ errors = 0)
              => {e \in Recorded : e.run = run} \subseteq Recorded']_vars
  <2> SUFFICES ASSUME TypeOK, KeptInv, Next, srv = "running", srv' = "running", errors = 0,
                      NEW e \in Recorded, e.run = run
               PROVE  e \in Recorded'
    OBVIOUS
  <2>1. CASE ServerMoves
    BY <2>1, NothingWiped
  <2>2. CASE ~ServerMoves
    <3>1. UNCHANGED bursts
      BY <2>2 DEF Next, ClientMoves, NetworkMoves, PeerSendsError, serverVars
    <3> QED BY <3>1 DEF Recorded
  <2> QED BY <2>1, <2>2
<1> QED BY <1>1, <1>2, <1>3, TypeCorrect, PTL DEF Spec, RecordedKept

-----------------------------------------------------------------------------
(* Where the order is kept only a run that took the acknowledgement of     *)
(* another points past the end of _bursts.  Duplicates are allowed here,   *)
(* and so are restarts of the server.                                      *)

\* rest is q, or q without its first message.
Suffix(q, rest) ==
    \E d \in {0, 1} : \A j \in 1..Len(rest) : j + d \in 1..Len(q) /\ rest[j] = q[j + d]

\* The BEGINs of the run on their way announce its bursts.
OwnBegins(q) ==
    \A i \in 1..Len(q) :
        (q[i].run = run /\ q[i].type = "BEGIN") => q[i].burst_num = params.num_bursts

\* An acknowledgement of the run's own BEGIN is there, or was accepted.
OwnAck ==
    /\ phase # "idle"
    /\ \/ beginRun = run
       \/ \E k \in 1..Len(toClient) :
             toClient[k].run = run /\ toClient[k].type = "BEGIN_ACK"

\* What earlier runs sent is gone, and a test the server has is of the run.
OwnTest(q, pointer, object) ==
    /\ \A i \in 1..Len(q) : q[i].run = run
    /\ pointer = "object" => Len(object) = params.num_bursts

\* No probe on its way points past the end of the vector, as it is or as a
\* BEGIN before the probe makes it.
InBounds(q, pointer, object) ==
    \A j \in 1..Len(q) :
        q[j].type = "PROBE"
            => /\ pointer = "object" => q[j].burst_num < Len(object)
               /\ \A i \in 1..Len(q) :
                     (i < j /\ q[i].type = "BEGIN") => q[j].burst_num < q[i].burst_num

IndexInv ==
    /\ RunsSorted(toServer)
    /\ \A k \in 1..Len(toClient) : toClient[k].run <= run
    /\ phase # "idle" => OwnBegins(toServer)
    /\ OwnAck => OwnTest(toServer, testdata, bursts)
    /\ ~misled => /\ "index" \notin ub
                  /\ InBounds(toServer, testdata, bursts)
                  /\ phase \in {"loop", "burst"} => beginRun = run
                  /\ phase = "burst" => burst_num < params.num_bursts

\* An arrival takes the head, or leaves a duplicate of it,
LEMMA ArriveSuffix ==
    ASSUME Reordering = FALSE, NEW q \in Seq(MessageType), NEW i \in 1..Len(q), NEW rest,
           Arrive(q, i, rest)
    PROVE  Suffix(q, rest)
<1>1. Len(q) \in Nat /\ i = 1
  BY DEF Arrive, Deliverable
<1>2. CASE rest = q
  <2>1. \A j \in 1..Len(q) : j + 0 \in 1..Len(q) /\ q[j] = q[j + 0]
    BY <1>1
  <2> QED BY <1>2, <2>1 DEF Suffix
<1>3. CASE rest = Without(q, 1)
  <2>1. Len(Without(q, 1)) = Len(q) - 1
    BY <1>1, WithoutOne
  <2>2. \A j \in 1..(Len(q) - 1) : j + 1 \in 1..Len(q) /\ Without(q, 1)[j] = q[j + 1]
    BY <1>1 DEF Without
  <2> QED BY <1>3, <2>1, <2>2 DEF Suffix
<1> QED BY <1>1, <1>2, <1>3 DEF Arrive

\* and a loss takes the head.
LEMMA LossSuffix ==
    ASSUME Reordering = FALSE, NEW q \in Seq(MessageType), NEW i \in Deliverable(q)
    PROVE  Suffix(q, Without(q, i))
<1>1. Len(q) \in Nat /\ i = 1 /\ i \in 1..Len(q)
  BY DEF Deliverable
<1>2. Len(Without(q, 1)) = Len(q) - 1
  BY <1>1, WithoutOne
<1>3. \A j \in 1..(Len(q) - 1) : j + 1 \in 1..Len(q) /\ Without(q, 1)[j] = q[j + 1]
  BY <1>1 DEF Without
<1> QED BY <1>1, <1>2, <1>3 DEF Suffix

\* A queue that did not change.
LEMMA SameSuffix == ASSUME NEW q \in Seq(MessageType) PROVE Suffix(q, q)
<1>1. \A j \in 1..Len(q) : j + 0 \in 1..Len(q) /\ q[j] = q[j + 0]
  BY LenProperties
<1> QED BY <1>1 DEF Suffix

\* What the invariant says of a queue it says of what is left of it.
LEMMA SuffixKeeps ==
    ASSUME NEW q, Len(q) \in Nat, NEW rest, Len(rest) \in Nat, Suffix(q, rest),
           NEW pointer, NEW object
    PROVE  /\ RunsSorted(q) => RunsSorted(rest)
           /\ OwnBegins(q) => OwnBegins(rest)
           /\ OwnTest(q, pointer, object) => OwnTest(rest, pointer, object)
           /\ InBounds(q, pointer, object) => InBounds(rest, pointer, object)
<1>1. PICK d \in {0, 1} : \A j \in 1..Len(rest) : j + d \in 1..Len(q) /\ rest[j] = q[j + d]
  BY DEF Suffix
<1>2. \A i, j \in 1..Len(rest) : i < j => i + d < j + d
  OBVIOUS
<1>3. RunsSorted(q) => RunsSorted(rest)
  BY <1>1, <1>2 DEF RunsSorted
<1>4. OwnBegins(q) => OwnBegins(rest)
  BY <1>1 DEF OwnBegins
<1>5. OwnTest(q, pointer, object) => OwnTest(rest, pointer, object)
  BY <1>1 DEF OwnTest
<1>6. InBounds(q, pointer, object) => InBounds(rest, pointer, object)
  BY <1>1, <1>2 DEF InBounds
<1> QED BY <1>3, <1>4, <1>5, <1>6

\* What stays in the queue to the server.
LEMMA ServerSuffix ==
    ASSUME TypeOK, Reordering = FALSE, ServerMoves
    PROVE  /\ Suffix(toServer, toServer')
           /\ ServerHandles => Receives(1) /\ 1 \in 1..Len(toServer)
<1>1. toServer \in Seq(MessageType)
  BY QueueTypes
<1>2. CASE ServerHandles
  <2>1. PICK i \in 1..Len(toServer) : Receives(i)
    BY <1>2, HandlerReceives
  <2>2. i = 1
    BY <2>1, HandlerTakesFirst
  <2>3. Arrive(toServer, i, toServer')
    BY <2>1 DEF Receives
  <2> QED BY <1>1, <2>1, <2>2, <2>3, ArriveSuffix
<1>3. CASE ~ServerHandles /\ ServerPortClosed
  <2>1. PICK i \in Deliverable(toServer) : toServer' = Without(toServer, i)
    BY <1>3 DEF ServerPortClosed
  <2> QED BY <1>1, <1>3, <2>1, LossSuffix
<1>4. CASE ~ServerHandles /\ ~ServerPortClosed
  <2>1. toServer' = toServer
    BY <1>4 DEF ServerMoves, ServerNext, ServerStop, ServerRestart, channelVars
  <2> QED BY <1>1, <1>4, <2>1, SameSuffix
<1> QED BY <1>2, <1>3, <1>4

\* The faults a step of the server adds are those of the head.
LEMMA FaultsOfHead ==
    ASSUME TypeOK, Reordering = FALSE, ServerMoves, "index" \in ub', "index" \notin ub
    PROVE  /\ 1 \in 1..Len(toServer) /\ toServer[1].type = "PROBE"
           /\ testdata = "object" /\ toServer[1].burst_num >= Len(bursts)
<1>1. CASE ServerHandles
  <2>1. "index" \in FaultsOf(toServer[1])
    BY <1>1, ServerSuffix DEF Receives
  <2> QED BY <1>1, <2>1, ServerSuffix DEF FaultsOf
<1>2. CASE ~ServerHandles
  BY <1>2 DEF ServerMoves, ServerNext, ServerStop, ServerRestart, ServerPortClosed, serverVars
<1> QED BY <1>1, <1>2

\* The server handles the head of its queue,
LEMMA ServerIndex ==
    ASSUME TypeOK, Reordering = FALSE, IndexInv, ServerMoves
    PROVE  IndexInv'
<1> DEFINE m == toServer[1]
           n == params.num_bursts
<1>1. UNCHANGED <<run, params, phase, beginRun, misled, burst_num>>
  BY DEF ServerMoves, clientVars
<1>2. /\ Suffix(toServer, toServer')
      /\ toServer \in Seq(MessageType) /\ Len(toServer) \in Nat
      /\ Len(toServer') \in Nat
  BY QueueTypes, ServerSuffix, ServerType, LenProperties DEF TypeOK, ChannelTypeOK
<1>3. RunsSorted(toServer') /\ (phase # "idle" => OwnBegins(toServer'))
  BY <1>2, SuffixKeeps DEF IndexInv
<1>4. ASSUME ~misled PROVE "index" \notin ub'
  <2>1. "index" \notin ub /\ InBounds(toServer, testdata, bursts)
    BY <1>4 DEF IndexInv
  <2>2. SUFFICES ASSUME "index" \in ub' PROVE FALSE
    OBVIOUS
  <2>3. /\ 1 \in 1..Len(toServer) /\ m.type = "PROBE"
        /\ testdata = "object" /\ m.burst_num >= Len(bursts)
    BY <2>1, <2>2, FaultsOfHead
  <2>4. m.burst_num < Len(bursts)
    BY <2>1, <2>3 DEF InBounds
  <2>5. m.burst_num \in Nat /\ Len(bursts) \in Nat
    <3>1. m \in MessageType /\ bursts \in Seq(BurstDataType)
      BY <2>3, QueueTypes DEF TypeOK, ServerTypeOK
    <3> QED BY <3>1, Numbers, LenProperties
  <2> QED BY <2>3, <2>4, <2>5
\* Four things may happen to the answers and the test.
<1>5. CASE ServerHandles /\ BeginHandled(m)
  <2>1. /\ m \in MessageType /\ m.type = "BEGIN" /\ 1 \in 1..Len(toServer)
        /\ testdata' = "object"
        /\ bursts' = NewTestData(m.burst_num)
    BY <1>5, ServerSuffix, QueueTypes DEF BeginHandled
  <2>2. m.burst_num \in Nat /\ m.run \in Nat /\ run \in Nat /\ m.run <= run
    BY <2>1, Numbers, QueueTypes DEF IndexInv, RunsSorted
  <2>3. Len(bursts') = m.burst_num
    BY <2>1, <2>2, NewTestDataType
  <2> DEFINE ack == [m EXCEPT !.type = "BEGIN_ACK"]
  <2>4. toClient' = Append(toClient, ack) /\ ack.run = m.run
    BY <1>5, <2>1, RepliesEcho DEF BeginHandled
  <2> HIDE DEF ack
  <2>5. \A k \in 1..Len(toClient') :
            toClient'[k] = ack \/ \E j \in 1..Len(toClient) : toClient'[k] = toClient[j]
    BY <2>4, QueueTypes, AppendedOne
  <2>6. \A k \in 1..Len(toClient') : toClient'[k].run <= run
    BY <2>2, <2>4, <2>5 DEF IndexInv
  <2>7. OwnAck' => phase # "idle" /\ (OwnAck \/ m.run = run)
    BY <1>1, <2>4, <2>5 DEF OwnAck
  <2>8. ASSUME OwnAck' PROVE OwnTest(toServer', testdata', bursts')
    <3>1. phase # "idle" /\ \A i \in 1..Len(toServer) : toServer[i].run = run
      <4>1. CASE OwnAck
        BY <2>7, <2>8, <4>1 DEF IndexInv, OwnTest
      <4>2. CASE m.run = run
        <5>1. ASSUME NEW i \in 1..Len(toServer) PROVE toServer[i].run = run
          <6>1. toServer[i].run \in Nat /\ toServer[i].run <= run
            BY QueueTypes, Numbers DEF IndexInv, RunsSorted
          <6>2. CASE i = 1
            BY <4>2, <6>2
          <6>3. CASE 1 < i
            <7>1. m.run <= toServer[i].run
              BY <2>1, <6>3 DEF IndexInv, RunsSorted
            <7> QED BY <2>2, <4>2, <6>1, <7>1
          <6> QED BY <6>2, <6>3
        <5> QED BY <2>7, <2>8, <5>1
      <4> QED BY <2>7, <2>8, <4>1, <4>2
    <3>2. m.burst_num = n
      BY <2>1, <3>1 DEF IndexInv, OwnBegins
    <3>3. OwnTest(toServer, "object", bursts')
      BY <2>3, <3>1, <3>2 DEF OwnTest
    <3> QED BY <1>2, <2>1, <3>3, SuffixKeeps
  <2>9. ASSUME ~misled PROVE InBounds(toServer', testdata', bursts')
    <3>1. InBounds(toServer, testdata, bursts)
      BY <2>9 DEF IndexInv
    <3>2. ASSUME NEW j \in 1..Len(toServer), toServer[j].type = "PROBE"
          PROVE  /\ toServer[j].burst_num < Len(bursts')
                 /\ \A i \in 1..Len(toServer) :
                       (i < j /\ toServer[i].type = "BEGIN")
                          => toServer[j].burst_num < toServer[i].burst_num
      <4>1. j # 1 /\ 1 < j
        BY <2>1, <3>2
      <4> QED BY <2>1, <2>3, <3>1, <3>2, <4>1 DEF InBounds
    <3>3. InBounds(toServer, "object", bursts')
      BY <3>2 DEF InBounds
    <3> QED BY <1>2, <2>1, <3>3, SuffixKeeps
  <2> QED BY <1>1, <1>3, <1>4, <2>6, <2>8, <2>9
          DEF IndexInv, RunsSorted, OwnBegins, OwnTest, InBounds
<1>6. ASSUME testdata' = testdata \/ testdata' # "object",
             testdata' = "object" => Len(bursts') = Len(bursts),
             \A k \in 1..Len(toClient') :
                 \/ \E j \in 1..Len(toClient) : toClient'[k] = toClient[j]
                 \/ toClient'[k].type # "BEGIN_ACK" /\ toClient'[k].run <= run
      PROVE  IndexInv'
  <2>1. \A k \in 1..Len(toClient') : toClient'[k].run <= run
    BY <1>6 DEF IndexInv
  <2>2. OwnAck' => OwnAck
    BY <1>1, <1>6 DEF OwnAck
  <2>3. OwnAck' => OwnTest(toServer', testdata', bursts')
    <3>1. OwnAck => OwnTest(toServer', testdata, bursts)
      BY <1>2, SuffixKeeps DEF IndexInv
    <3> QED BY <1>6, <2>2, <3>1 DEF OwnTest
  <2>4. ~misled => InBounds(toServer', testdata', bursts')
    <3>1. ~misled => InBounds(toServer', testdata, bursts)
      BY <1>2, SuffixKeeps DEF IndexInv
    <3> QED BY <1>6, <3>1 DEF InBounds
  <2> QED BY <1>1, <1>3, <1>4, <2>1, <2>3, <2>4
          DEF IndexInv, RunsSorted, OwnBegins, OwnTest, InBounds
<1>7. CASE ServerHandles /\ ProbeHandled(m)
  <2>1. Len(bursts') = Len(bursts)
    BY <1>7, LenProperties DEF ProbeHandled, TypeOK, ServerTypeOK
  <2> QED BY <1>6, <1>7, <2>1 DEF ProbeHandled
<1>8. CASE ServerHandles /\ CompleteHandled(m)
  <2> DEFINE ack == [m EXCEPT !.type = "COMPLETE_ACK", !.results = TestResults(bursts)]
  <2>1. m \in MessageType /\ m.run <= run
    BY <1>8, ServerSuffix, QueueTypes DEF IndexInv, RunsSorted
  <2>2. toClient' = Append(toClient, ack) /\ ack.run = m.run /\ ack.type = "COMPLETE_ACK"
    BY <1>8, <2>1, RepliesEcho DEF CompleteHandled
  <2> HIDE DEF ack
  <2>3. \A k \in 1..Len(toClient') :
            toClient'[k] = ack \/ \E j \in 1..Len(toClient) : toClient'[k] = toClient[j]
    BY <2>2, QueueTypes, AppendedOne
  <2>4. UNCHANGED <<testdata, bursts>>
    BY <1>8 DEF CompleteHandled
  <2> QED BY <1>6, <2>1, <2>2, <2>3, <2>4
<1>9. CASE ServerHandles /\ TestGone
  BY <1>6, <1>9 DEF TestGone
<1>10. CASE ServerStop \/ ServerRestart \/ ServerPortClosed
  <2>1. UNCHANGED toClient /\ (testdata' # "object" \/ UNCHANGED <<testdata, bursts>>)
    BY <1>10 DEF ServerStop, ServerRestart, ServerPortClosed, ProcessEnds, channelVars, serverVars
  <2> QED BY <1>6, <2>1
<1> QED BY <1>5, <1>7, <1>8, <1>9, <1>10, FirstHandled DEF ServerMoves, ServerNext

\* A message that joins the queue to the server, of the run under way.
LEMMA JoinsIndex ==
    ASSUME TypeOK, NEW q \in Seq(MessageType), NEW m \in MessageType, m.run = run,
           NEW pointer, NEW object
    PROVE  /\ RunsSorted(q) => RunsSorted(Append(q, m))
           /\ (OwnBegins(q) /\ (m.type = "BEGIN" => m.burst_num = params.num_bursts))
                 => OwnBegins(Append(q, m))
           /\ OwnTest(q, pointer, object) => OwnTest(Append(q, m), pointer, object)
           /\ (/\ InBounds(q, pointer, object)
               /\ m.type = "PROBE"
                     => /\ pointer = "object" => m.burst_num < Len(object)
                        /\ \A i \in 1..Len(q) : q[i].type = "BEGIN"
                                                    => m.burst_num < q[i].burst_num)
                 => InBounds(Append(q, m), pointer, object)
<1> DEFINE l == Len(q)
           r == Append(q, m)
<1>1. /\ l \in Nat /\ Len(r) = l + 1 /\ r[l + 1] = m
      /\ \A i \in 1..l : r[i] = q[i]
  BY AppendProperties
<1>2. \A i \in 1..(l + 1) : i \in 1..l \/ i = l + 1
  BY <1>1
<1>3. RunsSorted(q) => RunsSorted(r)
  BY QueueTypes, SortedAppend
<1> HIDE DEF l, r
<1>4. (OwnBegins(q) /\ (m.type = "BEGIN" => m.burst_num = params.num_bursts)) => OwnBegins(r)
  BY <1>1, <1>2 DEF OwnBegins, l
<1>5. OwnTest(q, pointer, object) => OwnTest(r, pointer, object)
  BY <1>1, <1>2 DEF OwnTest, l
<1>6. ASSUME InBounds(q, pointer, object),
             m.type = "PROBE"
                => /\ pointer = "object" => m.burst_num < Len(object)
                   /\ \A i \in 1..l : q[i].type = "BEGIN" => m.burst_num < q[i].burst_num
      PROVE  InBounds(r, pointer, object)
  <2>1. ASSUME NEW j \in 1..(l + 1), r[j].type = "PROBE"
        PROVE  /\ pointer = "object" => r[j].burst_num < Len(object)
               /\ \A i \in 1..(l + 1) :
                     (i < j /\ r[i].type = "BEGIN") => r[j].burst_num < r[i].burst_num
    <3>1. CASE j \in 1..l
      <4>1. \A i \in 1..(l + 1) : i < j => i \in 1..l
        BY <1>1, <3>1
      <4> QED BY <1>1, <1>6, <2>1, <3>1, <4>1 DEF InBounds, l
    <3>2. CASE j = l + 1
      <4>1. \A i \in 1..(l + 1) : i < j => i \in 1..l
        BY <1>1, <3>2
      <4> QED BY <1>1, <1>6, <2>1, <3>2, <4>1
    <3> QED BY <1>2, <2>1, <3>1, <3>2
  <2> QED BY <1>1, <2>1 DEF InBounds
<1> QED BY <1>3, <1>4, <1>5, <1>6 DEF l, r

\* the client takes up a burst after it was answered only,
LEMMA ClientIndex ==
    ASSUME TypeOK, IndexInv, ClientMoves
    PROVE  IndexInv'
<1> DEFINE n == params.num_bursts
<1>1. UNCHANGED <<testdata, bursts, ub>>
  BY DEF ClientMoves, serverVars
<1>2. CASE ClientStart
  <2>1. /\ run' = run + 1 /\ phase' = "begin" /\ beginRun' = 0
        /\ UNCHANGED <<toServer, toClient, misled>> /\ run \in Nat
    BY <1>2, QueueTypes DEF ClientStart
  <2>2. ASSUME NEW i \in 1..Len(toServer)
        PROVE  toServer[i].run <= run + 1 /\ toServer[i].run # run + 1
    <3>1. toServer[i].run \in Nat /\ toServer[i].run <= run
      BY QueueTypes, Numbers DEF IndexInv, RunsSorted
    <3> QED BY <2>1, <3>1
  <2>3. ASSUME NEW k \in 1..Len(toClient)
        PROVE  toClient[k].run <= run + 1 /\ toClient[k].run # run + 1
    <3>1. toClient[k].run \in Nat /\ toClient[k].run <= run
      BY QueueTypes, Numbers DEF IndexInv
    <3> QED BY <2>1, <3>1
  <2>4. RunsSorted(toServer)'
    BY <2>1, <2>2 DEF IndexInv, RunsSorted
  <2>5. OwnBegins(toServer)' /\ ~OwnAck'
    BY <2>1, <2>2, <2>3 DEF OwnBegins, OwnAck
  <2>6. ~misled => "index" \notin ub /\ InBounds(toServer, testdata, bursts)
    BY DEF IndexInv
  <2> QED BY <1>1, <2>1, <2>3, <2>4, <2>5, <2>6 DEF IndexInv, InBounds
\* Steps that leave the run as it is, by what they do to the queue.
<1>3. ASSUME UNCHANGED <<run, params>>, phase # "idle" \/ UNCHANGED phase,
             \A k \in 1..Len(toClient') : \E j \in 1..Len(toClient) : toClient'[k] = toClient[j],
             RunsSorted(toServer'), phase # "idle" => OwnBegins(toServer'),
             OwnAck => OwnTest(toServer', testdata, bursts),
             ~misled => InBounds(toServer', testdata, bursts),
             \/ UNCHANGED <<beginRun, misled>>
             \/ beginRun' = run /\ OwnAck /\ UNCHANGED misled
             \/ beginRun' # run /\ misled',
             ~misled' => /\ ~misled
                         /\ phase' \in {"loop", "burst"} => beginRun' = run
                         /\ phase' = "burst" => burst_num' < n
      PROVE  IndexInv'
  <2>1. \A k \in 1..Len(toClient') : toClient'[k].run <= run
    BY <1>3 DEF IndexInv
  <2>2. OwnAck' => OwnAck
    BY <1>3 DEF OwnAck
  <2>3. (phase' # "idle" => OwnBegins(toServer)') /\ RunsSorted(toServer)'
    BY <1>3 DEF OwnBegins, RunsSorted
  <2>4. OwnAck' => OwnTest(toServer, testdata, bursts)'
    BY <1>1, <1>3, <2>2 DEF OwnTest
  <2>5. ~misled' => InBounds(toServer, testdata, bursts)' /\ "index" \notin ub'
    BY <1>1, <1>3 DEF InBounds, IndexInv
  <2> QED BY <1>3, <2>1, <2>3, <2>4, <2>5 DEF IndexInv
<1>4. /\ RunsSorted(toServer) /\ (phase # "idle" => OwnBegins(toServer))
      /\ OwnAck => OwnTest(toServer, testdata, bursts)
      /\ ~misled => /\ InBounds(toServer, testdata, bursts)
                    /\ phase \in {"loop", "burst"} => beginRun = run
                    /\ phase = "burst" => burst_num < n
  BY DEF IndexInv
<1>5. \A k \in 1..Len(toClient) : \E j \in 1..Len(toClient) : toClient[k] = toClient[j]
  OBVIOUS
<1>6. CASE SendControl
  <2> DEFINE m == controlMessage(tries + 1)
  <2>1. /\ toServer' = Append(toServer, m) /\ phase # "idle"
        /\ UNCHANGED <<run, params, phase, toClient, beginRun, misled, burst_num>>
    BY <1>6 DEF SendControl
  <2>2. m \in MessageType
    BY <1>6, Bounds, ControlMessageType DEF SendControl, MayTry, TypeOK, ClientTypeOK
  <2>3. m.run = run /\ m.burst_num = n /\ m.type # "PROBE"
    BY DEF controlMessage, Message
  <2> HIDE DEF m
  <2>4. /\ RunsSorted(toServer') /\ OwnBegins(toServer')
        /\ OwnAck => OwnTest(toServer', testdata, bursts)
        /\ ~misled => InBounds(toServer', testdata, bursts)
    BY <1>4, <2>1, <2>2, <2>3, QueueTypes, JoinsIndex
  <2> QED BY <1>3, <1>4, <1>5, <2>1, <2>4
<1>7. CASE SendProbe
  <2> DEFINE m == Message("PROBE", run, burst_num, seq_num, AsUnsigned(burst_len))
  <2>1. /\ toServer' = Append(toServer, m) /\ phase = "burst"
        /\ UNCHANGED <<run, params, phase, toClient, beginRun, misled, burst_num>>
    BY <1>7 DEF SendProbe
  <2>2. m \in MessageType
    <3>1. run \in Nat /\ burst_num \in Nat /\ seq_num \in Nat
      BY Bounds DEF TypeOK, ClientTypeOK
    <3>2. AsUnsigned(burst_len) \in Nat
      BY AsUnsignedType DEF TypeOK, ClientTypeOK
    <3> QED BY <3>1, <3>2, MessageIsTyped DEF MessageTypes
  <2>3. m.run = run /\ m.burst_num = burst_num /\ m.type = "PROBE"
    BY DEF Message
  <2> HIDE DEF m
  <2>4. ASSUME ~misled
        PROVE  /\ testdata = "object" => m.burst_num < Len(bursts)
               /\ \A i \in 1..Len(toServer) : toServer[i].type = "BEGIN"
                                                  => m.burst_num < toServer[i].burst_num
    <3>1. burst_num < n /\ OwnAck
      BY <1>4, <2>1, <2>4 DEF OwnAck
    <3>2. OwnTest(toServer, testdata, bursts) /\ OwnBegins(toServer)
      BY <1>4, <2>1, <3>1
    <3> QED BY <2>3, <3>1, <3>2 DEF OwnTest, OwnBegins
  <2>5. RunsSorted(toServer') /\ OwnBegins(toServer')
    BY <1>4, <2>1, <2>2, <2>3, QueueTypes, JoinsIndex
  <2>6. OwnAck => OwnTest(toServer', testdata, bursts)
    BY <1>4, <2>1, <2>2, <2>3, QueueTypes, JoinsIndex
  <2>7. ~misled => InBounds(toServer', testdata, bursts)
    BY <1>4, <2>1, <2>2, <2>3, <2>4, QueueTypes, JoinsIndex
  <2> QED BY <1>3, <1>4, <1>5, <2>1, <2>5, <2>6, <2>7
<1>8. ASSUME NEW i \in 1..Len(toClient), ClientReceives(i)
      PROVE  /\ UNCHANGED <<run, params, burst_num, toServer>>
             /\ \A k \in 1..Len(toClient') : \E j \in 1..Len(toClient) : toClient'[k] = toClient[j]
  <2>1. UNCHANGED <<run, params, burst_num, toServer>> /\ Arrive(toClient, i, toClient')
    BY <1>8 DEF ClientReceives
  <2> QED BY <1>8, <2>1, QueueTypes, AnswersStay
<1>9. CASE ReceiveBeginAck
  <2>1. PICK i \in 1..Len(toClient) :
          /\ ClientReceives(i) /\ phase = "begin" /\ phase' = "loop"
          /\ isResponsePair(controlMessage(tries), toClient[i])
          /\ beginRun' = toClient[i].run
          /\ misled' = (misled \/ toClient[i].run # run)
    BY <1>9 DEF ReceiveBeginAck
  <2>2. toClient[i].type = "BEGIN_ACK"
    BY <2>1 DEF isResponsePair, controlMessage, Message
  <2>3. CASE toClient[i].run = run
    <3>1. OwnAck /\ beginRun' = run
      BY <2>1, <2>2, <2>3 DEF OwnAck
    <3>2. misled' = misled
      <4>1. misled \in BOOLEAN
        BY DEF TypeOK, ClientTypeOK
      <4>2. misled' = (misled \/ FALSE)
        BY <2>1, <2>3
      <4> QED BY <4>1, <4>2
    <3> QED BY <1>3, <1>4, <1>8, <2>1, <3>1, <3>2
  <2>4. CASE toClient[i].run # run
    BY <1>3, <1>4, <1>8, <2>1, <2>4
  <2> QED BY <2>3, <2>4
<1>10. CASE ReceiveCompleteAck \/ ReceiveUnexpected
  <2>1. PICK i \in 1..Len(toClient) :
          /\ ClientReceives(i) /\ phase # "idle" /\ phase' \in {"reported", "failed"}
          /\ UNCHANGED <<beginRun, misled>>
    BY <1>10 DEF ReceiveCompleteAck, ReceiveUnexpected
  <2> QED BY <1>3, <1>4, <1>8, <2>1
<1>11. CASE StartBurst
  <2>1. /\ UNCHANGED <<run, params, toServer, toClient, beginRun, misled, burst_num>>
        /\ phase = "loop" /\ phase' = "burst" /\ burst_num < n
    BY <1>11 DEF StartBurst, BurstsLeft, channelVars
  <2> QED BY <1>3, <1>4, <1>5, <2>1
<1>12. CASE ReceiveTimeout \/ Interrupt
  <2>1. UNCHANGED <<run, params, phase, toServer, toClient, beginRun, misled, burst_num>>
    BY <1>12 DEF ReceiveTimeout, Interrupt, channelVars
  <2> QED BY <1>3, <1>4, <1>5, <2>1
<1>13. CASE GiveUp \/ ClientSendFails \/ EndBurst \/ EndBursts
  <2>1. /\ UNCHANGED <<run, params, toServer, toClient, beginRun, misled>>
        /\ phase # "idle" /\ phase' # "burst"
        /\ phase' = "loop" => phase = "burst"
    BY <1>13 DEF GiveUp, ClientSendFails, EndBurst, EndBursts, channelVars
  <2> QED BY <1>3, <1>4, <1>5, <2>1
<1>14. CASE ClientPortClosed
  <2>1. PICK i \in 1..Len(toClient) : toClient' = Without(toClient, i)
    BY <1>14 DEF ClientPortClosed, Deliverable
  <2>2. \A k \in 1..Len(toClient') : \E j \in 1..Len(toClient) : toClient'[k] = toClient[j]
    BY <2>1, QueueTypes, OthersStay
  <2>3. UNCHANGED <<run, params, phase, toServer, beginRun, misled, burst_num>>
    BY <1>14 DEF ClientPortClosed, clientVars
  <2> QED BY <1>3, <1>4, <2>2, <2>3
<1> QED BY <1>2, <1>6, <1>7, <1>9, <1>10, <1>11, <1>12, <1>13, <1>14
        DEF ClientMoves, ClientNext, ClientStep

\* and losses and ERRORs take nothing from it.
LEMMA OthersIndex ==
    ASSUME TypeOK, Reordering = FALSE, IndexInv, NetworkMoves \/ PeerSendsError
    PROVE  IndexInv'
<1>1. /\ UNCHANGED <<run, params, phase, beginRun, misled, burst_num>>
      /\ UNCHANGED <<testdata, bursts, ub>>
  BY DEF NetworkMoves, PeerSendsError, clientVars, serverVars
<1>2. ASSUME \A k \in 1..Len(toClient') : \E j \in 1..Len(toClient) : toClient'[k] = toClient[j],
             RunsSorted(toServer) => RunsSorted(toServer'),
             OwnBegins(toServer) => OwnBegins(toServer'),
             OwnTest(toServer, testdata, bursts) => OwnTest(toServer', testdata, bursts),
             InBounds(toServer, testdata, bursts) => InBounds(toServer', testdata, bursts)
      PROVE  IndexInv'
  <2>1. OwnAck' => OwnAck
    BY <1>1, <1>2 DEF OwnAck
  <2>2. RunsSorted(toServer)' /\ (phase' # "idle" => OwnBegins(toServer)')
    BY <1>1, <1>2 DEF IndexInv, RunsSorted, OwnBegins
  <2>3. OwnAck' => OwnTest(toServer, testdata, bursts)'
    BY <1>1, <1>2, <2>1 DEF IndexInv, OwnTest
  <2>4. ~misled' => InBounds(toServer, testdata, bursts)'
    BY <1>1, <1>2 DEF IndexInv, InBounds
  <2> QED BY <1>1, <1>2, <2>2, <2>3, <2>4 DEF IndexInv
<1>3. CASE NetworkMoves /\ DropToServer
  <2>1. PICK i \in Deliverable(toServer) : toServer' = Without(toServer, i) /\ UNCHANGED toClient
    BY <1>3 DEF DropToServer
  <2>2. Suffix(toServer, toServer')
    BY <2>1, QueueTypes, LossSuffix
  <2>3. Len(toServer) \in Nat /\ Len(toServer') \in Nat
    <3>1. TypeOK'
      BY <1>3, NetworkType
    <3> QED BY <3>1, QueueTypes, LenProperties DEF TypeOK, ChannelTypeOK
  <2> QED BY <1>2, <2>1, <2>2, <2>3, SuffixKeeps
<1>4. CASE DropToClient
  <2>1. PICK i \in 1..Len(toClient) : toClient' = Without(toClient, i) /\ UNCHANGED toServer
    BY <1>4 DEF DropToClient, Deliverable
  <2>2. \A k \in 1..Len(toClient') : \E j \in 1..Len(toClient) : toClient'[k] = toClient[j]
    BY <2>1, QueueTypes, OthersStay
  <2> QED BY <1>2, <2>1, <2>2
<1>5. CASE PeerSendsError
  <2> DEFINE m == Message("ERROR", run, 0, 0, 0)
  <2>1. m \in MessageType
    BY QueueTypes, MessageIsTyped DEF MessageTypes
  <2>2. m.run = run /\ m.type = "ERROR"
    BY DEF Message
  <2>3. toServer' = Append(toServer, m) /\ UNCHANGED toClient
    BY <1>5 DEF PeerSendsError
  <2> HIDE DEF m
  <2> QED BY <1>2, <2>1, <2>2, <2>3, QueueTypes, JoinsIndex
<1> QED BY <1>3, <1>4, <1>5 DEF NetworkMoves

\* On a network that keeps the order the server writes past the end of _bursts
\* only after some run took the BEGIN_ACK of another for its own, for any
\* command lines and number of runs, with any losses, delays and duplicates,
\* and however often the server is started again.
THEOREM IndexNeedsStaleAck ==
    ASSUME Reordering = FALSE
    PROVE  Spec => []IndexExplained
<1>1. Init => IndexInv
  <2> SUFFICES ASSUME Init PROVE IndexInv
    OBVIOUS
  <2>1. phase = "idle" /\ toServer = <<>> /\ toClient = <<>> /\ ub = {}
    BY DEF Init, ChannelInit, ClientInit, ServerInit
  <2> QED BY <2>1 DEF IndexInv, RunsSorted, OwnAck, InBounds
<1>2. TypeOK /\ IndexInv /\ [Next]_vars => IndexInv'
  <2> SUFFICES ASSUME TypeOK, IndexInv, [Next]_vars PROVE IndexInv'
    OBVIOUS
  <2>1. CASE UNCHANGED vars
    BY <2>1 DEF vars, channelVars, clientVars, serverVars, IndexInv, RunsSorted,
                OwnBegins, OwnAck, OwnTest, InBounds
  <2>2. CASE ServerMoves
    BY <2>2, ServerIndex
  <2>3. CASE ClientMoves
    BY <2>3, ClientIndex
  <2>4. CASE NetworkMoves \/ PeerSendsError
    BY <2>4, OthersIndex
  <2> QED BY <2>1, <2>2, <2>3, <2>4 DEF Next
<1>3. IndexInv => IndexExplained
  BY DEF IndexInv, IndexExplained
<1> QED BY <1>1, <1>2, <1>3, TypeCorrect, PTL DEF Spec

-----------------------------------------------------------------------------
(* Where the order is kept and nothing comes twice, only a late answer is  *)
(* taken for an unexpected one.                                            *)

\* The answers to the two requests.
AnswerTo(type) == IF type = "BEGIN" THEN "BEGIN_ACK" ELSE "COMPLETE_ACK"

\* The request the client repeats in its current handshake.
Asking == IF phase = "begin" THEN "BEGIN" ELSE "COMPLETE"

InHandshake == phase \in {"begin", "complete"}

\* m carries the numbers of the current handshake, and those of one of its
\* tries.
OfHandshake(m) ==
    /\ InHandshake
    /\ m.burst_num = params.num_bursts
    /\ m.burst_len = AsUnsigned(burst_len)
    /\ m.seq_num <= tries

\* The run's own requests and answers on their way are those of the handshake
\* it is in.
OwnRequests(q) ==
    \A i \in 1..Len(q) :
        (q[i].run = run /\ q[i].type \in {"BEGIN", "COMPLETE"})
            => OfHandshake(q[i]) /\ q[i].type = Asking

OwnAnswers(q) ==
    \A k \in 1..Len(q) :
        q[k].run = run => OfHandshake(q[k]) /\ q[k].type = AnswerTo(Asking)

\* The run's own answers come in the order of its tries.
AnswersInOrder(q) ==
    \A j, k \in 1..Len(q) :
        (j < k /\ q[j].run = run /\ q[k].run = run) => q[j].seq_num < q[k].seq_num

\* A run that was not misled: it still asks, or was answered itself.
NotMisled == phase = "begin" \/ (phase \in {"loop", "burst", "complete"} /\ beginRun = run)

LateInv ==
    /\ waiting => InHandshake
    /\ NotMisled => OwnRequests(toServer) /\ OwnAnswers(toClient)
    /\ phase = "begin" => AnswersInOrder(toClient)

\* Taking the head of a queue keeps all three,
LEMMA HeadlessKeeps ==
    ASSUME NEW q, NEW rest, Headless(q, rest)
    PROVE  /\ OwnRequests(q) => OwnRequests(rest)
           /\ OwnAnswers(q) => OwnAnswers(rest)
           /\ AnswersInOrder(q) => AnswersInOrder(rest)
<1>1. \A j \in 1..Len(rest) : j + 1 \in 1..Len(q) /\ rest[j] = q[j + 1]
  BY DEF Headless
<1>2. OwnRequests(q) => OwnRequests(rest)
  BY <1>1 DEF OwnRequests
<1>3. OwnAnswers(q) => OwnAnswers(rest)
  BY <1>1 DEF OwnAnswers
<1>4. \A i, j \in 1..Len(rest) : i < j => i + 1 < j + 1
  OBVIOUS
<1>5. AnswersInOrder(q) => AnswersInOrder(rest)
  BY <1>1, <1>4 DEF AnswersInOrder
<1> QED BY <1>2, <1>3, <1>5

\* and so does a message that joins a queue, if it is of the handshake.
LEMMA JoinsRequests ==
    ASSUME NEW q \in Seq(MessageType), NEW m, OwnRequests(q),
           (m.run = run /\ m.type \in {"BEGIN", "COMPLETE"}) => OfHandshake(m) /\ m.type = Asking
    PROVE  OwnRequests(Append(q, m))
BY AppendedOne DEF OwnRequests

LEMMA JoinsAnswers ==
    ASSUME NEW q \in Seq(MessageType), NEW m, OwnAnswers(q),
           m.run = run => OfHandshake(m) /\ m.type = AnswerTo(Asking)
    PROVE  OwnAnswers(Append(q, m))
BY AppendedOne DEF OwnAnswers

LEMMA JoinsInOrder ==
    ASSUME NEW q \in Seq(MessageType), NEW m, AnswersInOrder(q),
           \A k \in 1..Len(q) : (q[k].run = run /\ m.run = run) => q[k].seq_num < m.seq_num
    PROVE  AnswersInOrder(Append(q, m))
<1>1. /\ Len(q) \in Nat /\ Len(Append(q, m)) = Len(q) + 1
      /\ \A i \in 1..Len(q) : Append(q, m)[i] = q[i]
      /\ Append(q, m)[Len(q) + 1] = m
  BY AppendProperties
<1>2. ASSUME NEW j \in 1..(Len(q) + 1), NEW k \in 1..(Len(q) + 1), j < k,
             Append(q, m)[j].run = run, Append(q, m)[k].run = run
      PROVE  Append(q, m)[j].seq_num < Append(q, m)[k].seq_num
  <2>1. j \in 1..Len(q)
    BY <1>1, <1>2
  <2>2. CASE k \in 1..Len(q)
    BY <1>1, <1>2, <2>1, <2>2 DEF AnswersInOrder
  <2>3. CASE k = Len(q) + 1
    BY <1>1, <1>2, <2>1, <2>3
  <2> QED BY <1>1, <2>2, <2>3
<1> QED BY <1>1, <1>2 DEF AnswersInOrder

\* A reply carries the numbers of what it answers.
LEMMA RepliesEchoNumbers ==
    ASSUME NEW m \in MessageType, NEW type, NEW results
    PROVE  LET a == [m EXCEPT !.type = type]
               b == [m EXCEPT !.type = type, !.results = results]
           IN  /\ a.burst_num = m.burst_num /\ a.burst_len = m.burst_len
               /\ b.burst_num = m.burst_num /\ b.burst_len = m.burst_len
               /\ b.seq_num = m.seq_num
BY DEF MessageType

\* A reply of the server answers the head of the queue.
LEMMA RepliesAnswer ==
    ASSUME TypeOK, InOrder, ServerMoves
    PROVE  \/ UNCHANGED toClient
           \/ /\ ServerHandles
              /\ toServer[1].type \in {"BEGIN", "COMPLETE"}
              /\ \E ack : /\ toClient' = Append(toClient, ack)
                          /\ ack.type = AnswerTo(toServer[1].type)
                          /\ ack.run = toServer[1].run
                          /\ ack.seq_num = toServer[1].seq_num
                          /\ ack.burst_num = toServer[1].burst_num
                          /\ ack.burst_len = toServer[1].burst_len
<1>1. CASE ServerHandles
  <2> DEFINE m == toServer[1]
  <2>1. m \in MessageType
    BY <1>1, ServerHead
  <2>2. CASE BeginHandled(m)
    <3> DEFINE ack == [m EXCEPT !.type = "BEGIN_ACK"]
    <3>1. /\ ack.type = "BEGIN_ACK" /\ ack.run = m.run /\ ack.seq_num = m.seq_num
          /\ ack.burst_num = m.burst_num /\ ack.burst_len = m.burst_len
      BY <2>1, RepliesEcho, RepliesEchoNumbers
    <3>2. m.type = "BEGIN" /\ toClient' = Append(toClient, ack)
      BY <2>2 DEF BeginHandled
    <3> HIDE DEF ack
    <3> QED BY <1>1, <3>1, <3>2 DEF AnswerTo
  <2>3. CASE CompleteHandled(m)
    <3> DEFINE ack == [m EXCEPT !.type = "COMPLETE_ACK", !.results = TestResults(bursts)]
    <3>1. /\ ack.type = "COMPLETE_ACK" /\ ack.run = m.run /\ ack.seq_num = m.seq_num
          /\ ack.burst_num = m.burst_num /\ ack.burst_len = m.burst_len
      BY <2>1, RepliesEcho, RepliesEchoNumbers
    <3>2. m.type = "COMPLETE" /\ toClient' = Append(toClient, ack)
      BY <2>3 DEF CompleteHandled
    <3> HIDE DEF ack
    <3> QED BY <1>1, <3>1, <3>2 DEF AnswerTo
  <2> QED BY <1>1, <2>2, <2>3, HeadHandled DEF ProbeHandled, TestGone
<1> QED BY <1>1, ServerElse

\* The server keeps LateInv,
LEMMA ServerLate ==
    ASSUME TypeOK, InOrder, BeginInv, LateInv, ServerMoves
    PROVE  LateInv'
<1>1. UNCHANGED <<run, params, phase, tries, waiting, burst_len, beginRun>>
  BY DEF ServerMoves, clientVars
<1>2. NotMisled => OwnRequests(toServer')
  BY ServerHead, ServerElse, HeadlessKeeps DEF LateInv
<1>3. (NotMisled => OwnAnswers(toClient')) /\ (phase = "begin" => AnswersInOrder(toClient'))
  <2>1. CASE UNCHANGED toClient
    BY <2>1 DEF LateInv
  <2>2. ASSUME ServerHandles, toServer[1].type \in {"BEGIN", "COMPLETE"},
               NEW ack, toClient' = Append(toClient, ack),
               ack.type = AnswerTo(toServer[1].type), ack.run = toServer[1].run,
               ack.seq_num = toServer[1].seq_num, ack.burst_num = toServer[1].burst_num,
               ack.burst_len = toServer[1].burst_len
        PROVE  /\ NotMisled => OwnAnswers(toClient')
               /\ phase = "begin" => AnswersInOrder(toClient')
    <3>1. 1 \in 1..Len(toServer) /\ toClient \in Seq(MessageType)
      BY <2>2, ServerHead, QueueTypes DEF Headless
    <3>2. ASSUME NotMisled PROVE OwnAnswers(toClient')
      <4>1. OwnRequests(toServer) /\ OwnAnswers(toClient)
        BY <3>2 DEF LateInv
      <4>2. ack.run = run => OfHandshake(ack) /\ ack.type = AnswerTo(Asking)
        BY <2>2, <3>1, <4>1 DEF OwnRequests, OfHandshake
      <4> QED BY <2>2, <3>1, <4>1, <4>2, JoinsAnswers
    <3>3. ASSUME phase = "begin" PROVE AnswersInOrder(toClient')
      <4>1. OwnRequests(toServer) /\ AnswersInOrder(toClient)
        BY <3>3 DEF LateInv, NotMisled
      <4>2. ASSUME NEW k \in 1..Len(toClient), toClient[k].run = run, ack.run = run
            PROVE  toClient[k].seq_num < ack.seq_num
        <5>1. toServer[1].type = "BEGIN"
          BY <2>2, <3>1, <3>3, <4>1, <4>2 DEF OwnRequests, Asking
        <5>2. toServer[1].seq_num > toClient[k].seq_num
          BY <3>1, <3>3, <4>2, <5>1 DEF BeginInv, Acknowledged
        <5>3. toServer[1].seq_num \in Nat /\ toClient[k].seq_num \in Nat
          BY <3>1, QueueTypes, Numbers
        <5> QED BY <2>2, <5>2, <5>3
      <4> QED BY <2>2, <3>1, <4>1, <4>2, JoinsInOrder
    <3> QED BY <3>2, <3>3
  <2> QED BY <2>1, <2>2, RepliesAnswer
<1> QED BY <1>1, <1>2, <1>3
        DEF LateInv, NotMisled, InHandshake, OwnRequests, OwnAnswers, OfHandshake, Asking,
            AnswersInOrder

\* When the client accepts the acknowledgement of its own BEGIN, no BEGIN of
\* the run and no other answer to one is under way.
LEMMA AcceptedLast ==
    ASSUME TypeOK, InOrder, BeginInv, LateInv, phase = "begin", ClientReceives(1),
           1 \in 1..Len(toClient), Headless(toClient, toClient'),
           toClient[1].run = run, toClient[1].seq_num = tries
    PROVE  /\ \A i \in 1..Len(toServer) :
                 toServer[i].run = run => toServer[i].type \notin {"BEGIN", "COMPLETE"}
           /\ \A k \in 1..Len(toClient') : toClient'[k].run # run
<1>1. OwnRequests(toServer) /\ OwnAnswers(toClient) /\ AnswersInOrder(toClient)
  BY DEF LateInv, NotMisled
<1>2. tries \in Nat
  BY QueueTypes
<1>3. ASSUME NEW i \in 1..Len(toServer), toServer[i].run = run,
             toServer[i].type \in {"BEGIN", "COMPLETE"}
      PROVE  FALSE
  <2>1. toServer[i].type = "BEGIN" /\ toServer[i].seq_num <= tries
    BY <1>1, <1>3 DEF OwnRequests, OfHandshake, Asking
  <2>2. toServer[i].seq_num > tries
    BY <1>3, <2>1 DEF BeginInv, Acknowledged
  <2>3. toServer[i].seq_num \in Nat
    BY QueueTypes, Numbers
  <2> QED BY <1>2, <2>1, <2>2, <2>3
<1>4. ASSUME NEW k \in 1..Len(toClient'), toClient'[k].run = run
      PROVE  FALSE
  <2>1. /\ k + 1 \in 1..Len(toClient) /\ 1 < k + 1
        /\ toClient'[k] = toClient[k + 1]
    BY DEF Headless
  <2>2. tries < toClient[k + 1].seq_num
    BY <1>1, <1>4, <2>1 DEF AnswersInOrder
  <2>3. toClient[k + 1].seq_num <= tries
    BY <1>1, <1>4, <2>1 DEF OwnAnswers, OfHandshake
  <2>4. toClient[k + 1].seq_num \in Nat
    BY <2>1, QueueTypes, Numbers
  <2> QED BY <1>2, <2>2, <2>3, <2>4
<1> QED BY <1>3, <1>4

\* What the client takes is the head of its queue.
LEMMA ClientTakesHead ==
    ASSUME TypeOK, InOrder, NEW i \in 1..Len(toClient), ClientReceives(i)
    PROVE  i = 1 /\ Headless(toClient, toClient')
<1>1. toClient \in Seq(MessageType) /\ duplicates \in 0..MaxDuplicates
  BY DEF TypeOK, ChannelTypeOK
<1> QED BY <1>1, ArriveHead DEF ClientReceives

\* so does the client,
LEMMA ClientLate ==
    ASSUME TypeOK, InOrder, RunsInv, BeginInv, LateInv, ClientMoves
    PROVE  LateInv'
<1>1. CASE ClientStart
  <2>1. /\ run' = run + 1 /\ phase' = "begin" /\ waiting' = FALSE
        /\ UNCHANGED <<toServer, toClient>>
    BY <1>1 DEF ClientStart
  <2>2. ASSUME NEW i \in 1..Len(toServer) PROVE toServer[i].run # run + 1
    <3>1. toServer[i].run \in Nat /\ run \in Nat
      BY QueueTypes, Numbers
    <3>2. toServer[i].run <= run
      BY DEF RunsInv, RunsSorted
    <3> QED BY <3>1, <3>2
  <2>3. ASSUME NEW i \in 1..Len(toClient) PROVE toClient[i].run # run + 1
    <3>1. toClient[i].run \in Nat /\ run \in Nat
      BY QueueTypes, Numbers
    <3>2. toClient[i].run <= run
      BY DEF RunsInv
    <3> QED BY <3>1, <3>2
  <2> QED BY <2>1, <2>2, <2>3 DEF LateInv, OwnRequests, OwnAnswers, AnswersInOrder
<1>2. CASE SendControl
  <2> DEFINE m == controlMessage(tries + 1)
  <2>1. /\ InHandshake /\ tries' = tries + 1 /\ toServer' = Append(toServer, m)
        /\ UNCHANGED <<run, params, phase, burst_len, beginRun, toClient>>
    BY <1>2 DEF SendControl, InHandshake
  <2>2. /\ m.run = run /\ m.type = Asking /\ m.seq_num = tries + 1
        /\ m.burst_num = params.num_bursts /\ m.burst_len = AsUnsigned(burst_len)
    BY DEF controlMessage, Message, Asking
  <2> HIDE DEF m
  <2>3. tries \in Nat /\ toServer \in Seq(MessageType)
    BY QueueTypes
  <2>4. \A s \in MessageType : s.seq_num <= tries => s.seq_num <= tries + 1
    <3>1. \A s \in MessageType : s.seq_num \in Nat
      BY Numbers
    <3> QED BY <2>3, <3>1
  <2>5. ASSUME NotMisled PROVE OwnRequests(toServer)' /\ OwnAnswers(toClient)'
    <3>1. OwnRequests(toServer) /\ OwnAnswers(toClient)
      BY <2>5 DEF LateInv
    <3>2. OwnAnswers(toClient)'
      BY <2>1, <2>4, <3>1, QueueTypes DEF OwnAnswers, OfHandshake, InHandshake, Asking
    <3>3. \A j \in 1..Len(toServer') :
              toServer'[j] = m \/ \E k \in 1..Len(toServer) : toServer'[j] = toServer[k]
      BY <2>1, <2>3, AppendedOne
    <3>4. ASSUME NEW j \in 1..Len(toServer'), toServer'[j].run = run,
                 toServer'[j].type \in {"BEGIN", "COMPLETE"}
          PROVE  /\ toServer'[j].burst_num = params.num_bursts
                 /\ toServer'[j].burst_len = AsUnsigned(burst_len)
                 /\ toServer'[j].seq_num <= tries + 1
                 /\ toServer'[j].type = Asking
      <4>1. CASE toServer'[j] = m
        BY <2>2, <2>3, <4>1
      <4>2. ASSUME NEW k \in 1..Len(toServer), toServer'[j] = toServer[k]
            PROVE  /\ toServer'[j].burst_num = params.num_bursts
                   /\ toServer'[j].burst_len = AsUnsigned(burst_len)
                   /\ toServer'[j].seq_num <= tries + 1
                   /\ toServer'[j].type = Asking
        BY <2>4, <3>1, <3>4, <4>2, QueueTypes DEF OwnRequests, OfHandshake
      <4> QED BY <3>3, <4>1, <4>2
    <3> QED BY <2>1, <3>2, <3>4 DEF OwnRequests, OfHandshake, InHandshake, Asking
  <2> QED BY <2>1, <2>5 DEF LateInv, NotMisled, InHandshake, AnswersInOrder
<1>3. CASE ReceiveBeginAck
  <2>1. PICK i \in 1..Len(toClient) :
          /\ phase = "begin" /\ ClientReceives(i)
          /\ isResponsePair(controlMessage(tries), toClient[i])
          /\ phase' = "loop" /\ beginRun' = toClient[i].run
    BY <1>3 DEF ReceiveBeginAck
  <2>2. i = 1 /\ Headless(toClient, toClient')
    BY <2>1, ClientTakesHead
  <2>3. toClient[1].seq_num = tries
    BY <2>1, <2>2 DEF isResponsePair, controlMessage, Message
  <2>4. UNCHANGED <<run, toServer>> /\ waiting' = FALSE
    BY <2>1 DEF ClientReceives
  <2>5. CASE toClient[1].run = run
    <3>1. /\ \A j \in 1..Len(toServer) :
                toServer[j].run = run => toServer[j].type \notin {"BEGIN", "COMPLETE"}
          /\ \A k \in 1..Len(toClient') : toClient'[k].run # run
      BY <2>1, <2>2, <2>3, <2>5, AcceptedLast
    <3> QED BY <2>1, <2>4, <3>1 DEF LateInv, OwnRequests, OwnAnswers
  <2>6. CASE toClient[1].run # run
    BY <2>1, <2>2, <2>4, <2>6 DEF LateInv, NotMisled
  <2> QED BY <2>5, <2>6
<1>4. CASE StartBurst \/ EndBurst \/ EndBursts
  <2>1. /\ phase \in {"loop", "burst"} /\ phase' \in {"loop", "burst", "complete"}
        /\ UNCHANGED <<run, waiting, beginRun, toServer, toClient>>
    BY <1>4 DEF StartBurst, EndBurst, EndBursts, channelVars
  <2>2. NotMisled => /\ \A i \in 1..Len(toServer) : toServer[i].run = run
                              => toServer[i].type \notin {"BEGIN", "COMPLETE"}
                     /\ \A k \in 1..Len(toClient) : toClient[k].run # run
    BY <2>1 DEF LateInv, OwnRequests, OwnAnswers, OfHandshake, InHandshake
  <2>3. NotMisled' => NotMisled
    BY <2>1 DEF NotMisled
  <2> QED BY <2>1, <2>2, <2>3 DEF LateInv, OwnRequests, OwnAnswers, InHandshake
<1>5. CASE SendProbe
  <2> DEFINE m == Message("PROBE", run, burst_num, seq_num, AsUnsigned(burst_len))
  <2>1. /\ toServer' = Append(toServer, m) /\ m.type = "PROBE"
        /\ UNCHANGED <<run, params, phase, tries, waiting, burst_len, beginRun, toClient>>
    BY <1>5 DEF SendProbe, Message
  <2> HIDE DEF m
  <2>2. NotMisled => OwnRequests(toServer')
    BY <2>1, QueueTypes, JoinsRequests DEF LateInv
  <2> QED BY <2>1, <2>2
          DEF LateInv, NotMisled, InHandshake, OwnRequests, OwnAnswers, OfHandshake, Asking,
              AnswersInOrder
<1>6. CASE GiveUp \/ ClientSendFails \/ ReceiveCompleteAck \/ ReceiveUnexpected
  <2>1. phase' \in {"failed", "reported"}
    BY <1>6 DEF GiveUp, ClientSendFails, ReceiveCompleteAck, ReceiveUnexpected
  <2>2. waiting' = FALSE
    <3>1. CASE GiveUp
      BY <3>1 DEF GiveUp, TypeOK, ClientTypeOK
    <3>2. CASE ClientSendFails
      BY <3>2 DEF ClientSendFails, LateInv, InHandshake, TypeOK, ClientTypeOK
    <3>3. CASE ReceiveCompleteAck \/ ReceiveUnexpected
      BY <3>3 DEF ReceiveCompleteAck, ReceiveUnexpected, ClientReceives
    <3> QED BY <1>6, <3>1, <3>2, <3>3
  <2> QED BY <2>1, <2>2 DEF LateInv, NotMisled
<1>7. CASE ReceiveTimeout \/ Interrupt
  <2>1. /\ UNCHANGED <<run, params, phase, tries, burst_len, beginRun, toServer, toClient>>
        /\ waiting' => waiting
    BY <1>7 DEF ReceiveTimeout, Interrupt, channelVars
  <2> QED BY <2>1 DEF LateInv, NotMisled, InHandshake, OwnRequests, OwnAnswers, OfHandshake,
                      Asking, AnswersInOrder
<1>8. CASE ClientPortClosed
  <2>1. UNCHANGED clientVars /\ ~Alive
    BY <1>8 DEF ClientPortClosed
  <2> QED BY <2>1 DEF LateInv, NotMisled, InHandshake, Alive, clientVars
<1> QED BY <1>1, <1>2, <1>3, <1>4, <1>5, <1>6, <1>7, <1>8 DEF ClientMoves, ClientNext, ClientStep

\* and so do losses and the ERROR of a peer.
LEMMA OthersLate ==
    ASSUME TypeOK, InOrder, LateInv, NetworkMoves \/ PeerSendsError
    PROVE  LateInv'
<1>1. UNCHANGED <<run, params, phase, tries, waiting, burst_len, beginRun>>
  BY OthersDo DEF clientVars
<1>2. Message("ERROR", run, 0, 0, 0).type = "ERROR"
  BY DEF Message
<1>3. NotMisled => OwnRequests(toServer')
  BY <1>2, OthersDo, QueueTypes, HeadlessKeeps, JoinsRequests DEF LateInv
<1>4. (NotMisled => OwnAnswers(toClient')) /\ (phase = "begin" => AnswersInOrder(toClient'))
  BY OthersDo, HeadlessKeeps DEF LateInv
<1> QED BY <1>1, <1>3, <1>4
        DEF LateInv, NotMisled, InHandshake, OwnRequests, OwnAnswers, OfHandshake, Asking,
            AnswersInOrder

\* So an unexpected answer is of an earlier run or try, unless the run was
\* misled before.
LEMMA UnexpectedIsLate ==
    ASSUME TypeOK, InOrder, RunsInv, LateInv, ClientMoves, waiting, phase' = "failed"
    PROVE  LET m == Head(toClient)
           IN  \/ m.run < run
               \/ m.seq_num < tries
               \/ phase = "complete" /\ beginRun # run
<1>1. ReceiveUnexpected
  <2>1. InHandshake
    BY DEF LateInv
  <2>2. ~GiveUp /\ ~ClientSendFails
    BY <2>1 DEF GiveUp, ClientSendFails, InHandshake
  <2>3. ~(UNCHANGED phase)
    BY <2>1 DEF InHandshake
  <2> QED BY <2>2, <2>3
          DEF ClientMoves, ClientNext, ClientStep, ClientStart, SendControl, ReceiveTimeout,
              ReceiveBeginAck, ReceiveCompleteAck, StartBurst, SendProbe, EndBurst, EndBursts,
              Interrupt, ClientPortClosed, clientVars
<1>2. PICK i \in 1..Len(toClient) :
        /\ InHandshake /\ ClientReceives(i)
        /\ ~isResponsePair(controlMessage(tries), toClient[i])
  BY <1>1 DEF ReceiveUnexpected, InHandshake
<1>3. i = 1
  BY <1>2, ClientTakesHead
<1> DEFINE m == toClient[1]
<1>4. Head(toClient) = m
  BY <1>2, QueueTypes
<1>5. SUFFICES ASSUME ~(m.run < run), ~(m.seq_num < tries), NotMisled
               PROVE  FALSE
  BY <1>2, <1>4 DEF NotMisled, InHandshake
<1>6. m.run = run /\ m.seq_num \in Nat /\ tries \in Nat
  <2>1. m.run \in Nat /\ run \in Nat /\ m.seq_num \in Nat /\ tries \in Nat
    BY <1>2, <1>3, QueueTypes, Numbers
  <2>2. m.run <= run
    BY <1>2, <1>3 DEF RunsInv
  <2> QED BY <1>5, <2>1, <2>2
<1>7. OfHandshake(m) /\ m.type = AnswerTo(Asking)
  BY <1>2, <1>3, <1>5, <1>6 DEF LateInv, OwnAnswers
<1>8. m.seq_num = tries
  BY <1>5, <1>6, <1>7 DEF OfHandshake
<1>9. isResponsePair(controlMessage(tries), m)
  <2>1. /\ controlMessage(tries).type = Asking
        /\ controlMessage(tries).seq_num = tries
        /\ controlMessage(tries).burst_num = params.num_bursts
        /\ controlMessage(tries).burst_len = AsUnsigned(burst_len)
    BY DEF controlMessage, Message, Asking
  <2> QED BY <1>7, <1>8, <2>1 DEF isResponsePair, OfHandshake, AnswerTo, Asking
<1> QED BY <1>2, <1>3, <1>9

\* On a network that keeps the order and makes no duplicates, with a server
\* that is not started again, the client rejects nothing but late answers: of an
\* earlier run, of an earlier try, or, once another run's BEGIN_ACK was taken for
\* its own, whatever answers it in its second handshake.
THEOREM OnlyLateRejected ==
    ASSUME InOrder
    PROVE  Spec => RejectedIsLate
<1>1. Init => RunsInv /\ BeginInv /\ LateInv
  <2> SUFFICES ASSUME Init PROVE RunsInv /\ BeginInv /\ LateInv
    OBVIOUS
  <2>1. /\ phase = "idle" /\ toServer = <<>> /\ toClient = <<>> /\ sent = {}
        /\ waiting = FALSE
    BY DEF Init, ChannelInit, ClientInit
  <2> QED BY <2>1 DEF RunsInv, RunsSorted, BeginInv, LateInv, NotMisled
<1>2. TypeOK /\ RunsInv /\ BeginInv /\ LateInv /\ [Next]_vars
        => (RunsInv /\ BeginInv /\ LateInv)'
  <2> SUFFICES ASSUME TypeOK, RunsInv, BeginInv, LateInv, [Next]_vars
               PROVE  (RunsInv /\ BeginInv /\ LateInv)'
    OBVIOUS
  <2>1. CASE UNCHANGED vars
    <3>1. UNCHANGED <<toServer, toClient, lost, sent, testdata, bursts>>
          /\ UNCHANGED clientVars
      BY <2>1 DEF vars, channelVars, clientVars, serverVars
    <3>2. RunsInv' /\ BeginInv'
      BY <3>1 DEF clientVars, RunsInv, RunsSorted, BeginInv, BeginsInOrder, Acknowledged
    <3>3. LateInv'
      BY <3>1 DEF clientVars, LateInv, NotMisled, InHandshake, OwnRequests, OwnAnswers,
                  OfHandshake, Asking, AnswersInOrder
    <3> QED BY <3>2, <3>3
  <2>2. CASE ServerMoves
    BY <2>2, ServerRuns, ServerBegins, ServerLate
  <2>3. CASE ClientMoves
    BY <2>3, ClientRuns, ClientBegins, ClientLate
  <2>4. CASE NetworkMoves \/ PeerSendsError
    BY <2>4, OthersRuns, OthersBegin, OthersLate
  <2> QED BY <2>1, <2>2, <2>3, <2>4 DEF Next
<1>3. TypeOK /\ RunsInv /\ LateInv /\ [Next]_vars
        => [(waiting /\ phase' = "failed")
             => LET m == Head(toClient)
                IN  \/ m.run < run
                    \/ m.seq_num < tries
                    \/ phase = "complete" /\ beginRun # run]_vars
  <2> SUFFICES ASSUME TypeOK, RunsInv, LateInv, Next, waiting, phase' = "failed"
               PROVE  LET m == Head(toClient)
                      IN  \/ m.run < run
                          \/ m.seq_num < tries
                          \/ phase = "complete" /\ beginRun # run
    OBVIOUS
  <2>1. ClientMoves
    <3>1. phase # "failed"
      BY DEF LateInv, InHandshake
    <3> QED BY <3>1 DEF Next, ServerMoves, NetworkMoves, PeerSendsError, clientVars
  <2> QED BY <2>1, UnexpectedIsLate
<1> QED BY <1>1, <1>2, <1>3, TypeCorrect, PTL DEF Spec, RejectedIsLate

-----------------------------------------------------------------------------
(* Where answers come within the second, a run fails only over losses.     *)

\* Every answer comes within the second the client waits, and comes once.
\* Datagrams may still overtake each other and be lost.
InTime == Timely = TRUE /\ MaxDuplicates = 0

\* Nobody has touched the server or its port since it was started.
Undisturbed == srv = "running" /\ restarts = 0 /\ ~SendFailures

\* No control message is in q,
NoRequest(q) == \A i \in 1..Len(q) : q[i].type \notin RequestTypes

\* or c and no other.
OneRequest(q, c) ==
    \E i \in 1..Len(q) :
        q[i] = c /\ \A j \in 1..Len(q) : q[j].type \in RequestTypes => j = i

\* The types of the handshake the client is in, if it is in one.
CurrentHandshake == IF phase = "begin" THEN BeginHandshake ELSE CompleteHandshake

\* The network dropped the message of the n-th try of a handshake, or its answer.
TryDropped(handshake, n) == \E m \in DroppedIn(handshake) : m.seq_num = n

\* The message the client waits for an answer to is under way, or answered and
\* the answer is under way, or one of the two was dropped; and there is nothing else.
OneUnderWay(c) ==
    \/ OneRequest(toServer, c) /\ toClient = <<>>
    \/ NoRequest(toServer) /\ Len(toClient) = 1 /\ isResponsePair(c, toClient[1])
    \/ NoRequest(toServer) /\ toClient = <<>> /\ TryDropped(CurrentHandshake, tries)

\* Of every try before the one under way a datagram was dropped, and of all
\* of them when the run has failed.
TriesInv ==
    Undisturbed =>
        /\ waiting => /\ phase \in {"begin", "complete"}
                      /\ tries > 0
                      /\ OneUnderWay(controlMessage(tries))
        /\ ~waiting => NoRequest(toServer) /\ toClient = <<>>
        /\ phase \in {"begin", "complete"}
              => \A n \in 1..(IF waiting THEN tries - 1 ELSE tries) :
                     TryDropped(CurrentHandshake, n)
        /\ phase = "failed"
              => \E handshake \in {BeginHandshake, CompleteHandshake} :
                     \A n \in 1..MaxRetries : TryDropped(handshake, n)

\* A message that is no request joins a queue,
LEMMA OtherJoins ==
    ASSUME NEW q \in Seq(MessageType), NEW m, m.type \notin RequestTypes
    PROVE  /\ NoRequest(q) => NoRequest(Append(q, m))
           /\ \A c : OneRequest(q, c) => OneRequest(Append(q, m), c)
<1>1. /\ Len(q) \in Nat /\ Len(Append(q, m)) = Len(q) + 1
      /\ \A i \in 1..Len(q) : Append(q, m)[i] = q[i]
      /\ Append(q, m)[Len(q) + 1] = m
  BY AppendProperties
<1>2. \A k \in 1..(Len(q) + 1) : k \in 1..Len(q) \/ k = Len(q) + 1
  BY <1>1
<1>3. NoRequest(q) => NoRequest(Append(q, m))
  BY <1>1, <1>2 DEF NoRequest
<1>4. ASSUME NEW c, OneRequest(q, c) PROVE OneRequest(Append(q, m), c)
  <2>1. PICK i \in 1..Len(q) :
          q[i] = c /\ \A j \in 1..Len(q) : q[j].type \in RequestTypes => j = i
    BY <1>4 DEF OneRequest
  <2>2. i \in 1..Len(Append(q, m)) /\ Append(q, m)[i] = c
    BY <1>1, <2>1
  <2>3. \A j \in 1..Len(Append(q, m)) : Append(q, m)[j].type \in RequestTypes => j = i
    BY <1>1, <1>2, <2>1
  <2> QED BY <2>2, <2>3 DEF OneRequest
<1> QED BY <1>3, <1>4

\* and one that is.
LEMMA RequestJoins ==
    ASSUME NEW q \in Seq(MessageType), NEW c, NoRequest(q)
    PROVE  OneRequest(Append(q, c), c)
<1>1. /\ Len(q) \in Nat /\ Len(Append(q, c)) = Len(q) + 1
      /\ \A i \in 1..Len(q) : Append(q, c)[i] = q[i]
      /\ Append(q, c)[Len(q) + 1] = c
  BY AppendProperties
<1>2. \A k \in 1..(Len(q) + 1) : k \in 1..Len(q) \/ k = Len(q) + 1
  BY <1>1
<1>3. Len(q) + 1 \in 1..Len(Append(q, c))
  BY <1>1
<1>4. \A j \in 1..Len(Append(q, c)) : Append(q, c)[j].type \in RequestTypes => j = Len(q) + 1
  BY <1>1, <1>2 DEF NoRequest
<1> QED BY <1>1, <1>3, <1>4 DEF OneRequest

\* Something leaves a queue without a request,
LEMMA NoRequestLeaves ==
    ASSUME NEW q \in Seq(MessageType), NEW i \in 1..Len(q), NoRequest(q)
    PROVE  q[i].type \notin RequestTypes /\ NoRequest(Without(q, i))
BY WithoutOne DEF NoRequest

\* the request leaves, or something that is none.
LEMMA RequestLeaves ==
    ASSUME NEW q \in Seq(MessageType), NEW i \in 1..Len(q), NEW c, OneRequest(q, c)
    PROVE  /\ q[i].type \in RequestTypes => q[i] = c /\ NoRequest(Without(q, i))
           /\ (q[i].type \notin RequestTypes /\ c.type \in RequestTypes)
                 => OneRequest(Without(q, i), c)
<1>1. PICK k \in 1..Len(q) :
        q[k] = c /\ \A j \in 1..Len(q) : q[j].type \in RequestTypes => j = k
  BY DEF OneRequest
<1>2. Len(q) \in Nat /\ Len(Without(q, i)) = Len(q) - 1
  BY WithoutOne, LenProperties
<1>3. \A j \in 1..(Len(q) - 1) : Without(q, i)[j] = IF j < i THEN q[j] ELSE q[j + 1]
  BY DEF Without
<1>4. CASE q[i].type \in RequestTypes
  <2>1. i = k
    BY <1>1, <1>4
  <2>2. ASSUME NEW j \in 1..(Len(q) - 1) PROVE Without(q, i)[j].type \notin RequestTypes
    <3>1. CASE j < i
      <4>1. j \in 1..Len(q) /\ j # k
        BY <1>2, <2>1, <3>1
      <4> QED BY <1>1, <1>3, <3>1, <4>1
    <3>2. CASE ~(j < i)
      <4>1. j + 1 \in 1..Len(q) /\ j + 1 # k
        BY <1>2, <2>1, <3>2
      <4> QED BY <1>1, <1>3, <3>2, <4>1
    <3> QED BY <3>1, <3>2
  <2> QED BY <1>1, <1>2, <1>4, <2>1, <2>2 DEF NoRequest
<1>5. CASE q[i].type \notin RequestTypes /\ c.type \in RequestTypes
  <2> DEFINE l == IF k < i THEN k ELSE k - 1
  <2>1. i # k
    BY <1>1, <1>5
  <2>2. l \in 1..(Len(q) - 1) /\ Without(q, i)[l] = c
    <3>1. l \in 1..(Len(q) - 1) /\ (IF l < i THEN l ELSE l + 1) = k
      BY <1>2, <2>1
    <3> QED BY <1>1, <1>3, <3>1
  <2>3. ASSUME NEW j \in 1..(Len(q) - 1), Without(q, i)[j].type \in RequestTypes
        PROVE  j = l
    <3>1. CASE j < i
      <4>1. j \in 1..Len(q) /\ q[j].type \in RequestTypes
        BY <1>2, <1>3, <2>3, <3>1
      <4>2. j = k
        BY <1>1, <4>1
      <4> QED BY <3>1, <4>2
    <3>2. CASE ~(j < i)
      <4>1. j + 1 \in 1..Len(q) /\ q[j + 1].type \in RequestTypes
        BY <1>2, <1>3, <2>3, <3>2
      <4>2. j + 1 = k
        BY <1>1, <4>1
      <4> QED BY <3>2, <4>2
    <3> QED BY <3>1, <3>2
  <2> QED BY <1>2, <1>5, <2>2, <2>3 DEF OneRequest
<1> QED BY <1>4, <1>5

\* A server nobody has touched takes one datagram, and answers it if and only
\* if it is a control message.
LEMMA ServerTakesOne ==
    ASSUME TypeOK, InTime, ServerMoves, Undisturbed'
    PROVE  /\ Undisturbed
           /\ UNCHANGED <<clientVars, lost>>
           /\ \E i \in 1..Len(toServer) :
                 /\ toServer' = Without(toServer, i)
                 /\ \/ toServer[i].type \notin RequestTypes /\ UNCHANGED toClient
                    \/ /\ toServer[i].type \in RequestTypes
                       /\ \E a : toClient' = Append(toClient, a) /\ isResponsePair(toServer[i], a)
<1>1. ServerHandles /\ ~ServerCrash /\ ~ServerSendFails
  <2>1. ~ServerCrash /\ ~ServerSendFails /\ ~ServerStop /\ ~ServerPortClosed
    BY DEF Undisturbed, ServerCrash, ServerSendFails, ServerStop, ServerPortClosed, ProcessEnds,
           serverVars
  <2>2. ~ServerRestart
    BY Bounds DEF Undisturbed, ServerRestart, TypeOK, ServerTypeOK
  <2> QED BY <2>1, <2>2 DEF ServerMoves, ServerNext
<1>2. UNCHANGED clientVars
  BY DEF ServerMoves
<1>3. ASSUME NEW i \in 1..Len(toServer), Receives(i)
      PROVE  /\ toServer[i] \in MessageType
             /\ toServer' = Without(toServer, i)
             /\ srv = "running" /\ UNCHANGED <<lost, restarts>>
  <2>1. toServer[i] \in MessageType
    BY QueueTypes
  <2>2. ~(duplicates < MaxDuplicates)
    BY DEF InTime, TypeOK, ChannelTypeOK
  <2> QED BY <1>3, <2>1, <2>2 DEF Receives, Arrive
<1>4. ASSUME NEW m \in MessageType
      PROVE  /\ m.type = "BEGIN" => isResponsePair(m, [m EXCEPT !.type = "BEGIN_ACK"])
             /\ m.type = "COMPLETE"
                   => isResponsePair(m, [m EXCEPT !.type = "COMPLETE_ACK",
                                                  !.results = TestResults(bursts)])
  BY DEF MessageType, isResponsePair
<1>5. ASSUME NEW i \in 1..Len(toServer), Receives(i),
             \/ toServer[i].type \notin RequestTypes /\ UNCHANGED toClient
             \/ /\ toServer[i].type \in RequestTypes
                /\ \E a : toClient' = Append(toClient, a) /\ isResponsePair(toServer[i], a)
      PROVE  /\ Undisturbed /\ UNCHANGED lost
             /\ \E k \in 1..Len(toServer) :
                   /\ toServer' = Without(toServer, k)
                   /\ \/ toServer[k].type \notin RequestTypes /\ UNCHANGED toClient
                      \/ /\ toServer[k].type \in RequestTypes
                         /\ \E a : toClient' = Append(toClient, a) /\ isResponsePair(toServer[k], a)
  BY <1>3, <1>5 DEF Undisturbed
<1>6. CASE ServerBegin
  <2>1. PICK i \in 1..Len(toServer) :
          /\ toServer[i].type = "BEGIN" /\ Receives(i)
          /\ toClient' = Append(toClient, [toServer[i] EXCEPT !.type = "BEGIN_ACK"])
    BY <1>6 DEF ServerBegin, Reply
  <2>2. isResponsePair(toServer[i], [toServer[i] EXCEPT !.type = "BEGIN_ACK"])
    BY <1>3, <1>4, <2>1
  <2>3. toServer[i].type \in RequestTypes
    BY <2>1 DEF RequestTypes
  <2> QED BY <1>2, <1>5, <2>1, <2>2, <2>3
<1>7. CASE ServerComplete
  <2>1. PICK i \in 1..Len(toServer) :
          /\ toServer[i].type = "COMPLETE" /\ Receives(i)
          /\ toClient' = Append(toClient, [toServer[i] EXCEPT !.type = "COMPLETE_ACK",
                                                              !.results = TestResults(bursts)])
    BY <1>7 DEF ServerComplete, Reply
  <2>2. isResponsePair(toServer[i], [toServer[i] EXCEPT !.type = "COMPLETE_ACK",
                                                        !.results = TestResults(bursts)])
    BY <1>3, <1>4, <2>1
  <2>3. toServer[i].type \in RequestTypes
    BY <2>1 DEF RequestTypes
  <2> QED BY <1>2, <1>5, <2>1, <2>2, <2>3
<1>8. CASE ServerProbeDropped \/ ServerProbe \/ ServerError
  <2>1. PICK i \in 1..Len(toServer) :
          Receives(i) /\ toServer[i].type \in {"PROBE", "ERROR"} /\ UNCHANGED toClient
    BY <1>8 DEF ServerProbeDropped, ServerProbe, ServerError
  <2>2. toServer[i].type \notin RequestTypes
    BY <2>1 DEF RequestTypes
  <2> QED BY <1>2, <1>5, <2>1, <2>2
<1> QED BY <1>1, <1>6, <1>7, <1>8 DEF ServerHandles

\* The client's control message is a request of the handshake it is in.
LEMMA ControlIsRequest ==
    ASSUME TypeOK, phase \in {"begin", "complete"}, NEW n \in Nat
    PROVE  LET c == controlMessage(n)
           IN  /\ c.type \in RequestTypes /\ c.type \in CurrentHandshake /\ c.seq_num = n
               /\ \A a : isResponsePair(c, a) => a.type \in CurrentHandshake /\ a.seq_num = n
BY DEF controlMessage, Message, RequestTypes, CurrentHandshake, BeginHandshake,
       CompleteHandshake, isResponsePair

\* Taking the only element of a queue empties it.
LEMMA WithoutTheOnly ==
    ASSUME NEW q \in Seq(MessageType), Len(q) = 1, NEW i \in 1..Len(q)
    PROVE  i = 1 /\ Without(q, i) = <<>>
<1>1. Without(q, i) \in Seq(MessageType) /\ Len(Without(q, i)) = 0
  BY WithoutOne
<1> QED BY <1>1, EmptySeq

\* The server preserves TriesInv,
LEMMA ServerTries ==
    ASSUME TypeOK, InTime, TriesInv, ServerMoves
    PROVE  TriesInv'
<1> SUFFICES ASSUME Undisturbed' PROVE TriesInv'
  BY DEF TriesInv
<1>1. Undisturbed /\ UNCHANGED <<clientVars, lost>>
  BY ServerTakesOne
<1>2. PICK i \in 1..Len(toServer) :
        /\ toServer' = Without(toServer, i)
        /\ \/ toServer[i].type \notin RequestTypes /\ UNCHANGED toClient
           \/ /\ toServer[i].type \in RequestTypes
              /\ \E a : toClient' = Append(toClient, a) /\ isResponsePair(toServer[i], a)
  BY ServerTakesOne
<1>3. /\ UNCHANGED <<run, params, phase, tries, waiting, burst_len>>
      /\ \A n : controlMessage(n)' = controlMessage(n)
      /\ CurrentHandshake' = CurrentHandshake
      /\ \A handshake, n : TryDropped(handshake, n)' = TryDropped(handshake, n)
  BY <1>1 DEF clientVars, controlMessage, CurrentHandshake, TryDropped, DroppedIn
<1>4. toServer \in Seq(MessageType)
  BY QueueTypes
<1>5. ASSUME waiting PROVE OneUnderWay(controlMessage(tries))'
  <2> DEFINE c == controlMessage(tries)
  <2>1. OneUnderWay(c) /\ phase \in {"begin", "complete"} /\ tries \in Nat
    BY <1>1, <1>5, QueueTypes DEF TriesInv
  <2>2. c.type \in RequestTypes
    BY <2>1, ControlIsRequest
  <2> HIDE DEF c
  <2>3. ASSUME OneRequest(toServer, c), toClient = <<>>, toServer[i].type \in RequestTypes
        PROVE  NoRequest(toServer') /\ Len(toClient') = 1 /\ isResponsePair(c, toClient'[1])
    <3>1. toServer[i] = c /\ NoRequest(toServer')
      BY <1>2, <1>4, <2>3, RequestLeaves
    <3>2. PICK a : toClient' = Append(toClient, a) /\ isResponsePair(toServer[i], a)
      BY <1>2, <2>3
    <3>3. toClient' = <<a>>
      BY <2>3, <3>2
    <3> QED BY <3>1, <3>2, <3>3
  <2>4. ASSUME OneRequest(toServer, c), toClient = <<>>, toServer[i].type \notin RequestTypes
        PROVE  OneRequest(toServer', c) /\ toClient' = <<>>
    BY <1>2, <1>4, <2>2, <2>4, RequestLeaves
  <2>5. ASSUME NoRequest(toServer)
        PROVE  NoRequest(toServer') /\ UNCHANGED toClient
    BY <1>2, <1>4, <2>5, NoRequestLeaves
  <2>6. \/ OneRequest(toServer', c) /\ toClient' = <<>>
        \/ NoRequest(toServer') /\ Len(toClient') = 1 /\ isResponsePair(c, toClient'[1])
        \/ NoRequest(toServer') /\ toClient' = <<>> /\ TryDropped(CurrentHandshake, tries)
    BY <2>1, <2>3, <2>4, <2>5 DEF OneUnderWay
  <2> QED BY <1>3, <2>6 DEF OneUnderWay, OneRequest, NoRequest, c
<1>6. ASSUME ~waiting PROVE NoRequest(toServer') /\ toClient' = <<>>
  <2>1. NoRequest(toServer) /\ toClient = <<>>
    BY <1>1, <1>6 DEF TriesInv
  <2> QED BY <1>2, <1>4, <2>1, NoRequestLeaves
<1> QED BY <1>1, <1>3, <1>5, <1>6 DEF TriesInv, NoRequest

\* What was dropped stays dropped within a run.
LEMMA DroppedStays ==
    ASSUME NEW m, lost' = lost \cup {m}, UNCHANGED clientVars
    PROVE  /\ UNCHANGED <<phase, tries, waiting>>
           /\ controlMessage(tries)' = controlMessage(tries)
           /\ CurrentHandshake' = CurrentHandshake
           /\ \A handshake, n : TryDropped(handshake, n) => TryDropped(handshake, n)'
           /\ m.type \in CurrentHandshake /\ m.seq_num = tries
                 => TryDropped(CurrentHandshake, tries)'
<1>1. UNCHANGED <<phase, tries, waiting, run, params, burst_len>>
  BY DEF clientVars
<1>2. controlMessage(tries)' = controlMessage(tries) /\ CurrentHandshake' = CurrentHandshake
  BY <1>1 DEF controlMessage, CurrentHandshake
<1>3. \A handshake, n : TryDropped(handshake, n) => TryDropped(handshake, n)'
  BY DEF TryDropped, DroppedIn
<1>4. m.type \in CurrentHandshake /\ m.seq_num = tries => TryDropped(CurrentHandshake, tries)'
  BY <1>1, <1>2 DEF TryDropped, DroppedIn
<1> QED BY <1>1, <1>2, <1>3, <1>4

\* so do the losses: the message a client waits for is dropped, or its answer,
LEMMA LossTries ==
    ASSUME TypeOK, InTime, TriesInv, NetworkMoves
    PROVE  TriesInv'
<1> SUFFICES ASSUME Undisturbed' PROVE TriesInv'
  BY DEF TriesInv
<1>1. Undisturbed /\ UNCHANGED clientVars
  BY DEF NetworkMoves, serverVars, Undisturbed
<1> DEFINE c == controlMessage(tries)
<1>2. waiting => OneUnderWay(c) /\ phase \in {"begin", "complete"} /\ tries \in Nat
  BY <1>1, QueueTypes DEF TriesInv
<1>3. waiting => /\ c.type \in RequestTypes /\ c.type \in CurrentHandshake /\ c.seq_num = tries
                 /\ \A a : isResponsePair(c, a) => a.type \in CurrentHandshake /\ a.seq_num = tries
  BY <1>2, ControlIsRequest
<1> HIDE DEF c
<1>4. toServer \in Seq(MessageType) /\ toClient \in Seq(MessageType)
  BY QueueTypes
<1>5. CASE DropToServer
  <2>1. PICK i \in 1..Len(toServer) :
          /\ toServer' = Without(toServer, i) /\ lost' = lost \cup {toServer[i]}
          /\ UNCHANGED toClient
    BY <1>5 DEF DropToServer, Deliverable
  <2>2. /\ UNCHANGED <<phase, tries, waiting>>
        /\ c' = c
        /\ CurrentHandshake' = CurrentHandshake
        /\ \A handshake, n : TryDropped(handshake, n) => TryDropped(handshake, n)'
        /\ toServer[i].type \in CurrentHandshake /\ toServer[i].seq_num = tries
              => TryDropped(CurrentHandshake, tries)'
    BY <1>1, <2>1, DroppedStays DEF c
  <2>3. ASSUME waiting PROVE OneUnderWay(c)'
    <3>1. CASE OneRequest(toServer, c) /\ toClient = <<>>
      <4>1. CASE toServer[i].type \in RequestTypes
        <5>1. toServer[i] = c /\ NoRequest(toServer')
          BY <1>4, <2>1, <3>1, <4>1, RequestLeaves
        <5>2. TryDropped(CurrentHandshake, tries)'
          BY <1>3, <2>2, <2>3, <5>1
        <5> QED BY <2>1, <3>1, <5>1, <5>2 DEF OneUnderWay, NoRequest
      <4>2. CASE toServer[i].type \notin RequestTypes
        <5>1. OneRequest(toServer', c)
          BY <1>3, <1>4, <2>1, <2>3, <3>1, <4>2, RequestLeaves
        <5> QED BY <2>1, <2>2, <3>1, <5>1 DEF OneUnderWay, OneRequest
      <4> QED BY <4>1, <4>2
    <3>2. CASE NoRequest(toServer) /\ Len(toClient) = 1 /\ isResponsePair(c, toClient[1])
      BY <1>4, <2>1, <2>2, <3>2, NoRequestLeaves DEF OneUnderWay, NoRequest
    <3>3. CASE NoRequest(toServer) /\ toClient = <<>> /\ TryDropped(CurrentHandshake, tries)
      <4>1. NoRequest(toServer')
        BY <1>4, <2>1, <3>3, NoRequestLeaves
      <4>2. TryDropped(CurrentHandshake, tries)'
        BY <2>2, <3>3
      <4> QED BY <2>1, <3>3, <4>1, <4>2 DEF OneUnderWay, NoRequest
    <3> QED BY <1>2, <2>3, <3>1, <3>2, <3>3 DEF OneUnderWay
  <2>4. ASSUME ~waiting PROVE NoRequest(toServer') /\ toClient' = <<>>
    <3>1. NoRequest(toServer) /\ toClient = <<>>
      BY <1>1, <2>4 DEF TriesInv
    <3> QED BY <1>4, <2>1, <3>1, NoRequestLeaves
  <2> QED BY <1>1, <2>2, <2>3, <2>4 DEF TriesInv, NoRequest, c
<1>6. CASE DropToClient
  <2>1. PICK i \in 1..Len(toClient) :
          /\ toClient' = Without(toClient, i) /\ lost' = lost \cup {toClient[i]}
          /\ UNCHANGED toServer
    BY <1>6 DEF DropToClient, Deliverable
  <2>2. /\ UNCHANGED <<phase, tries, waiting>>
        /\ c' = c
        /\ CurrentHandshake' = CurrentHandshake
        /\ \A handshake, n : TryDropped(handshake, n) => TryDropped(handshake, n)'
        /\ toClient[i].type \in CurrentHandshake /\ toClient[i].seq_num = tries
              => TryDropped(CurrentHandshake, tries)'
    BY <1>1, <2>1, DroppedStays DEF c
  <2>3. toClient # <<>>
    BY <1>4
  <2>4. waiting
    BY <1>1, <2>3 DEF TriesInv
  <2>5. NoRequest(toServer) /\ Len(toClient) = 1 /\ isResponsePair(c, toClient[1])
    BY <1>2, <2>3, <2>4 DEF OneUnderWay
  <2>6. i = 1 /\ toClient' = <<>>
    BY <1>4, <2>1, <2>5, WithoutTheOnly
  <2>7. TryDropped(CurrentHandshake, tries)'
    BY <1>3, <2>2, <2>4, <2>5, <2>6
  <2>8. OneUnderWay(c)'
    BY <2>1, <2>5, <2>6, <2>7 DEF OneUnderWay, NoRequest
  <2> QED BY <1>1, <2>2, <2>4, <2>8 DEF TriesInv, c
<1> QED BY <1>5, <1>6 DEF NetworkMoves

\* the ERROR of a peer, which is no request and gets no answer,
LEMMA PeerTries ==
    ASSUME TypeOK, TriesInv, PeerSendsError
    PROVE  TriesInv'
<1> DEFINE e == Message("ERROR", run, 0, 0, 0)
<1>1. UNCHANGED <<clientVars, serverVars, toClient, lost>> /\ toServer' = Append(toServer, e)
  BY DEF PeerSendsError
<1>2. e.type \notin RequestTypes
  BY DEF Message, RequestTypes
<1> HIDE DEF e
<1>3. /\ NoRequest(toServer) => NoRequest(toServer')
      /\ \A c : OneRequest(toServer, c) => OneRequest(toServer', c)
  BY <1>1, <1>2, QueueTypes, OtherJoins
<1>4. /\ UNCHANGED <<phase, tries, waiting>>
      /\ controlMessage(tries)' = controlMessage(tries)
      /\ CurrentHandshake' = CurrentHandshake
      /\ Undisturbed' = Undisturbed
      /\ \A handshake, n : TryDropped(handshake, n)' = TryDropped(handshake, n)
  BY <1>1 DEF clientVars, serverVars, controlMessage, CurrentHandshake, TryDropped, DroppedIn,
              Undisturbed
<1>5. ASSUME OneUnderWay(controlMessage(tries)) PROVE OneUnderWay(controlMessage(tries))'
  <2> DEFINE c == controlMessage(tries)
  <2>1. \/ OneRequest(toServer', c) /\ toClient = <<>>
        \/ NoRequest(toServer') /\ Len(toClient) = 1 /\ isResponsePair(c, toClient[1])
        \/ NoRequest(toServer') /\ toClient = <<>> /\ TryDropped(CurrentHandshake, tries)
    BY <1>3, <1>5 DEF OneUnderWay
  <2>2. TryDropped(CurrentHandshake, tries)' = TryDropped(CurrentHandshake, tries) /\ c' = c
    BY <1>4
  <2> HIDE DEF c
  <2> QED BY <1>1, <2>1, <2>2 DEF OneUnderWay, OneRequest, NoRequest, c
<1> QED BY <1>1, <1>3, <1>4, <1>5 DEF TriesInv, NoRequest

\* and the client: it waits until an answer comes or nothing is under way.
LEMMA ClientTries ==
    ASSUME TypeOK, InTime, TriesInv, ClientMoves
    PROVE  TriesInv'
<1> SUFFICES ASSUME Undisturbed' PROVE TriesInv'
  BY DEF TriesInv
<1>1. Undisturbed /\ UNCHANGED serverVars
  BY DEF ClientMoves, serverVars, Undisturbed
<1>2. /\ waiting => phase \in {"begin", "complete"} /\ OneUnderWay(controlMessage(tries))
      /\ ~waiting => NoRequest(toServer) /\ toClient = <<>>
      /\ phase \in {"begin", "complete"}
            => \A n \in 1..(IF waiting THEN tries - 1 ELSE tries) : TryDropped(CurrentHandshake, n)
  BY <1>1 DEF TriesInv
<1>3. tries \in 0..MaxRetries /\ MaxRetries \in Nat /\ waiting \in BOOLEAN /\ tries \in Nat
  BY Bounds DEF TypeOK, ClientTypeOK
<1>4. toServer \in Seq(MessageType) /\ toClient \in Seq(MessageType)
  BY QueueTypes
<1>5. CASE ClientStart
  <2>1. ~waiting /\ phase' = "begin" /\ tries' = 0 /\ waiting' = FALSE
        /\ UNCHANGED <<toServer, toClient>>
    BY <1>2, <1>5 DEF ClientStart, Alive
  <2> QED BY <1>2, <2>1 DEF TriesInv, NoRequest
<1>6. CASE SendControl
  <2> DEFINE c == controlMessage(tries + 1)
  <2>1. /\ phase \in {"begin", "complete"} /\ ~waiting /\ waiting' = TRUE /\ tries' = tries + 1
        /\ toServer' = Append(toServer, c)
        /\ UNCHANGED <<run, params, phase, burst_len, toClient, lost>>
    BY <1>6 DEF SendControl
  <2>2. controlMessage(tries)' = c /\ CurrentHandshake' = CurrentHandshake
    BY <2>1 DEF controlMessage, CurrentHandshake
  <2> HIDE DEF c
  <2>3. OneRequest(toServer', c) /\ toClient' = <<>>
    BY <1>2, <1>4, <2>1, RequestJoins
  <2>4. OneUnderWay(controlMessage(tries))'
    BY <2>2, <2>3 DEF OneUnderWay, OneRequest
  <2>5. \A n \in 1..(tries' - 1) : TryDropped(CurrentHandshake, n)'
    BY <1>2, <1>3, <2>1, <2>2 DEF TryDropped, DroppedIn
  <2> QED BY <1>3, <2>1, <2>4, <2>5 DEF TriesInv
<1>7. CASE ReceiveTimeout
  <2>1. /\ waiting /\ waiting' = FALSE /\ toServer = <<>> /\ toClient = <<>>
        /\ UNCHANGED <<phase, tries, toServer, toClient, lost>>
    BY <1>7 DEF ReceiveTimeout, channelVars, InTime
  <2>2. TryDropped(CurrentHandshake, tries)
    BY <1>2, <2>1 DEF OneUnderWay, OneRequest
  <2>3. \A n \in 1..tries : TryDropped(CurrentHandshake, n)'
    <3>1. \A n \in 1..tries : n \in 1..(tries - 1) \/ n = tries
      BY <1>3
    <3> QED BY <1>2, <2>1, <2>2, <3>1 DEF TryDropped, DroppedIn, CurrentHandshake
  <2> QED BY <1>2, <2>1, <2>3 DEF TriesInv, NoRequest
<1>8. CASE GiveUp
  <2>1. /\ phase \in {"begin", "complete"} /\ ~waiting /\ phase' = "failed" /\ tries = MaxRetries
        /\ UNCHANGED <<waiting, toServer, toClient, lost>>
    BY <1>3, <1>8 DEF GiveUp, MayTry, channelVars
  <2>2. CurrentHandshake \in {BeginHandshake, CompleteHandshake}
    BY DEF CurrentHandshake
  <2>3. \A n \in 1..MaxRetries : TryDropped(CurrentHandshake, n)
    BY <1>2, <2>1
  <2>4. \E handshake \in {BeginHandshake, CompleteHandshake} :
            \A n \in 1..MaxRetries : TryDropped(handshake, n)'
    BY <2>1, <2>2, <2>3 DEF TryDropped, DroppedIn
  <2> QED BY <1>2, <2>1, <2>4 DEF TriesInv, NoRequest
<1>9. ASSUME NEW i \in 1..Len(toClient), ClientReceives(i)
      PROVE  /\ NoRequest(toServer) /\ toClient' = <<>> /\ waiting' = FALSE
             /\ UNCHANGED toServer
             /\ isResponsePair(controlMessage(tries), toClient[i])
  <2>1. waiting /\ Arrive(toClient, i, toClient') /\ waiting' = FALSE /\ UNCHANGED toServer
    BY <1>9 DEF ClientReceives
  <2>2. toClient' = Without(toClient, i)
    BY <2>1 DEF Arrive, InTime, TypeOK, ChannelTypeOK
  <2>3. toClient # <<>>
    BY <1>4
  <2>4. NoRequest(toServer) /\ Len(toClient) = 1
        /\ isResponsePair(controlMessage(tries), toClient[1])
    BY <1>2, <2>1, <2>3 DEF OneUnderWay
  <2> QED BY <1>4, <2>1, <2>2, <2>4, WithoutTheOnly
<1>10. CASE ReceiveBeginAck \/ ReceiveCompleteAck
  <2>1. PICK i \in 1..Len(toClient) : ClientReceives(i) /\ phase' \in {"loop", "reported"}
    BY <1>10 DEF ReceiveBeginAck, ReceiveCompleteAck
  <2> QED BY <1>9, <2>1 DEF TriesInv, NoRequest
<1>11. ~ReceiveUnexpected
  BY <1>9 DEF ReceiveUnexpected
<1>12. ~ClientSendFails
  BY <1>1 DEF ClientSendFails, Undisturbed
<1>13. CASE StartBurst \/ EndBurst
  <2>1. /\ phase \in {"loop", "burst"} /\ phase' \in {"loop", "burst"}
        /\ UNCHANGED <<waiting, toServer, toClient>>
    BY <1>13 DEF StartBurst, EndBurst, channelVars
  <2> QED BY <1>2, <2>1 DEF TriesInv, NoRequest
<1>14. CASE EndBursts
  <2>1. /\ phase = "loop" /\ phase' = "complete" /\ tries' = 0
        /\ UNCHANGED <<waiting, toServer, toClient>>
    BY <1>14 DEF EndBursts, channelVars
  <2> QED BY <1>2, <2>1 DEF TriesInv, NoRequest
<1>15. CASE SendProbe
  <2> DEFINE m == Message("PROBE", run, burst_num, seq_num, AsUnsigned(burst_len))
  <2>1. phase = "burst" /\ toServer' = Append(toServer, m) /\ UNCHANGED <<phase, waiting, toClient>>
    BY <1>15 DEF SendProbe
  <2>2. m.type \notin RequestTypes
    BY DEF Message, RequestTypes
  <2> HIDE DEF m
  <2>3. NoRequest(toServer')
    BY <1>2, <1>4, <2>1, <2>2, OtherJoins
  <2> QED BY <1>2, <2>1, <2>3 DEF TriesInv, NoRequest
<1>16. CASE Interrupt
  <2>1. UNCHANGED <<run, params, phase, tries, waiting, burst_len, toServer, toClient, lost>>
    BY <1>16 DEF Interrupt, channelVars
  <2> QED BY <1>1, <2>1 DEF TriesInv, NoRequest, OneRequest, OneUnderWay, controlMessage,
                            CurrentHandshake, TryDropped, DroppedIn, Undisturbed
<1>17. ~ClientPortClosed
  <2>1. Alive => ~ClientPortClosed
    BY DEF ClientPortClosed
  <2>2. ~Alive => toClient = <<>>
    BY <1>2 DEF Alive
  <2> QED BY <2>1, <2>2 DEF ClientPortClosed, Deliverable
<1> QED BY <1>5, <1>6, <1>7, <1>8, <1>10, <1>11, <1>12, <1>13, <1>14, <1>15, <1>16, <1>17
        DEF ClientMoves, ClientNext, ClientStep

\* One dropped datagram per try makes as many datagrams as tries: each try has
\* its own number.
LEMMA DroppedAreMany ==
    ASSUME IsFiniteSet(lost), NEW handshake, NEW N \in Nat,
           \A n \in 1..N : TryDropped(handshake, n)
    PROVE  Cardinality(DroppedIn(handshake)) >= N
<1> DEFINE dropped == DroppedIn(handshake)
           f       == [n \in 1..N |-> CHOOSE m \in dropped : m.seq_num = n]
<1>1. IsFiniteSet(dropped)
  <2>1. dropped \in SUBSET lost
    BY DEF DroppedIn
  <2> QED BY <2>1, FS_Subset
<1>2. \A n \in 1..N : f[n] \in dropped /\ f[n].seq_num = n
  BY DEF TryDropped
<1> HIDE DEF f, dropped
<1>3. f \in Injection(1..N, dropped)
  <2>1. f \in [1..N -> dropped]
    BY <1>2 DEF f
  <2> QED BY <1>2, <2>1 DEF Injection, IsInjective
<1>4. Cardinality(1..N) <= Cardinality(dropped)
  BY <1>1, <1>3, FS_Injection
<1>5. Cardinality(1..N) = N
  BY FS_Interval
<1>6. Cardinality(dropped) \in Nat
  BY <1>1, FS_CardinalityType
<1> QED BY <1>4, <1>5, <1>6 DEF dropped

\* Only finitely many datagrams are lost.
LEMMA LostIsFinite ==
    /\ Init => IsFiniteSet(lost)
    /\ IsFiniteSet(lost) /\ [Next]_vars => IsFiniteSet(lost)'
<1>1. Init => IsFiniteSet(lost)
  BY FS_EmptySet DEF Init, ChannelInit
<1>2. ASSUME IsFiniteSet(lost), [Next]_vars PROVE IsFiniteSet(lost')
  <2>1. lost' = lost \/ lost' = {} \/ \E m : lost' = lost \cup {m}
    <3>1. CASE UNCHANGED vars
      BY <3>1 DEF vars, channelVars
    <3>2. CASE ClientMoves
      BY <3>2 DEF ClientMoves, ClientNext, ClientStep, SendControl, ReceiveTimeout, GiveUp,
         ClientSendFails, ReceiveBeginAck, ReceiveCompleteAck, ReceiveUnexpected, ClientReceives,
         StartBurst, SendProbe, EndBurst, EndBursts, ClientStart, Interrupt, ClientPortClosed,
         channelVars
    <3>3. CASE ServerMoves
      BY <3>3 DEF ServerMoves, ServerNext, ServerHandles, ServerBegin, ServerProbeDropped,
         ServerProbe, ServerComplete, ServerError, ServerCrash, ServerSendFails, Receives,
         ServerStop, ServerRestart, ServerPortClosed, channelVars
    <3>4. CASE NetworkMoves \/ PeerSendsError
      BY <3>4 DEF NetworkMoves, DropToServer, DropToClient, PeerSendsError
    <3> QED BY <1>2, <3>1, <3>2, <3>3, <3>4 DEF Next
  <2>2. ASSUME NEW m PROVE IsFiniteSet(lost \cup {m})
    BY <1>2, FS_AddElement
  <2>3. IsFiniteSet({})
    BY FS_EmptySet
  <2> QED BY <1>2, <2>1, <2>2, <2>3
<1> QED BY <1>1, <1>2

\* Where every answer comes within the second and comes once, a run fails over
\* nothing but losses: against a server that stays up, with sends that work,
\* the network dropped a datagram of every one of the tries of one handshake.
\* This holds for any number of runs and tries, in whatever order the
\* datagrams arrive, and although the client takes any other answer than the
\* one it waits for as an error: no such answer can come.
THEOREM FailureIsLosses ==
    ASSUME InTime
    PROVE  Spec => []FailureNeedsLosses
<1>1. Init => TriesInv
  BY DEF Init, ChannelInit, ClientInit, TriesInv, NoRequest
<1>2. TypeOK /\ TriesInv /\ [Next]_vars => TriesInv'
  <2> SUFFICES ASSUME TypeOK, TriesInv, [Next]_vars PROVE TriesInv'
    OBVIOUS
  <2>1. CASE UNCHANGED vars
    <3>1. UNCHANGED <<toServer, toClient, lost, run, params, phase, tries, waiting, burst_len,
                      srv, restarts>>
      BY <2>1 DEF vars, channelVars, clientVars, serverVars
    <3>2. /\ controlMessage(tries)' = controlMessage(tries)
          /\ CurrentHandshake' = CurrentHandshake
          /\ Undisturbed' = Undisturbed
      BY <3>1 DEF controlMessage, CurrentHandshake, Undisturbed
    <3>3. OneUnderWay(controlMessage(tries)) => OneUnderWay(controlMessage(tries))'
      BY <3>1, <3>2 DEF OneUnderWay, OneRequest, NoRequest, TryDropped, DroppedIn
    <3> QED BY <3>1, <3>2, <3>3 DEF TriesInv, NoRequest, TryDropped, DroppedIn
  <2> QED BY <2>1, ServerTries, ClientTries, LossTries, PeerTries DEF Next
<1>3. TriesInv /\ IsFiniteSet(lost) => FailureNeedsLosses
  <2> SUFFICES ASSUME TriesInv, IsFiniteSet(lost), phase = "failed", srv = "running",
                      restarts = 0, ~SendFailures
               PROVE  \E handshake \in {BeginHandshake, CompleteHandshake} :
                          Cardinality(DroppedIn(handshake)) >= MaxRetries
    BY DEF FailureNeedsLosses
  <2>1. PICK handshake \in {BeginHandshake, CompleteHandshake} :
          \A n \in 1..MaxRetries : TryDropped(handshake, n)
    BY DEF TriesInv, Undisturbed
  <2>2. Cardinality(DroppedIn(handshake)) >= MaxRetries
    BY <2>1, Bounds, DroppedAreMany
  <2> QED BY <2>2
<1> QED BY <1>1, <1>2, <1>3, LostIsFinite, TypeCorrect, PTL DEF Spec
=============================================================================
