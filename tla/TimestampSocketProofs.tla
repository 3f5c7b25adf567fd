----------------------- MODULE TimestampSocketProofs -----------------------
(***************************************************************************)
(* Proofs about TimestampSocket: timestamps and messages stay in step, and *)
(* what it takes for an answer to make send() fail.                        *)
(***************************************************************************)
EXTENDS TimestampSocket, SequenceTheorems, TLAPS

-----------------------------------------------------------------------------
(* Timestamps.                                                             *)

\* Between two sends nothing is on its way to the error queue or on it, and
\* within one at most the timestamp of its own message is.
OwnInv ==
    /\ sent \in Nat
    /\ StampIsOwn
    /\ pc \in {"select", "recvmsg"}
          => \/ pending = {sent} /\ stamps = <<>>
             \/ pending = {} /\ stamps = <<sent>>
             \/ pending = {} /\ stamps = <<>>

\* Queueing the one timestamp, and taking it.
LEMMA OneStamp ==
    ASSUME NEW m
    PROVE  /\ Append(<<>>, m) = <<m>>
           /\ Head(<<m>>) = m
           /\ Tail(<<m>>) = <<>>
           /\ <<m>> # <<>>
OBVIOUS

\* OwnInv is kept by the steps of send(),
LEMMA SendingOwn ==
    OwnInv /\ (SendMessage \/ SendFails \/ SelectReturns \/ RecvmsgReturns \/ RecvmsgFails)
        => OwnInv'
<1> SUFFICES ASSUME OwnInv,
                    SendMessage \/ SendFails \/ SelectReturns \/ RecvmsgReturns \/ RecvmsgFails
             PROVE  OwnInv'
  OBVIOUS
<1>1. CASE SendMessage
  <2>1. pending = {} /\ stamps = <<>> /\ sent \in Nat
    BY <1>1 DEF SendMessage, OwnInv, StampIsOwn
  <2>2. stamps' = <<>> /\ sent' = sent + 1 /\ pc' = "select"
    BY <1>1, <2>1 DEF SendMessage
  <2>3. pending' = {} \/ pending' = {sent'}
    BY <1>1, <2>1 DEF SendMessage
  <2> QED BY <2>1, <2>2, <2>3 DEF OwnInv, StampIsOwn
<1>2. CASE SendFails \/ RecvmsgFails
  BY <1>2 DEF SendFails, RecvmsgFails, Throw, OwnInv, StampIsOwn
<1>3. CASE SelectReturns
  BY <1>3 DEF SelectReturns, stampVars, history, OwnInv, StampIsOwn
<1>4. CASE RecvmsgReturns
  <2>1. pending = {} /\ stamps = <<sent>>
    BY <1>4 DEF RecvmsgReturns, OwnInv
  <2>2. taken' = sent' /\ pending' = {} /\ stamps' = <<>> /\ sent' \in Nat
    BY <1>4, <2>1, OneStamp DEF RecvmsgReturns, OwnInv
  <2>3. pc' \in {"receive", "send", "loop"}
    BY <1>4 DEF RecvmsgReturns, SendReturns
  <2> QED BY <2>2, <2>3 DEF OwnInv, StampIsOwn
<1> QED BY <1>1, <1>2, <1>3, <1>4

\* by those of the rest of main,
LEMMA MainOwn ==
    OwnInv /\ (ReceiveExpected \/ ReceiveUnexpected \/ ReceiveTimeout \/ StartBurst \/ EndBursts)
        => OwnInv'
<1> SUFFICES ASSUME OwnInv,
                    ReceiveExpected \/ ReceiveUnexpected \/ ReceiveTimeout \/ StartBurst
                       \/ EndBursts
             PROVE  OwnInv'
  OBVIOUS
<1>1. pc \in {"receive", "loop"} /\ pc' \notin {"select", "recvmsg"}
  BY DEF ReceiveExpected, ReceiveUnexpected, ReceiveTimeout, StartBurst, EndBursts, Throw
<1>2. UNCHANGED <<sent, taken, pending, stamps>>
  BY DEF ReceiveExpected, ReceiveUnexpected, ReceiveTimeout, StartBurst, EndBursts,
         stampVars, history
<1> QED BY <1>1, <1>2 DEF OwnInv, StampIsOwn

\* and by those of the environment.
LEMMA EnvironmentOwn ==
    OwnInv /\ (Interrupt \/ StampArrives \/ AnswerArrives) => OwnInv'
<1> SUFFICES ASSUME OwnInv, Interrupt \/ StampArrives \/ AnswerArrives PROVE OwnInv'
  OBVIOUS
<1>1. CASE Interrupt \/ AnswerArrives
  BY <1>1 DEF Interrupt, AnswerArrives, clientVars, stampVars, history, OwnInv, StampIsOwn
<1>2. CASE StampArrives
  <2>1. PICK m \in pending : stamps' = Append(stamps, m) /\ pending' = pending \ {m}
    BY <1>2 DEF StampArrives
  <2>2. UNCHANGED <<pc, sent, taken>>
    BY <1>2 DEF StampArrives, clientVars, history
  <2>3. CASE pc \in {"select", "recvmsg"}
    <3>1. pending = {sent} /\ stamps = <<>>
      BY <2>1, <2>3 DEF OwnInv
    <3>2. pending' = {} /\ stamps' = <<sent>>
      BY <2>1, <3>1, OneStamp
    <3> QED BY <2>2, <2>3, <3>2 DEF OwnInv, StampIsOwn
  <2>4. CASE pc \notin {"select", "recvmsg"}
    BY <2>1, <2>2, <2>4 DEF OwnInv, StampIsOwn
  <2> QED BY <2>3, <2>4
<1> QED BY <1>1, <1>2

\* The timestamp a send() takes is that of its message and none is left
\* behind, for any number of bursts, tries and signals, and however the
\* answers come in between.
THEOREM StampsInStep == Spec => []StampIsOwn
<1>1. Init => OwnInv
  BY DEF Init, OwnInv, StampIsOwn
<1>2. OwnInv /\ [Next]_vars => OwnInv'
  <2>1. OwnInv /\ UNCHANGED vars => OwnInv'
    BY DEF vars, clientVars, stampVars, history, OwnInv, StampIsOwn
  <2> QED BY <2>1, SendingOwn, MainOwn, EnvironmentOwn DEF Next, Client
<1>3. OwnInv => StampIsOwn
  BY DEF OwnInv
<1> QED BY <1>1, <1>2, <1>3, PTL DEF Spec

-----------------------------------------------------------------------------
(* Answers.                                                                *)

\* As long as BEGIN was sent once there is one answer to it at most: none
\* before it is sent, and none any more once it was accepted.
OneAnswer ==
    try = 1
        => /\ phase = "begin" => \/ answers = {} /\ Len(datagrams) <= 1
                                 \/ datagrams = <<>> /\ \E a \in Answer : answers = {a}
           /\ (phase = "begin" /\ pc = "send") => answers = {} /\ datagrams = <<>>
           /\ phase = "burst" => answers = {} /\ datagrams = <<>>

\* Something woke up select(), and what it was is there until it is looked at.
Woken ==
    /\ pc = "recvmsg" => stamps # <<>> \/ datagrams # <<>>
    /\ reason = "recvmsg" => pc = "thrown" /\ datagrams # <<>>

Queues ==
    /\ try \in 1..MaxRetries
    /\ phase \in {"begin", "burst", "complete"}
    /\ pc = "loop" => phase = "burst"
    /\ answers \subseteq Answer
    /\ datagrams \in Seq(Answer)
    /\ sent \in Nat /\ pending \subseteq Nat /\ stamps \in Seq(Nat)

OvertakenInv == Queues /\ OneAnswer /\ Woken

\* What queueing and taking do to an emptiness and a length.
LEMMA QueueFacts ==
    ASSUME NEW S, NEW q \in Seq(S), NEW e \in S
    PROVE  /\ Append(q, e) \in Seq(S) /\ Append(q, e) # <<>>
           /\ q = <<>> => Len(Append(q, e)) <= 1
           /\ q # <<>> => Head(q) \in S /\ Tail(q) \in Seq(S)
           /\ q # <<>> /\ Len(q) <= 1 => Tail(q) = <<>>
           /\ Len(q) = 0 <=> q = <<>>
OBVIOUS

\* The first try is a try.
LEMMA FirstTry == 1 \in 1..MaxRetries /\ MaxRetries \in Nat
BY StampAssumption

\* OvertakenInv is kept by the steps of send(),
LEMMA SendingOvertaken ==
    OvertakenInv /\ (SendMessage \/ SendFails \/ SelectReturns \/ RecvmsgReturns \/ RecvmsgFails)
        => OvertakenInv'
<1> SUFFICES ASSUME OvertakenInv,
                    SendMessage \/ SendFails \/ SelectReturns \/ RecvmsgReturns \/ RecvmsgFails
             PROVE  OvertakenInv'
  OBVIOUS
<1> USE DEF OvertakenInv
<1>1. CASE SendMessage
  <2> DEFINE a == [phase |-> phase, try |-> try]
  <2>1. /\ pc = "send" /\ pc' = "select" /\ sent' = sent + 1
        /\ answers' = answers \/ (phase # "burst" /\ answers' = answers \cup {a})
        /\ UNCHANGED <<try, phase, datagrams, stamps, reason>>
        /\ pending' \subseteq pending \cup {sent + 1}
    BY <1>1 DEF SendMessage
  <2>2. phase # "burst" => a \in Answer
    BY DEF Queues, Answer
  <2>3. Queues'
    BY <2>1, <2>2 DEF Queues
  <2>4. OneAnswer'
    <3>1. CASE try = 1 /\ phase = "begin"
      <4>1. answers = {} /\ datagrams = <<>>
        BY <2>1, <3>1 DEF OneAnswer
      <4>2. answers' = {} \/ answers' = {a}
        BY <2>1, <4>1
      <4>3. Len(<<>>) <= 1
        OBVIOUS
      <4> QED BY <2>1, <2>2, <3>1, <4>1, <4>2, <4>3 DEF OneAnswer
    <3>2. CASE ~(try = 1 /\ phase = "begin")
      BY <2>1, <3>2 DEF OneAnswer
    <3> QED BY <3>1, <3>2
  <2> QED BY <2>1, <2>3, <2>4 DEF Woken
<1>2. CASE SendFails
  BY <1>2 DEF SendFails, Throw, stampVars, answerVars, Queues, OneAnswer, Woken
<1>3. CASE SelectReturns
  BY <1>3 DEF SelectReturns, Readable, stampVars, answerVars, history, Queues, OneAnswer, Woken
<1>4. CASE RecvmsgReturns
  <2>1. /\ UNCHANGED <<try, phase, answers, datagrams, sent, pending, reason>>
        /\ stamps # <<>> /\ stamps' = Tail(stamps) /\ pc = "recvmsg"
    BY <1>4 DEF RecvmsgReturns, answerVars
  <2>2. pc' \in {"receive", "send", "loop"} /\ (pc' \in {"send", "loop"} => phase = "burst")
    BY <1>4 DEF RecvmsgReturns, SendReturns
  <2>3. Queues'
    BY <2>1, <2>2, QueueFacts DEF Queues
  <2> QED BY <2>1, <2>2, <2>3 DEF OneAnswer, Woken
<1>5. CASE RecvmsgFails
  BY <1>5 DEF RecvmsgFails, Throw, stampVars, answerVars, Queues, OneAnswer, Woken
<1> QED BY <1>1, <1>2, <1>3, <1>4, <1>5

\* by those of the rest of main,
LEMMA MainOvertaken ==
    OvertakenInv
       /\ (ReceiveExpected \/ ReceiveUnexpected \/ ReceiveTimeout \/ StartBurst \/ EndBursts)
        => OvertakenInv'
<1> SUFFICES ASSUME OvertakenInv,
                    ReceiveExpected \/ ReceiveUnexpected \/ ReceiveTimeout \/ StartBurst
                       \/ EndBursts
             PROVE  OvertakenInv'
  OBVIOUS
<1> USE DEF OvertakenInv
<1>1. CASE ReceiveExpected \/ ReceiveUnexpected
  <2>1. /\ pc = "receive" /\ datagrams # <<>> /\ datagrams' = Tail(datagrams)
        /\ UNCHANGED <<try, answers, sent, pending, stamps>>
        /\ pc' \in {"loop", "ended", "thrown"} /\ reason' \in {reason, "unexpected"}
        /\ phase' = phase \/ (phase = "begin" /\ phase' = "burst")
        /\ pc' = "loop" => phase' = "burst"
    BY <1>1 DEF ReceiveExpected, ReceiveUnexpected, Throw, stampVars, history
  <2>2. Queues'
    BY <2>1, QueueFacts DEF Queues
  <2>3. Woken'
    BY <2>1 DEF Woken
  <2>4. try = 1 /\ phase = "begin" => answers' = {} /\ datagrams' = <<>>
    BY <2>1, QueueFacts DEF Queues, OneAnswer
  <2>5. try = 1 => phase # "burst"
    BY <2>1 DEF OneAnswer
  <2>6. Len(<<>>) <= 1
    OBVIOUS
  <2> QED BY <2>1, <2>2, <2>3, <2>4, <2>5, <2>6 DEF OneAnswer
<1>2. CASE ReceiveTimeout
  <2>1. /\ pc = "receive" /\ pc' \in {"send", "thrown"} /\ reason' \in {reason, "response"}
        /\ UNCHANGED <<phase, answers, datagrams, sent, pending, stamps>>
        /\ \/ try' = try + 1 /\ try < MaxRetries
           \/ try' = try /\ pc' = "thrown"
    BY <1>2 DEF ReceiveTimeout, MayRetry, Throw, stampVars, answerVars
  <2>2. Queues'
    BY <2>1, FirstTry DEF Queues
  <2>3. Woken'
    BY <2>1 DEF Woken
  <2>4. try' = try \/ try' # 1
    BY <2>1, FirstTry DEF Queues
  <2> QED BY <2>1, <2>2, <2>3, <2>4 DEF OneAnswer
<1>3. CASE StartBurst
  <2>1. /\ pc = "loop" /\ pc' = "send"
        /\ UNCHANGED <<try, phase, answers, datagrams, sent, pending, stamps, reason>>
    BY <1>3 DEF StartBurst, stampVars, answerVars, history
  <2> QED BY <2>1 DEF Queues, OneAnswer, Woken
<1>4. CASE EndBursts
  BY <1>4, FirstTry DEF EndBursts, stampVars, answerVars, history, Queues, OneAnswer, Woken
<1> QED BY <1>1, <1>2, <1>3, <1>4

\* and by those of the environment.
LEMMA EnvironmentOvertaken ==
    OvertakenInv /\ (Interrupt \/ StampArrives \/ AnswerArrives) => OvertakenInv'
<1> SUFFICES ASSUME OvertakenInv, Interrupt \/ StampArrives \/ AnswerArrives
             PROVE  OvertakenInv'
  OBVIOUS
<1> USE DEF OvertakenInv
<1>1. CASE Interrupt
  BY <1>1 DEF Interrupt, stampVars, answerVars, history, Queues, OneAnswer, Woken
<1>2. CASE StampArrives
  <2>1. PICK m \in pending : /\ stamps' = Append(stamps, m) /\ pending' = pending \ {m}
                             /\ UNCHANGED <<clientVars, answerVars, history>>
    BY <1>2 DEF StampArrives
  <2>2. stamps' \in Seq(Nat) /\ stamps' # <<>>
    BY <2>1, QueueFacts DEF Queues
  <2> QED
    BY <2>1, <2>2 DEF clientVars, answerVars, history, Queues, OneAnswer, Woken
<1>3. CASE AnswerArrives
  <2>1. PICK a \in answers : /\ datagrams' = Append(datagrams, a) /\ answers' = answers \ {a}
                             /\ UNCHANGED <<clientVars, stampVars, history>>
    BY <1>3 DEF AnswerArrives
  <2>2. a \in Answer /\ datagrams' \in Seq(Answer) /\ datagrams' # <<>>
    BY <2>1, QueueFacts DEF Queues
  <2>3. Queues' /\ Woken'
    BY <2>1, <2>2 DEF clientVars, stampVars, history, Queues, Woken
  <2>4. ASSUME try = 1, phase = "begin" PROVE answers' = {} /\ Len(datagrams') <= 1
    <3>1. datagrams = <<>> /\ answers = {a}
      BY <2>1, <2>4 DEF OneAnswer
    <3> QED BY <2>1, <2>2, <3>1, QueueFacts DEF Queues
  <2>5. try = 1 => phase # "burst" /\ ~(phase = "begin" /\ pc = "send")
    BY <2>1 DEF OneAnswer
  <2>6. UNCHANGED <<try, phase, pc>>
    BY <2>1 DEF clientVars
  <2> QED BY <2>3, <2>4, <2>5, <2>6 DEF OneAnswer
<1> QED BY <1>1, <1>2, <1>3

\* send() fails only over an answer that overtook the timestamp, and within
\* the bursts only over one to an earlier BEGIN, for any number of tries and
\* bursts.
THEOREM OvertakenHolds == Spec => []OvertakenExplained
<1>1. Init => OvertakenInv
  <2>1. <<>> \in Seq(Answer) /\ <<>> \in Seq(Nat) /\ Len(<<>>) <= 1
    OBVIOUS
  <2> QED BY <2>1, FirstTry DEF Init, OvertakenInv, Queues, OneAnswer, Woken
<1>2. OvertakenInv /\ [Next]_vars => OvertakenInv'
  <2>1. OvertakenInv /\ UNCHANGED vars => OvertakenInv'
    BY DEF vars, clientVars, stampVars, answerVars, history, OvertakenInv, Queues, OneAnswer,
           Woken
  <2> QED BY <2>1, SendingOvertaken, MainOvertaken, EnvironmentOvertaken DEF Next, Client
<1>3. OvertakenInv => OvertakenExplained
  BY FirstTry DEF OvertakenInv, Queues, OneAnswer, Woken, OvertakenExplained
<1> QED BY <1>1, <1>2, <1>3, PTL DEF Spec

-----------------------------------------------------------------------------
(* Types.                                                                  *)

\* A burst has a probe left to send until the last one was sent.
TypeInv ==
    /\ TypeOK
    /\ (phase = "burst" /\ pc \in {"send", "select", "recvmsg"})
          => seq_num < BurstLen /\ burst_num < NumBursts
    /\ pc = "loop" => phase = "burst"
    /\ pc = "receive" => phase # "burst"

\* Stamps of messages sent are also stamps of those sent up to the next one.
LEMMA StampsGrow ==
    ASSUME sent \in Nat, stamps \in Seq(1..sent)
    PROVE  stamps \in Seq(1..(sent + 1))
<1>1. \A i \in 1..Len(stamps) : stamps[i] \in 1..(sent + 1)
  OBVIOUS
<1> QED BY <1>1

\* The steps of send() preserve the types,
LEMMA SendingTyped ==
    TypeInv /\ (SendMessage \/ SendFails \/ SelectReturns \/ RecvmsgReturns \/ RecvmsgFails)
        => TypeInv'
<1> SUFFICES ASSUME TypeInv,
                    SendMessage \/ SendFails \/ SelectReturns \/ RecvmsgReturns \/ RecvmsgFails
             PROVE  TypeInv'
  OBVIOUS
<1> USE DEF TypeInv, TypeOK, Calls, Ends
<1>1. CASE SendMessage
  <2> DEFINE a == [phase |-> phase, try |-> try]
  <2>1. /\ pc = "send" /\ pc' = "select" /\ sent' = sent + 1
        /\ answers' = answers \/ (phase # "burst" /\ answers' = answers \cup {a})
        /\ UNCHANGED <<stamping, phase, try, burst_num, seq_num, stopping, stamps, datagrams,
                       taken, reason>>
        /\ pending' \subseteq pending \cup {sent + 1}
    BY <1>1 DEF SendMessage
  <2>2. answers' \subseteq Answer
    BY <2>1 DEF Answer
  <2>3. sent' \in Nat /\ pending' \subseteq 1..sent' /\ taken' \in 0..sent'
    BY <2>1
  <2>4. stamps' \in Seq(1..sent')
    BY <2>1, StampsGrow
  <2> QED BY <2>1, <2>2, <2>3, <2>4
<1>2. CASE SendFails \/ RecvmsgFails
  BY <1>2 DEF SendFails, RecvmsgFails, Throw, stampVars, answerVars
<1>3. CASE SelectReturns
  BY <1>3 DEF SelectReturns, stampVars, answerVars, history
<1>4. CASE RecvmsgReturns
  <2>1. /\ pc = "recvmsg" /\ stamps # <<>> /\ taken' = Head(stamps) /\ stamps' = Tail(stamps)
        /\ UNCHANGED <<stamping, phase, try, stopping, pending, answers, datagrams, sent,
                       reason>>
    BY <1>4 DEF RecvmsgReturns, answerVars
  <2>2. /\ taken' \in 0..sent' /\ stamps' \in Seq(1..sent') /\ pending' \subseteq 1..sent'
        /\ sent' \in Nat
    <3>1. sent' = sent /\ sent \in Nat /\ pending' = pending
      BY <2>1
    <3>2. taken' \in 1..sent /\ stamps' \in Seq(1..sent)
      BY <2>1, HeadTailProperties
    <3> QED BY <3>1, <3>2
  <2>3. CASE phase # "burst"
    BY <1>4, <2>1, <2>2, <2>3 DEF RecvmsgReturns, SendReturns
  <2>4. CASE phase = "burst"
    <3>1. /\ seq_num' = seq_num + 1 /\ seq_num < BurstLen /\ burst_num < NumBursts
          /\ \/ seq_num + 1 < BurstLen /\ pc' = "send" /\ burst_num' = burst_num
             \/ pc' = "loop" /\ burst_num' = burst_num + 1
      BY <1>4, <2>1, <2>4 DEF RecvmsgReturns, SendReturns
    <3>2. BurstLen \in Nat /\ NumBursts \in Nat
      BY StampAssumption
    <3>3. seq_num' \in 0..BurstLen /\ burst_num' \in 0..NumBursts
      BY <3>1, <3>2
    <3>4. pc' \in Calls \cup Ends
      BY <3>1
    <3>5. TypeOK'
      BY <2>1, <2>2, <3>3, <3>4 DEF Answer
    <3>6. phase' = "burst" /\ (pc' = "loop" \/ (pc' = "send" /\ seq_num' < BurstLen
                                                        /\ burst_num' < NumBursts))
      BY <2>1, <2>4, <3>1
    <3> HIDE DEF TypeOK
    <3> QED BY <3>5, <3>6
  <2> QED BY <2>3, <2>4
<1> QED BY <1>1, <1>2, <1>3, <1>4

\* those of the rest of main,
LEMMA MainTyped ==
    TypeInv /\ (ReceiveExpected \/ ReceiveUnexpected \/ ReceiveTimeout \/ StartBurst \/ EndBursts)
        => TypeInv'
<1> SUFFICES ASSUME TypeInv,
                    ReceiveExpected \/ ReceiveUnexpected \/ ReceiveTimeout \/ StartBurst
                       \/ EndBursts
             PROVE  TypeInv'
  OBVIOUS
<1> USE DEF TypeInv, TypeOK, Calls, Ends
<1>1. BurstLen \in Nat \ {0} /\ NumBursts \in Nat \ {0} /\ MaxRetries \in Nat \ {0}
  BY StampAssumption
<1>2. CASE ReceiveExpected
  <2>1. datagrams' \in Seq(Answer)
    BY <1>2, HeadTailProperties DEF ReceiveExpected
  <2> QED BY <1>2, <2>1 DEF ReceiveExpected, stampVars, history
<1>3. CASE ReceiveUnexpected
  <2>1. datagrams' \in Seq(Answer)
    BY <1>3, HeadTailProperties DEF ReceiveUnexpected
  <2> QED BY <1>3, <2>1 DEF ReceiveUnexpected, Throw, stampVars, history
<1>4. CASE ReceiveTimeout
  <2>1. try' \in 1..MaxRetries
    BY <1>1, <1>4 DEF ReceiveTimeout, MayRetry
  <2> QED BY <1>4, <2>1 DEF ReceiveTimeout, Throw, stampVars, answerVars
<1>5. CASE StartBurst
  BY <1>1, <1>5 DEF StartBurst, stampVars, answerVars, history
<1>6. CASE EndBursts
  BY <1>1, <1>6 DEF EndBursts, stampVars, answerVars, history
<1> QED BY <1>2, <1>3, <1>4, <1>5, <1>6

\* and those of the environment.
LEMMA EnvironmentTyped ==
    TypeInv /\ (Interrupt \/ StampArrives \/ AnswerArrives) => TypeInv'
<1> SUFFICES ASSUME TypeInv, Interrupt \/ StampArrives \/ AnswerArrives PROVE TypeInv'
  OBVIOUS
<1> USE DEF TypeInv, TypeOK, Calls, Ends
<1>1. CASE Interrupt
  BY <1>1 DEF Interrupt, stampVars, answerVars, history
<1>2. CASE StampArrives
  <2>1. PICK m \in pending : stamps' = Append(stamps, m) /\ pending' = pending \ {m}
    BY <1>2 DEF StampArrives
  <2>2. stamps' \in Seq(1..sent) /\ pending' \subseteq 1..sent
    BY <2>1, AppendProperties
  <2> QED BY <1>2, <2>2 DEF StampArrives, clientVars, answerVars, history
<1>3. CASE AnswerArrives
  <2>1. PICK a \in answers : datagrams' = Append(datagrams, a) /\ answers' = answers \ {a}
    BY <1>3 DEF AnswerArrives
  <2>2. datagrams' \in Seq(Answer) /\ answers' \subseteq Answer
    BY <2>1, AppendProperties
  <2> QED BY <1>3, <2>2 DEF AnswerArrives, clientVars, stampVars, history
<1> QED BY <1>1, <1>2, <1>3

\* The state of the client, its socket and the answers has its types: no
\* burst is left before its last probe and none is sent beyond it.
THEOREM SocketTyped == Spec => []TypeOK
<1>1. Init => TypeInv
  <2> SUFFICES ASSUME Init PROVE TypeInv
    OBVIOUS
  <2>1. /\ phase = "begin" /\ pc = "send" /\ try = 1 /\ burst_num = 0 /\ seq_num = 0
        /\ pending = {} /\ stamps = <<>> /\ answers = {} /\ datagrams = <<>>
        /\ sent = 0 /\ taken = 0 /\ reason = "none"
    BY DEF Init
  <2>2. stamping \in BOOLEAN /\ stopping \in BOOLEAN
    BY Zenon DEF Init
  <2>3. try \in 1..MaxRetries /\ burst_num \in 0..NumBursts /\ seq_num \in 0..BurstLen
    BY <2>1, StampAssumption
  <2>4. stamps \in Seq(1..sent) /\ datagrams \in Seq(Answer)
    BY <2>1
  <2>5. sent \in Nat /\ pending \subseteq 1..sent /\ answers \subseteq Answer /\ taken \in 0..sent
    BY <2>1
  <2> QED BY <2>1, <2>2, <2>3, <2>4, <2>5 DEF TypeInv, TypeOK, Calls, Ends
<1>2. TypeInv /\ [Next]_vars => TypeInv'
  <2>1. TypeInv /\ UNCHANGED vars => TypeInv'
    BY DEF vars, clientVars, stampVars, answerVars, history, TypeInv, TypeOK
  <2> QED BY <2>1, SendingTyped, MainTyped, EnvironmentTyped DEF Next, Client
<1>3. TypeInv => TypeOK
  BY DEF TypeInv
<1> QED BY <1>1, <1>2, <1>3, PTL DEF Spec
=============================================================================
