------------------------ MODULE BurstRecorderProofs ------------------------
(***************************************************************************)
(* Proofs about BurstRecorder: messages are filed under their numbers, and *)
(* what it takes for a write to leave a vector; for clients with any       *)
(* bursts, on any network.                                                 *)
(***************************************************************************)
EXTENDS BurstRecorder, SequenceTheorems, FiniteSetTheorems, WellFoundedInduction, TLAPS

-----------------------------------------------------------------------------
(* Vectors.                                                                *)

\* All vectors of elements.
VectorsOf(Element) ==
    UNION {[size : {n}, data : [0..(n - 1) -> Element \cup {NULL}]] : n \in Nat}

\* What a member of VectorsOf is.
LEMMA VectorShape ==
    ASSUME NEW Element, NEW v
    PROVE  v \in VectorsOf(Element)
              <=> /\ v = [size |-> v.size, data |-> v.data]
                  /\ v.size \in Nat
                  /\ v.data \in [0..(v.size - 1) -> Element \cup {NULL}]
<1>1. ASSUME v \in VectorsOf(Element)
      PROVE  /\ v = [size |-> v.size, data |-> v.data]
             /\ v.size \in Nat
             /\ v.data \in [0..(v.size - 1) -> Element \cup {NULL}]
  <2>1. PICK n \in Nat : v \in [size : {n}, data : [0..(n - 1) -> Element \cup {NULL}]]
    BY <1>1 DEF VectorsOf
  <2> QED BY <2>1
<1>2. ASSUME /\ v = [size |-> v.size, data |-> v.data]
             /\ v.size \in Nat
             /\ v.data \in [0..(v.size - 1) -> Element \cup {NULL}]
      PROVE  v \in VectorsOf(Element)
  <2> DEFINE V(n) == [size : {n}, data : [0..(n - 1) -> Element \cup {NULL}]]
  <2>1. v \in V(v.size)
    BY <1>2
  <2> QED BY <1>2, <2>1 DEF VectorsOf
<1> QED BY <1>1, <1>2

\* A vector of some elements is one of more.
LEMMA VectorMore ==
    ASSUME NEW E, NEW F, E \subseteq F, NEW v \in VectorsOf(E)
    PROVE  v \in VectorsOf(F)
<1>1. v.data \in [0..(v.size - 1) -> F \cup {NULL}]
  BY VectorShape
<1> QED BY <1>1, VectorShape

\* In particular a vector of the first numbers is one of more of them.
LEMMA VectorOneMore ==
    ASSUME NEW n \in Nat, NEW v \in VectorsOf(1..n)
    PROVE  v \in VectorsOf(1..(n + 1))
<1> DEFINE E == 1..n
           F == 1..(n + 1)
<1>1. E \subseteq F /\ v \in VectorsOf(E)
  OBVIOUS
<1> HIDE DEF E, F
<1>2. v \in VectorsOf(F)
  BY <1>1, VectorMore
<1> QED BY <1>2 DEF F

\* A slot that holds something is read as what it holds.
LEMMA VectorGet ==
    ASSUME NEW E, NEW v \in VectorsOf(E), NEW i \in Nat
    PROVE  /\ vector_get(v, i) # NULL <=> i \in Occupied(v)
           /\ i \in Occupied(v) => vector_get(v, i) = v.data[i] /\ v.data[i] \in E
           /\ vector_get(v, i) \in E \cup {NULL}
           /\ Occupied(v) \subseteq 0..(v.size - 1)
<1>1. v.size \in Nat /\ v.data \in [0..(v.size - 1) -> E \cup {NULL}]
  BY VectorShape
<1> QED BY <1>1 DEF vector_get, Occupied

\* A new vector is empty.
LEMMA VectorInit ==
    ASSUME NEW E, NEW n \in Nat
    PROVE  /\ vector_init(n) \in VectorsOf(E)
           /\ Occupied(vector_init(n)) = {}
           /\ vector_init(n).size = n
BY VectorShape DEF vector_init, Occupied

\* A vector freed is one of any elements.
LEMMA VectorNone ==
    ASSUME NEW E, NEW v
    PROVE  /\ vector_resize(v, 0) \in VectorsOf(E)
           /\ vector_resize(v, 0).size = 0
           /\ Occupied(vector_resize(v, 0)) = {}
<1> DEFINE f == [i \in 0..(0 - 1) |-> vector_get(v, i)]
<1>1. f \in [0..(0 - 1) -> E \cup {NULL}]
  BY 0..(0 - 1) = {}
<1>2. vector_resize(v, 0) = [size |-> 0, data |-> f]
  BY DEF vector_resize
<1> DEFINE w == [size |-> 0, data |-> f]
<1> HIDE DEF f
<1>3. w.size = 0 /\ w.data = f /\ w = [size |-> w.size, data |-> w.data]
  OBVIOUS
<1>4. w.size \in Nat /\ w.data \in [0..(w.size - 1) -> E \cup {NULL}]
  BY <1>1, <1>3
<1>5. Occupied(w) = {}
  BY <1>3 DEF Occupied
<1> HIDE DEF w
<1>6. w \in VectorsOf(E)
  BY <1>3, <1>4, VectorShape
<1> QED BY <1>2, <1>3, <1>5, <1>6 DEF w

\* Resizing to at least the size keeps everything.
LEMMA VectorResize ==
    ASSUME NEW E, NEW v \in VectorsOf(E), NEW n \in Nat
    PROVE  /\ vector_resize(v, n) \in VectorsOf(E)
           /\ vector_resize(v, n).size = n
           /\ n >= v.size =>
                 /\ Occupied(vector_resize(v, n)) = Occupied(v)
                 /\ \A i \in Occupied(v) : vector_resize(v, n).data[i] = v.data[i]
<1> DEFINE r == vector_resize(v, n)
<1>1. v.size \in Nat /\ v.data \in [0..(v.size - 1) -> E \cup {NULL}]
  BY VectorShape
<1>2. r = [size |-> n, data |-> [i \in 0..(n - 1) |-> vector_get(v, i)]]
  BY DEF vector_resize
<1>3. r.data \in [0..(n - 1) -> E \cup {NULL}]
  BY <1>2, VectorGet
<1>4. r \in VectorsOf(E) /\ r.size = n
  BY <1>2, <1>3, VectorShape
<1>5. ASSUME n >= v.size
      PROVE  /\ Occupied(r) = Occupied(v)
             /\ \A i \in Occupied(v) : r.data[i] = v.data[i]
  <2>1. \A i \in 0..(v.size - 1) : r.data[i] = v.data[i]
    BY <1>1, <1>2, <1>5 DEF vector_get
  <2>2. \A i \in 0..(n - 1) : i >= v.size => r.data[i] = NULL
    BY <1>1, <1>2, <1>5 DEF vector_get
  <2>3. Occupied(v) \subseteq 0..(v.size - 1)
    BY DEF Occupied
  <2>4. DOMAIN r.data = 0..(n - 1) /\ r.size = n
    BY <1>2
  <2> HIDE DEF r
  <2>5. \A i \in 0..(n - 1) : i \in 0..(v.size - 1) \/ i >= v.size
    BY <1>1
  <2>6. 0..(v.size - 1) \subseteq 0..(n - 1)
    BY <1>1, <1>5
  <2>7. Occupied(r) = Occupied(v)
    BY <2>1, <2>2, <2>4, <2>5, <2>6 DEF Occupied
  <2> QED BY <2>1, <2>3, <2>7
<1> QED BY <1>4, <1>5

\* Making room keeps everything; the size is never one.
LEMMA VectorRoom ==
    ASSUME NEW E, NEW v \in VectorsOf(E), NEW index \in Nat
    PROVE  /\ Room(v, index) \in VectorsOf(E)
           /\ Room(v, index).size >= v.size
           /\ v.size # 1 => Room(v, index).size # 1
           /\ index >= v.size => Room(v, index).size = IF v.size = 0 THEN 2 ELSE 2 * v.size
           /\ Occupied(Room(v, index)) = Occupied(v)
           /\ \A i \in Occupied(v) : Room(v, index).data[i] = v.data[i]
<1>1. v.size \in Nat
  BY VectorShape
<1>2. CASE index < v.size
  BY <1>1, <1>2 DEF Room
<1>3. CASE index >= v.size
  <2> DEFINE n == 2 * (IF v.size = 0 THEN 1 ELSE v.size)
  <2>1. n \in Nat /\ n >= v.size /\ n # 1 /\ n = IF v.size = 0 THEN 2 ELSE 2 * v.size
    BY <1>1
  <2>2. Room(v, index) = vector_resize(v, n)
    BY <1>1, <1>3 DEF Room
  <2> HIDE DEF n
  <2> DEFINE r == vector_resize(v, n)
  <2>3. /\ r \in VectorsOf(E) /\ r.size = n
        /\ Occupied(r) = Occupied(v) /\ \A i \in Occupied(v) : r.data[i] = v.data[i]
    <3>1. /\ r \in VectorsOf(E) /\ r.size = n
          /\ n >= v.size => /\ Occupied(r) = Occupied(v)
                            /\ \A i \in Occupied(v) : r.data[i] = v.data[i]
      BY <2>1, VectorResize
    <3> HIDE DEF r
    <3> QED BY <2>1, <3>1
  <2> HIDE DEF r
  <2>4. Room(v, index) = r
    BY <2>2 DEF r
  <2> QED BY <1>1, <1>3, <2>1, <2>3, <2>4
<1>4. index < v.size \/ index >= v.size
  BY <1>1
<1> QED BY <1>2, <1>3, <1>4

\* A write within the bounds fills the one slot.
LEMMA VectorSet ==
    ASSUME NEW E, NULL \notin E, NEW v \in VectorsOf(E), NEW index \in Nat, NEW value \in E
    PROVE  /\ vector_set(v, index, value) \in VectorsOf(E)
           /\ vector_set(v, index, value).size >= v.size
           /\ v.size # 1 => vector_set(v, index, value).size # 1
           /\ ~OutOfBounds(v, index) =>
                 /\ Occupied(vector_set(v, index, value)) = Occupied(v) \cup {index}
                 /\ vector_set(v, index, value).data[index] = value
                 /\ \A i \in Occupied(v) \ {index} :
                       vector_set(v, index, value).data[i] = v.data[i]
<1> DEFINE r == Room(v, index)
           w == vector_set(v, index, value)
<1>1. /\ r \in VectorsOf(E) /\ r.size >= v.size /\ (v.size # 1 => r.size # 1)
      /\ Occupied(r) = Occupied(v) /\ \A i \in Occupied(v) : r.data[i] = v.data[i]
      /\ v.size \in Nat
  BY VectorRoom, VectorShape
<1>2. /\ r.size \in Nat /\ r.data \in [0..(r.size - 1) -> E \cup {NULL}]
      /\ r = [size |-> r.size, data |-> r.data]
  BY <1>1, VectorShape
<1> HIDE DEF r
<1>3. CASE OutOfBounds(v, index)
  BY <1>1, <1>3 DEF vector_set, r
<1>4. CASE ~OutOfBounds(v, index)
  <2>1. index \in 0..(r.size - 1)
    BY <1>2, <1>4 DEF OutOfBounds, r
  <2>2. w = [r EXCEPT !.data[index] = value]
    BY <1>4 DEF vector_set, r
  <2>3. w = [size |-> r.size, data |-> [r.data EXCEPT ![index] = value]]
    BY <1>2, <2>2
  <2>4. w.data \in [0..(r.size - 1) -> E \cup {NULL}]
    BY <1>2, <2>1, <2>3
  <2>5. w \in VectorsOf(E)
    BY <1>2, <2>3, <2>4, VectorShape
  <2>6. Occupied(w) = Occupied(r) \cup {index}
    BY <1>2, <2>1, <2>3 DEF Occupied
  <2>7. w.data[index] = value /\ \A i \in Occupied(r) \ {index} : w.data[i] = r.data[i]
    BY <1>2, <2>1, <2>3 DEF Occupied
  <2> QED BY <1>1, <2>3, <2>5, <2>6, <2>7
<1> QED BY <1>3, <1>4

\* Nor does a write make the size one.
LEMMA VectorSetSize ==
    ASSUME NEW E, NULL \notin E, NEW v \in VectorsOf(E), NEW index \in Nat, NEW value \in E,
           v.size # 1
    PROVE  vector_set(v, index, value).size # 1
BY VectorSet

\* A write within the bounds, for one who knows it is.
LEMMA VectorSetWithin ==
    ASSUME NEW E, NULL \notin E, NEW v \in VectorsOf(E), NEW index \in Nat, NEW value \in E,
           ~OutOfBounds(v, index)
    PROVE  /\ vector_set(v, index, value).size >= v.size
           /\ vector_set(v, index, value).size \in Nat /\ v.size \in Nat
           /\ Occupied(vector_set(v, index, value)) = Occupied(v) \cup {index}
           /\ vector_set(v, index, value).data[index] = value
           /\ \A i \in Occupied(v) \ {index} :
                 vector_set(v, index, value).data[i] = v.data[i]
<1> DEFINE w == vector_set(v, index, value)
<1>1. w \in VectorsOf(E)
  BY VectorSet
<1>2. w.size \in Nat /\ v.size \in Nat
  BY <1>1, VectorShape
<1> QED BY <1>2, VectorSet

-----------------------------------------------------------------------------
(* What the clients send.                                                  *)

\* The probes the server got or may still get.
AllProbes == {wire[i] : i \in 1..Len(wire)} \cup received

\* Probes carry the numbers of their burst, and those of one burst of one
\* client agree about its length.
ProbesAgree ==
    /\ \A m \in AllProbes : m \in ProbeType /\ m.seq_num < m.burst_len /\ m.run <= run
    /\ \A m, q \in AllProbes :
          (m.run = q.run /\ m.burst_num = q.burst_num) => m.burst_len = q.burst_len
    /\ \A m \in AllProbes : m.run = run =>
          /\ sender = "loop" => m.burst_num < send_burst
          /\ sender = "burst" => /\ m.burst_num <= send_burst
                                 /\ m.burst_num = send_burst => m.burst_len = burst_len

\* The client's state, and what it sent.
SenderInv ==
    /\ run \in 0..MaxRuns
    /\ sender \in {"loop", "burst", "ended"}
    /\ params \in Params \cup {NoParams}
    /\ send_burst \in 0..params.num_bursts
    /\ sender = "burst" => send_burst < params.num_bursts
    /\ burst_len \in Nat
    /\ seq_num \in 0..burst_len
    /\ stopping \in BOOLEAN
    /\ wire \in Seq(ProbeType)
    /\ duplicates \in 0..MaxDuplicates
    /\ ProbesAgree

\* Removing an element of a sequence leaves others of it.
LEMMA RemoveAtRange ==
    ASSUME NEW S, NEW s \in Seq(S), NEW i \in 1..Len(s)
    PROVE  /\ RemoveAt(s, i) \in Seq(S)
           /\ \A k \in 1..Len(RemoveAt(s, i)) :
                 \E j \in 1..Len(s) : RemoveAt(s, i)[k] = s[j]
<1> DEFINE f == SubSeq(s, 1, i - 1)
           l == SubSeq(s, i + 1, Len(s))
<1>1. /\ f \in Seq(S) /\ Len(f) = i - 1
      /\ \A k \in 1..(i - 1) : f[k] = s[k]
  BY SubSeqProperties
<1>2. /\ l \in Seq(S) /\ Len(l) = Len(s) - i
      /\ \A k \in 1..(Len(s) - i) : l[k] = s[i + k]
  <2>1. CASE i = Len(s)
    BY <2>1, SubSeqProperties
  <2>2. CASE i < Len(s)
    BY <2>2, SubSeqProperties
  <2> QED BY <2>1, <2>2
<1>3. RemoveAt(s, i) = f \o l
  BY DEF RemoveAt
<1> HIDE DEF f, l
<1>4. /\ f \o l \in Seq(S) /\ Len(f \o l) = Len(s) - 1
      /\ \A k \in 1..(Len(s) - 1) : (f \o l)[k] = IF k <= i - 1 THEN f[k] ELSE l[k - (i - 1)]
  <2>1. /\ f \o l \in Seq(S) /\ Len(f \o l) = Len(f) + Len(l)
        /\ \A k \in 1..(Len(f) + Len(l)) :
              (f \o l)[k] = IF k <= Len(f) THEN f[k] ELSE l[k - Len(f)]
    BY <1>1, <1>2, ConcatProperties
  <2>2. Len(f) + Len(l) = Len(s) - 1 /\ Len(f) = i - 1
    BY <1>1, <1>2
  <2> QED BY <2>1, <2>2
<1>5. ASSUME NEW k \in 1..(Len(s) - 1)
      PROVE  \E j \in 1..Len(s) : (f \o l)[k] = s[j]
  <2>1. CASE k <= i - 1
    <3>1. (f \o l)[k] = s[k] /\ k \in 1..Len(s)
      BY <1>1, <1>4, <2>1
    <3> QED BY <3>1
  <2>2. CASE k > i - 1
    <3>1. (f \o l)[k] = l[k - (i - 1)] /\ k - (i - 1) \in 1..(Len(s) - i)
      BY <1>4, <2>2
    <3>2. (f \o l)[k] = s[i + (k - (i - 1))] /\ i + (k - (i - 1)) \in 1..Len(s)
      BY <1>2, <3>1
    <3> QED BY <3>2
  <2>3. k <= i - 1 \/ k > i - 1
    OBVIOUS
  <2> QED BY <2>1, <2>2, <2>3
<1> QED BY <1>3, <1>4, <1>5

\* Where the probes agree, they do when some are gone.
LEMMA AgreeOnFewer ==
    ASSUME SenderInv, senderVars' = senderVars,
           AllProbes' \subseteq AllProbes
    PROVE  ProbesAgree'
BY DEF SenderInv, ProbesAgree, senderVars

\* The little arithmetic the steps of the client need, once and for all.
LEMMA LessIsOther == \A a, b \in Nat : a < b => a <= b /\ a # b
OBVIOUS

LEMMA LessThanNext == \A a, b \in Nat : a <= b => a <= b + 1 /\ a # b + 1 /\ a < b + 1
OBVIOUS

LEMMA LastOrBefore == \A n \in Nat : \A k \in 1..(n + 1) : k \in 1..n \/ k = n + 1
OBVIOUS

LEMMA LengthsApart ==
    ASSUME NEW slot \in Nat, NEW len \in Nat, NEW size \in Nat, NEW other \in Nat,
           slot < len, slot >= size, size >= other
    PROVE  other < len
OBVIOUS

\* What the assumption says of the command lines.
LEMMA ParamFacts ==
    ASSUME RecorderAssumption
    PROVE  /\ \A p \in Params \cup {NoParams} : p.num_bursts \in Nat /\ p.payload_len \in Nat
           /\ \A p \in Params : p.burst_len \in Nat \cup {-1}
           /\ DefaultLen \in Nat /\ MaxRuns \in Nat
<1>1. \A p \in Params : /\ p.num_bursts \in Nat /\ p.payload_len \in Nat
                       /\ p.burst_len \in Nat \cup {-1}
  BY DEF RecorderAssumption
<1>2. NoParams.num_bursts = 0 /\ NoParams.payload_len = 0
  BY DEF NoParams
<1>3. DefaultLen \in Nat /\ MaxRuns \in Nat
  BY DEF RecorderAssumption
<1> QED BY <1>1, <1>2, <1>3

\* The client's steps preserve its invariant.
LEMMA SenderStep ==
    ASSUME SenderInv, SenderNext, RecorderAssumption
    PROVE  SenderInv' /\ serverVars' = serverVars
<1>0. /\ \A p \in Params \cup {NoParams} : p.num_bursts \in Nat /\ p.payload_len \in Nat
      /\ \A p \in Params : p.burst_len \in Nat \cup {-1}
      /\ DefaultLen \in Nat /\ MaxRuns \in Nat
  BY ParamFacts
<1> USE DEF SenderInv, NoParams
<1>1. CASE StartClient
  <2>1. AllProbes' = AllProbes /\ serverVars' = serverVars
    BY <1>1 DEF StartClient, wireVars, serverVars, storeVars, AllProbes
  <2>2. \A m \in AllProbes : m.run \in Nat /\ m.run <= run
    BY DEF ProbesAgree, ProbeType
  <2>3. run \in Nat /\ run' = run + 1
    BY <1>0, <1>1 DEF StartClient
  <2>4. ASSUME NEW m \in AllProbes PROVE m.run <= run' /\ m.run # run'
    <3>1. m.run \in Nat /\ m.run <= run
      BY <2>2
    <3> QED BY <2>3, <3>1, LessThanNext
  <2>5. ProbesAgree'
    BY <2>1, <2>4 DEF ProbesAgree
  <2>6. PICK p \in Params : /\ params' = p
                            /\ burst_len' = IF p.burst_len = -1 THEN DefaultLen ELSE p.burst_len
    BY <1>1 DEF StartClient
  <2>7. burst_len' \in Nat
    BY <1>0, <2>6
  <2>8. /\ run' \in 0..MaxRuns /\ sender' = "loop" /\ send_burst' = 0 /\ seq_num' = 0
        /\ stopping' = FALSE /\ wire' = wire /\ duplicates' = duplicates
    BY <1>0, <1>1 DEF StartClient, wireVars
  <2>9. send_burst' \in 0..params'.num_bursts /\ seq_num' \in 0..burst_len'
    BY <1>0, <2>6, <2>7, <2>8
  <2> QED BY <2>1, <2>5, <2>6, <2>7, <2>8, <2>9
<1>2. CASE StartBurst
  <2>1. AllProbes' = AllProbes /\ serverVars' = serverVars
    BY <1>2 DEF StartBurst, wireVars, serverVars, storeVars, AllProbes
  <2>2. run' = run /\ sender = "loop" /\ sender' = "burst" /\ send_burst' = send_burst
    BY <1>2 DEF StartBurst
  <2>3. \A m \in AllProbes :
           m.run = run => m.burst_num <= send_burst /\ m.burst_num # send_burst
    <3>1. \A m \in AllProbes :
             m.burst_num \in Nat /\ (m.run = run => m.burst_num < send_burst)
      BY <2>2 DEF ProbesAgree, ProbeType
    <3>2. send_burst \in Nat
      BY <1>0
    <3>3. ASSUME NEW m \in AllProbes, m.run = run
          PROVE  m.burst_num <= send_burst /\ m.burst_num # send_burst
      <4>1. m.burst_num \in Nat /\ m.burst_num < send_burst
        BY <3>1, <3>3
      <4> QED BY <3>2, <4>1, LessIsOther
    <3> QED BY <3>3
  <2>4. ProbesAgree'
    BY <2>1, <2>2, <2>3 DEF ProbesAgree
  <2>5. burst_len' \in Nat
    BY <1>2 DEF StartBurst
  <2> QED BY <1>0, <1>2, <2>1, <2>4, <2>5 DEF StartBurst, wireVars
<1>3. CASE SendMessage
  <2>1. serverVars' = serverVars
    BY <1>3 DEF SendMessage
  <2>2. Probe \in ProbeType /\ Probe.seq_num < Probe.burst_len
    BY <1>0, <1>3 DEF SendMessage, Probe, ProbeType
  <2>3. wire' \in Seq(ProbeType) /\ AllProbes' \subseteq AllProbes \cup {Probe}
    <3>1. received' = received /\ wire' \in {wire, Append(wire, Probe)}
      BY <1>3 DEF SendMessage, serverVars, storeVars
    <3> DEFINE P == Probe
    <3>2. wire \in Seq(ProbeType) /\ P \in ProbeType
      BY <2>2
    <3> HIDE DEF P
    <3>3. /\ Append(wire, P) \in Seq(ProbeType)
          /\ \A k \in 1..Len(Append(wire, P)) :
                Append(wire, P)[k] \in {wire[i] : i \in 1..Len(wire)} \cup {P}
      <4>1. /\ Append(wire, P) \in Seq(ProbeType)
            /\ Len(Append(wire, P)) = Len(wire) + 1
            /\ \A k \in 1..Len(wire) : Append(wire, P)[k] = wire[k]
            /\ Append(wire, P)[Len(wire) + 1] = P
        BY <3>2, AppendProperties
      <4>2. \A k \in 1..(Len(wire) + 1) : k \in 1..Len(wire) \/ k = Len(wire) + 1
        <5>1. Len(wire) \in Nat
          BY <3>2
        <5> QED BY <5>1, LastOrBefore
      <4> QED BY <4>1, <4>2
    <3> USE DEF P
    <3> QED BY <3>1, <3>2, <3>3 DEF AllProbes
  <2>4. /\ run' = run /\ sender' = "burst" /\ sender = "burst"
        /\ send_burst' = send_burst /\ burst_len' = burst_len
    BY <1>3 DEF SendMessage
  <2>5. Probe.run = run /\ Probe.burst_num = send_burst /\ Probe.burst_len = burst_len
    BY DEF Probe
  <2>6. \A m \in AllProbes \cup {Probe} :
           /\ m \in ProbeType /\ m.seq_num < m.burst_len /\ m.run <= run
           /\ m.run = run => /\ m.burst_num <= send_burst
                             /\ m.burst_num = send_burst => m.burst_len = burst_len
    <3>1. ASSUME NEW m \in AllProbes
          PROVE  /\ m \in ProbeType /\ m.seq_num < m.burst_len /\ m.run <= run
                 /\ m.run = run => /\ m.burst_num <= send_burst
                                   /\ m.burst_num = send_burst => m.burst_len = burst_len
      BY <2>4 DEF ProbesAgree
    <3>2. run <= run /\ send_burst <= send_burst
      BY <1>0
    <3> QED BY <2>2, <2>5, <3>1, <3>2
  <2>7. \A m, q \in AllProbes \cup {Probe} :
          (m.run = q.run /\ m.burst_num = q.burst_num) => m.burst_len = q.burst_len
    BY <2>4, <2>5, <2>6 DEF ProbesAgree
  <2>8. ProbesAgree'
    BY <2>3, <2>4, <2>6, <2>7 DEF ProbesAgree
  <2> QED BY <1>0, <1>3, <2>1, <2>3, <2>8 DEF SendMessage
<1>4. CASE SendFails
  <2>1. AllProbes' = AllProbes /\ serverVars' = serverVars
    BY <1>4 DEF SendFails, wireVars, serverVars, storeVars, AllProbes
  <2>2. ProbesAgree'
    BY <1>4, <2>1 DEF SendFails, ProbesAgree
  <2> QED BY <1>4, <2>1, <2>2 DEF SendFails, wireVars
<1>5. CASE EndBurst
  <2>1. AllProbes' = AllProbes /\ serverVars' = serverVars
    BY <1>5 DEF EndBurst, wireVars, serverVars, storeVars, AllProbes
  <2>2. /\ run' = run /\ sender = "burst" /\ sender' = "loop" /\ send_burst' = send_burst + 1
        /\ send_burst \in Nat
    BY <1>0, <1>5 DEF EndBurst
  <2>3. ASSUME NEW m \in AllProbes, m.run = run
        PROVE  m.burst_num < send_burst'
    <3>1. m.burst_num \in Nat /\ m.burst_num <= send_burst
      BY <2>2, <2>3 DEF ProbesAgree, ProbeType
    <3> QED BY <2>2, <3>1, LessThanNext
  <2>4. ProbesAgree'
    BY <2>1, <2>2, <2>3 DEF ProbesAgree
  <2> QED BY <1>0, <1>5, <2>1, <2>4 DEF EndBurst, wireVars
<1>6. CASE EndSending
  <2>1. AllProbes' = AllProbes /\ serverVars' = serverVars
    BY <1>6 DEF EndSending, wireVars, serverVars, storeVars, AllProbes
  <2>2. ProbesAgree'
    BY <1>6, <2>1 DEF EndSending, ProbesAgree
  <2> QED BY <1>6, <2>1, <2>2 DEF EndSending, wireVars
<1>7. CASE InterruptSender
  <2>1. AllProbes' = AllProbes /\ serverVars' = serverVars
    BY <1>7 DEF InterruptSender, wireVars, serverVars, storeVars, AllProbes
  <2>2. ProbesAgree'
    BY <1>7, <2>1 DEF InterruptSender, ProbesAgree
  <2> QED BY <1>7, <2>1, <2>2 DEF InterruptSender, wireVars
<1> QED BY <1>1, <1>2, <1>3, <1>4, <1>5, <1>6, <1>7 DEF SenderNext

-----------------------------------------------------------------------------
(* What the server keeps.                                                  *)

\* What malloc is called for.
BurstData == [burst_len : Nat, messages : VectorsOf(ProbeType)]

\* The types of the server's state; vec is never of size one, as an empty
\* vector grows to two slots.
ServerTypes ==
    /\ server \in {"receiving", "analysing", "ended", "crashed"}
    /\ burst_num \in Nat
    /\ heap \in Seq(BurstData)
    /\ bd \in (1..Len(heap)) \cup {NULL}
    /\ vec \in VectorsOf(1..Len(heap))
    /\ vec.size # 1
    /\ analysed \in Nat
    /\ received \subseteq ProbeType
    /\ ub \subseteq {"bounds", "null"}

\* The null pointer is neither an entry of the heap nor a probe.
LEMMA NullIsNothing ==
    ASSUME RecorderAssumption
    PROVE  NULL \notin Nat /\ NULL \notin ProbeType
<1>1. 0..MaxRuns \subseteq Nat
  BY DEF RecorderAssumption
<1>2. ProbeType \subseteq [run : Nat, burst_num : Nat, seq_num : Nat, burst_len : Nat, payload_len : Nat]
  BY <1>1 DEF ProbeType
<1> QED BY <1>2 DEF RecorderAssumption

\* What an iteration that gets probe m stores at p of the heap, a heap that
\* malloc may just have grown to alloc.
StoredAt(m, p, alloc) ==
    /\ server = "receiving"
    /\ burst_num' = m.burst_num
    /\ bd' = p
    /\ received' = received \cup {m}
    /\ p \in 1..Len(alloc)
    /\ alloc[p] \in BurstData
    /\ \/ Lookup(m) = p /\ p \in 1..Len(heap) /\ alloc = heap /\ vec' = vec
       \/ /\ Lookup(m) = NULL
          /\ p = Len(heap) + 1
          /\ alloc[p] = NewBurstData(m)
          /\ vec' = vector_set(vec, m.burst_num, p)
    /\ Len(heap) <= Len(alloc)
    /\ heap' \in Seq(BurstData) /\ Len(heap') = Len(alloc)
    /\ heap'[p].burst_len = alloc[p].burst_len
    /\ heap'[p].messages = vector_set(alloc[p].messages, m.seq_num, m)
    /\ \A k \in 1..Len(heap) : k # p => heap'[k] = heap[k]

\* The write that leaves a vector.
Wild(m, p, alloc) ==
    \/ OutOfBounds(alloc[p].messages, m.seq_num)
    \/ Lookup(m) = NULL /\ OutOfBounds(vec, m.burst_num)

\* An iteration stores one probe of those in flight.
LEMMA ReceiveShape ==
    ASSUME RecorderAssumption, SenderInv, ServerTypes, ReceivePacket
    PROVE  \E i \in 1..Len(wire), p \in Nat, alloc \in Seq(BurstData) :
              /\ wire[i] \in ProbeType /\ wire[i] \in AllProbes
              /\ Arrives(i)
              /\ StoredAt(wire[i], p, alloc)
              /\ \/ ub' = ub /\ server' = server /\ ~Wild(wire[i], p, alloc)
                 \/ /\ ub' = ub \cup {"bounds"} /\ server' \in {"receiving", "crashed"}
                    /\ Wild(wire[i], p, alloc)
              /\ UNCHANGED <<analysed, report, senderVars>>
<1> DEFINE m(i)     == wire[i]
           known(i) == Lookup(m(i)) # NULL
           p(i)     == IF known(i) THEN Lookup(m(i)) ELSE Len(heap) + 1
           alloc(i) == IF known(i) THEN heap ELSE Append(heap, NewBurstData(m(i)))
           slots(i) == alloc(i)[p(i)].messages
           wild(i)  == \/ OutOfBounds(slots(i), m(i).seq_num)
                       \/ (~known(i) /\ OutOfBounds(vec, m(i).burst_num))
<1>1. PICK i \in 1..Len(wire) :
            /\ server = "receiving"
            /\ Arrives(i)
            /\ burst_num' = m(i).burst_num
            /\ bd' = p(i)
            /\ vec' = IF known(i) THEN vec ELSE vector_set(vec, m(i).burst_num, p(i))
            /\ heap' = [alloc(i) EXCEPT ![p(i)].messages = vector_set(slots(i), m(i).seq_num, m(i))]
            /\ received' = received \cup {m(i)}
            /\ \/ ~wild(i) /\ UNCHANGED <<ub, server>>
               \/ wild(i) /\ ub' = ub \cup {"bounds"} /\ server' \in {"receiving", "crashed"}
            /\ UNCHANGED <<analysed, report, senderVars>>
  BY DEF ReceivePacket
<1>2. m(i) \in ProbeType /\ m(i) \in AllProbes
  <2>1. wire \in Seq(ProbeType)
    BY Zenon DEF SenderInv
  <2>2. wire[i] \in ProbeType
    BY <2>1
  <2>3. wire[i] \in AllProbes
    BY Zenon DEF AllProbes
  <2> QED BY <2>2, <2>3
<1>3. m(i).burst_num \in Nat /\ m(i).seq_num \in Nat /\ m(i).burst_len \in Nat
  BY <1>2 DEF ProbeType
<1>4. Lookup(m(i)) \in (1..Len(heap)) \cup {NULL}
  <2> DEFINE b == m(i).burst_num
  <2>1. bd \in (1..Len(heap)) \cup {NULL} /\ vec \in VectorsOf(1..Len(heap)) /\ b \in Nat
    BY <1>3 DEF ServerTypes
  <2>2. Lookup(m(i)) \in {bd, vector_get(vec, b)}
    BY DEF Lookup
  <2> HIDE DEF b
  <2>3. vector_get(vec, b) \in (1..Len(heap)) \cup {NULL}
    BY <2>1, VectorGet
  <2> QED BY <2>1, <2>2, <2>3
<1>5. heap \in Seq(BurstData) /\ Len(heap) \in Nat
  BY DEF ServerTypes
<1>6. NewBurstData(m(i)) \in BurstData
  BY <1>3, VectorInit DEF NewBurstData, BurstData
<1> HIDE DEF m
<1>7. /\ p(i) \in Nat /\ alloc(i) \in Seq(BurstData) /\ p(i) \in 1..Len(alloc(i))
      /\ Len(heap) <= Len(alloc(i))
      /\ \A k \in 1..Len(heap) : alloc(i)[k] = heap[k]
      /\ ~known(i) => alloc(i)[p(i)] = NewBurstData(m(i))
  <2>1. CASE known(i)
    BY <1>4, <1>5, <2>1
  <2>2. CASE ~known(i)
    <3> DEFINE d == NewBurstData(m(i))
    <3>1. p(i) = Len(heap) + 1 /\ alloc(i) = Append(heap, d) /\ d \in BurstData
      BY <1>6, <2>2
    <3> HIDE DEF d
    <3>2. /\ Append(heap, d) \in Seq(BurstData)
          /\ Len(Append(heap, d)) = Len(heap) + 1
          /\ \A k \in 1..Len(heap) : Append(heap, d)[k] = heap[k]
          /\ Append(heap, d)[Len(heap) + 1] = d
      BY <1>5, <3>1, AppendProperties
    <3>3. Len(heap) + 1 \in Nat /\ Len(heap) + 1 \in 1..(Len(heap) + 1) /\ Len(heap) <= Len(heap) + 1
      BY <1>5
    <3> HIDE DEF p, alloc
    <3>4. /\ p(i) \in Nat /\ alloc(i) \in Seq(BurstData) /\ p(i) \in 1..Len(alloc(i))
          /\ Len(heap) <= Len(alloc(i))
          /\ \A k \in 1..Len(heap) : alloc(i)[k] = heap[k]
          /\ alloc(i)[p(i)] = d
      BY <3>1, <3>2, <3>3
    <3> QED BY <3>4 DEF d
  <2> QED BY <2>1, <2>2
<1>8. alloc(i)[p(i)] \in BurstData
  BY <1>7
<1>9. vector_set(slots(i), m(i).seq_num, m(i)) \in VectorsOf(ProbeType)
  <2>1. slots(i) \in VectorsOf(ProbeType)
    BY <1>8 DEF BurstData
  <2> HIDE DEF slots
  <2> QED BY <1>2, <1>3, <2>1, NullIsNothing, VectorSet
<1>10. \/ known(i) /\ Lookup(m(i)) = p(i) /\ p(i) \in 1..Len(heap) /\ alloc(i) = heap /\ vec' = vec
       \/ /\ ~known(i) /\ Lookup(m(i)) = NULL
          /\ p(i) = Len(heap) + 1
          /\ alloc(i)[p(i)] = NewBurstData(m(i))
          /\ vec' = vector_set(vec, m(i).burst_num, p(i))
  BY <1>1, <1>4, <1>7
<1>11. /\ \/ ~wild(i) /\ UNCHANGED <<ub, server>>
          \/ wild(i) /\ ub' = ub \cup {"bounds"} /\ server' \in {"receiving", "crashed"}
       /\ wild(i) <=> Wild(m(i), p(i), alloc(i))
  BY <1>1 DEF Wild
<1> HIDE DEF p, alloc, known, wild
<1> DEFINE new == [alloc(i)[p(i)] EXCEPT !.messages = vector_set(slots(i), m(i).seq_num, m(i))]
<1>12. /\ new \in BurstData
       /\ new.burst_len = alloc(i)[p(i)].burst_len
       /\ new.messages = vector_set(slots(i), m(i).seq_num, m(i))
  BY <1>8, <1>9 DEF BurstData
<1>13. heap' = [alloc(i) EXCEPT ![p(i)] = new]
  BY <1>1
<1> HIDE DEF new
<1>14. /\ heap' \in Seq(BurstData) /\ Len(heap') = Len(alloc(i))
       /\ heap'[p(i)] = new
       /\ \A k \in 1..Len(alloc(i)) : k # p(i) => heap'[k] = alloc(i)[k]
  BY <1>7, <1>12, <1>13
<1>15. ASSUME NEW k \in 1..Len(heap), k # p(i) PROVE heap'[k] = heap[k]
  <2>1. k \in 1..Len(alloc(i)) /\ alloc(i)[k] = heap[k]
    <3>1. Len(alloc(i)) \in Nat /\ Len(heap) <= Len(alloc(i))
      BY <1>7
    <3>2. alloc(i)[k] = heap[k]
      BY <1>7
    <3> QED BY <1>5, <3>1, <3>2
  <2>2. heap'[k] = alloc(i)[k]
    BY <1>14, <1>15, <2>1
  <2> QED BY <2>1, <2>2
<1>16. StoredAt(m(i), p(i), alloc(i))
  BY <1>1, <1>7, <1>8, <1>10, <1>12, <1>14, <1>15 DEF StoredAt
<1> QED BY <1>1, <1>2, <1>7, <1>11, <1>16 DEF m

\* What arrives was in flight, and nothing else comes to be so.
LEMMA ArrivesKeeps ==
    ASSUME RecorderAssumption, SenderInv, NEW i \in 1..Len(wire), Arrives(i)
    PROVE  /\ wire' \in Seq(ProbeType) /\ duplicates' \in 0..MaxDuplicates
           /\ \A k \in 1..Len(wire') : \E j \in 1..Len(wire) : wire'[k] = wire[j]
<1>1. wire \in Seq(ProbeType) /\ duplicates \in 0..MaxDuplicates /\ MaxDuplicates \in Nat
  BY DEF SenderInv, RecorderAssumption
<1>2. CASE wire' = wire /\ duplicates < MaxDuplicates /\ duplicates' = duplicates + 1
  <2>1. \A k \in 1..Len(wire') : k \in 1..Len(wire) /\ wire'[k] = wire[k]
    BY <1>1, <1>2
  <2>2. wire' \in Seq(ProbeType) /\ duplicates' \in 0..MaxDuplicates
    BY <1>1, <1>2
  <2> QED BY <2>1, <2>2
<1>3. CASE wire' = RemoveAt(wire, i) /\ duplicates' = duplicates
  <2>1. /\ RemoveAt(wire, i) \in Seq(ProbeType)
        /\ \A k \in 1..Len(RemoveAt(wire, i)) :
              \E j \in 1..Len(wire) : RemoveAt(wire, i)[k] = wire[j]
    BY <1>1, RemoveAtRange
  <2> QED BY <1>1, <1>3, <2>1
<1> QED BY <1>2, <1>3 DEF Arrives

\* Receiving leaves the client alone and makes no probe.
LEMMA SenderKept ==
    ASSUME RecorderAssumption, SenderInv, ServerTypes, ServerNext, ~ReceiveTooLong
    PROVE  SenderInv'
<1>1. CASE ReceivePacket
  <2>1. PICK i \in 1..Len(wire), p \in Nat, alloc \in Seq(BurstData) :
              /\ wire[i] \in ProbeType /\ wire[i] \in AllProbes
              /\ Arrives(i)
              /\ StoredAt(wire[i], p, alloc)
              /\ UNCHANGED senderVars
    BY <1>1, ReceiveShape
  <2>2. received' = received \cup {wire[i]}
    BY <2>1 DEF StoredAt
  <2>4. /\ wire' \in Seq(ProbeType) /\ duplicates' \in 0..MaxDuplicates
        /\ \A k \in 1..Len(wire') : \E j \in 1..Len(wire) : wire'[k] = wire[j]
    BY <2>1, ArrivesKeeps
  <2>5. AllProbes' \subseteq AllProbes
    BY <2>1, <2>2, <2>4 DEF AllProbes
  <2>6. ProbesAgree'
    BY <2>1, <2>5, AgreeOnFewer
  <2> QED BY <2>1, <2>4, <2>6 DEF SenderInv, senderVars
<1>2. CASE ~ReceivePacket
  <2>1. senderVars' = senderVars /\ wireVars' = wireVars /\ received' = received
    BY <1>2 DEF ServerNext, StopReceiving, SkipSlot, AnalyseBurst, AnalyseCrash,
                FreeBurstData, storeVars
  <2>2. AllProbes' = AllProbes
    BY <2>1 DEF AllProbes, wireVars
  <2>3. ProbesAgree'
    BY <2>1, <2>2, AgreeOnFewer
  <2> QED BY <2>1, <2>3 DEF SenderInv, senderVars, wireVars
<1> QED BY <1>1, <1>2

\* A message that is too long leaves no trace in the server.
LEMMA TooLongLost ==
    ASSUME RecorderAssumption, SenderInv, ReceiveTooLong
    PROVE  SenderInv' /\ serverVars' = serverVars
<1>1. PICK i \in 1..Len(wire) : Arrives(i) /\ UNCHANGED <<serverVars, senderVars>>
  BY DEF ReceiveTooLong
<1>2. /\ wire' \in Seq(ProbeType) /\ duplicates' \in 0..MaxDuplicates
      /\ \A k \in 1..Len(wire') : \E j \in 1..Len(wire) : wire'[k] = wire[j]
  BY <1>1, ArrivesKeeps
<1>3. received' = received
  BY <1>1 DEF serverVars, storeVars
<1>4. AllProbes' \subseteq AllProbes
  BY <1>2, <1>3 DEF AllProbes
<1>5. ProbesAgree'
  BY <1>1, <1>4, AgreeOnFewer
<1> QED BY <1>1, <1>2, <1>5 DEF SenderInv, senderVars

\* The server's steps preserve its types.
LEMMA TypesKept ==
    ASSUME RecorderAssumption, SenderInv, ServerTypes, ServerNext, ~ReceiveTooLong
    PROVE  ServerTypes'
<1>1. CASE ReceivePacket
  <2>1. PICK i \in 1..Len(wire), p \in Nat, alloc \in Seq(BurstData) :
              /\ wire[i] \in ProbeType /\ wire[i] \in AllProbes
              /\ StoredAt(wire[i], p, alloc)
              /\ \/ ub' = ub /\ server' = server
                 \/ ub' = ub \cup {"bounds"} /\ server' \in {"receiving", "crashed"}
              /\ UNCHANGED <<analysed, report, senderVars>>
    BY <1>1, ReceiveShape
  <2>2. wire[i].burst_num \in Nat
    BY <2>1 DEF ProbeType
  <2>3. /\ heap' \in Seq(BurstData) /\ Len(heap') = Len(alloc) /\ Len(heap) <= Len(alloc)
        /\ p \in 1..Len(alloc) /\ bd' = p
        /\ burst_num' = wire[i].burst_num
        /\ received' = received \cup {wire[i]}
    BY <2>1 DEF StoredAt
  <2>4. vec' \in VectorsOf(1..Len(heap')) /\ vec'.size # 1
    <3>1. vec \in VectorsOf(1..Len(heap'))
      <4>1. 1..Len(heap) \subseteq 1..Len(heap')
        BY <2>3 DEF ServerTypes
      <4>2. vec \in VectorsOf(1..Len(heap))
        BY DEF ServerTypes
      <4> QED BY <4>1, <4>2, VectorMore
    <3>2. NULL \notin 1..Len(heap')
      BY <2>3, NullIsNothing
    <3>3. vec' \in {vec, vector_set(vec, wire[i].burst_num, p)}
      BY <2>1 DEF StoredAt
    <3>4. p \in 1..Len(heap') /\ vec.size # 1
      BY <2>3 DEF ServerTypes
    <3>5. ASSUME NEW E, vec \in VectorsOf(E), NULL \notin E, p \in E
          PROVE  vector_set(vec, wire[i].burst_num, p) \in VectorsOf(E)
      BY <2>2, <3>5, VectorSet
    <3>7. ASSUME NEW E, vec \in VectorsOf(E), NULL \notin E, p \in E
          PROVE  vector_set(vec, wire[i].burst_num, p).size # 1
      BY <2>2, <3>4, <3>7, VectorSetSize
    <3>6. /\ vector_set(vec, wire[i].burst_num, p) \in VectorsOf(1..Len(heap'))
          /\ vector_set(vec, wire[i].burst_num, p).size # 1
      BY <3>1, <3>2, <3>4, <3>5, <3>7
    <3> QED BY <3>1, <3>3, <3>4, <3>6
  <2> QED BY <2>1, <2>2, <2>3, <2>4 DEF ServerTypes
<1>2. CASE FreeBurstData
  <2>1. vec' = vector_resize(vec, 0) /\ heap' = <<>> /\ bd' = NULL
    BY <1>2 DEF FreeBurstData
  <2> DEFINE E == 1..Len(heap')
  <2>2. vector_resize(vec, 0) \in VectorsOf(E) /\ vector_resize(vec, 0).size = 0
    BY VectorNone
  <2>4. vec' \in VectorsOf(1..Len(heap')) /\ vec'.size # 1
    BY <2>1, <2>2
  <2>5. heap' \in Seq(BurstData)
    BY <2>1
  <2> QED BY <1>2, <2>1, <2>4, <2>5 DEF FreeBurstData, ServerTypes
<1>3. CASE StopReceiving \/ SkipSlot \/ AnalyseBurst \/ AnalyseCrash
  <2>1. storeVars' = storeVars /\ analysed' \in {analysed, analysed + 1}
    BY <1>3 DEF StopReceiving, SkipSlot, AnalyseBurst, AnalyseCrash, storeVars
  <2>2. server' \in {server, "analysing", "crashed"} /\ ub' \in {ub, ub \cup {"null"}}
    BY <1>3 DEF StopReceiving, SkipSlot, AnalyseBurst, AnalyseCrash
  <2>3. /\ burst_num' = burst_num /\ bd' = bd /\ vec' = vec /\ heap' = heap
        /\ received' = received
    BY <2>1 DEF storeVars
  <2>4. analysed' \in Nat
    BY <2>1 DEF ServerTypes
  <2>5. server' \in {"receiving", "analysing", "ended", "crashed"} /\ ub' \subseteq {"bounds", "null"}
    BY <2>2 DEF ServerTypes
  <2> QED BY <2>3, <2>4, <2>5 DEF ServerTypes
<1> QED BY <1>1, <1>2, <1>3 DEF ServerNext

\* The entry of burst b holds what arrived of it, and has slots for all of
\* the burst it was made for.
BurstFiled(b) ==
    LET data == heap[vec.data[b]] IN
    /\ data.messages.size >= data.burst_len
    /\ \E q \in received : q.burst_num = b /\ q.burst_len = data.burst_len
    /\ \A s \in Occupied(data.messages) :
          /\ data.messages.data[s] \in received
          /\ data.messages.data[s].burst_num = b
          /\ data.messages.data[s].seq_num = s

\* Where the server looks for the burst and the slot of a probe it got.
MessageFiled(m) ==
    /\ m.burst_num \in Occupied(vec)
    /\ m.seq_num \in Occupied(heap[vec.data[m.burst_num]].messages)

\* No two bursts share an entry, the cached pointer is that of the cached
\* burst number, and the entries hold what arrived.
Filed ==
    /\ bd = NULL => Occupied(vec) = {}
    /\ bd # NULL => burst_num \in Occupied(vec) /\ vec.data[burst_num] = bd
    /\ \A b, c \in Occupied(vec) : vec.data[b] = vec.data[c] => b = c
    /\ \A b \in Occupied(vec) : BurstFiled(b)
    /\ \A m \in received : MessageFiled(m)

\* The store is in order while the server uses it.
FiledInv == (server \in {"receiving", "analysing"} /\ "bounds" \notin ub) => Filed

\* It stays in order when nothing of it changes.
LEMMA FiledSame ==
    ASSUME Filed, storeVars' = storeVars
    PROVE  Filed'
<1>1. burst_num' = burst_num /\ bd' = bd /\ vec' = vec /\ heap' = heap /\ received' = received
  BY DEF storeVars
<1>2. ASSUME NEW b, BurstFiled(b) PROVE BurstFiled(b)'
  BY <1>1, <1>2 DEF BurstFiled
<1>3. ASSUME NEW m, MessageFiled(m) PROVE MessageFiled(m)'
  BY <1>1, <1>3 DEF MessageFiled
<1>4. /\ \A b \in Occupied(vec) : BurstFiled(b)
      /\ \A m \in received : MessageFiled(m)
  BY DEF Filed
<1>5. \A b \in Occupied(vec)' : BurstFiled(b)'
  BY <1>1, <1>2, <1>4
<1>6. \A m \in received' : MessageFiled(m)'
  BY <1>1, <1>3, <1>4
<1> QED BY <1>1, <1>5, <1>6 DEF Filed

\* What Lookup returns in an orderly store.
LEMMA LookupFinds ==
    ASSUME RecorderAssumption, ServerTypes, Filed, NEW m \in ProbeType
    PROVE  /\ Lookup(m) # NULL <=> m.burst_num \in Occupied(vec)
           /\ Lookup(m) # NULL => Lookup(m) = vec.data[m.burst_num]
<1>1. m.burst_num \in Nat /\ burst_num \in Nat
  BY DEF ProbeType, ServerTypes
<1>2. CASE m.burst_num = burst_num
  BY <1>2 DEF Lookup, Filed
<1>3. CASE m.burst_num # burst_num
  BY <1>1, <1>3, VectorGet DEF Lookup, ServerTypes
<1> QED BY <1>2, <1>3

\* A write within the bounds files the probe and disturbs nothing.
LEMMA ReceiveFiles ==
    ASSUME RecorderAssumption, ServerTypes, ServerTypes', Filed,
           NEW m \in ProbeType, NEW p \in Nat, NEW alloc \in Seq(BurstData),
           StoredAt(m, p, alloc), ~Wild(m, p, alloc)
    PROVE  Filed'
<1> DEFINE b     == m.burst_num
           slots == alloc[p].messages
           new   == vector_set(slots, m.seq_num, m)
<1>1. b \in Nat /\ m.seq_num \in Nat /\ m.burst_len \in Nat /\ Len(heap) \in Nat
  BY DEF ProbeType, ServerTypes
<1>2. /\ burst_num' = b /\ bd' = p /\ received' = received \cup {m}
      /\ heap'[p].burst_len = alloc[p].burst_len
      /\ heap'[p].messages = new
      /\ \A k \in 1..Len(heap) : k # p => heap'[k] = heap[k]
      /\ ~OutOfBounds(slots, m.seq_num)
  BY DEF StoredAt, Wild
<1>3. slots \in VectorsOf(ProbeType)
  BY DEF StoredAt, BurstData
<1>4. /\ Occupied(new) = Occupied(slots) \cup {m.seq_num}
      /\ new.data[m.seq_num] = m
      /\ \A s \in Occupied(slots) \ {m.seq_num} : new.data[s] = slots.data[s]
      /\ new.size \in Nat /\ slots.size \in Nat /\ new.size >= slots.size
  <2> DEFINE t == m.seq_num
  <2>1. /\ NULL \notin ProbeType /\ t \in Nat /\ slots \in VectorsOf(ProbeType)
        /\ ~OutOfBounds(slots, t)
    BY <1>1, <1>2, <1>3, NullIsNothing
  <2> DEFINE w == vector_set(slots, t, m)
  <2> HIDE DEF slots, t
  <2>2. /\ w.size >= slots.size
        /\ w.size \in Nat /\ slots.size \in Nat
        /\ Occupied(w) = Occupied(slots) \cup {t}
        /\ w.data[t] = m
        /\ \A i \in Occupied(slots) \ {t} : w.data[i] = slots.data[i]
    BY <2>1, VectorSetWithin
  <2> HIDE DEF w
  <2>3. new = w
    BY DEF w, t
  <2> HIDE DEF new
  <2> QED BY <2>2, <2>3 DEF t
<1>5. \A c \in Occupied(vec) : vec.data[c] \in 1..Len(heap)
  <2>1. vec \in VectorsOf(1..Len(heap))
    BY DEF ServerTypes
  <2>2. Occupied(vec) \subseteq Nat
    <3>1. vec.size \in Nat
      BY <2>1, VectorShape
    <3> QED BY <3>1 DEF Occupied
  <2> QED BY <2>1, <2>2, VectorGet
<1>6. /\ Occupied(vec') = Occupied(vec) \cup {b}
      /\ vec'.data[b] = p
      /\ \A c \in Occupied(vec) \ {b} :
            vec'.data[c] = vec.data[c] /\ vec.data[c] # p /\ vec.data[c] \in 1..Len(heap)
  <2>1. CASE Lookup(m) = p /\ p \in 1..Len(heap) /\ vec' = vec
    <3>1. b \in Occupied(vec) /\ vec.data[b] = p
      BY <2>1, NullIsNothing, LookupFinds
    <3> QED BY <1>5, <2>1, <3>1 DEF Filed
  <2>2. CASE Lookup(m) = NULL /\ p = Len(heap) + 1 /\ vec' = vector_set(vec, b, p)
    <3>1. ~OutOfBounds(vec, b)
      BY <2>2 DEF Wild
    <3> DEFINE E == 1..(Len(heap) + 1)
    <3>2. vec \in VectorsOf(E)
      <4>1. vec \in VectorsOf(1..Len(heap)) /\ Len(heap) \in Nat
        BY <1>1 DEF ServerTypes
      <4> QED BY <4>1, VectorOneMore
    <3>3. p \in E /\ NULL \notin E /\ \A c \in Occupied(vec) : vec.data[c] # p
      <4>1. Len(heap) \in Nat /\ p = Len(heap) + 1
        BY <1>1, <2>2
      <4>2. p \in E /\ p \notin 1..Len(heap) /\ E \subseteq Nat
        BY <4>1
      <4> HIDE DEF E
      <4> QED BY <1>5, <4>2, NullIsNothing
    <3> HIDE DEF E, b
    <3>4. /\ Occupied(vector_set(vec, b, p)) = Occupied(vec) \cup {b}
          /\ vector_set(vec, b, p).data[b] = p
          /\ \A c \in Occupied(vec) \ {b} : vector_set(vec, b, p).data[c] = vec.data[c]
      <4>1. b \in Nat /\ p \in E /\ NULL \notin E
        BY <1>1, <3>3
      <4> QED BY <3>1, <3>2, <4>1, VectorSetWithin
    <3> QED BY <1>5, <2>2, <3>3, <3>4
  <2> QED BY <2>1, <2>2 DEF StoredAt
<1>7. /\ slots.size >= alloc[p].burst_len
      /\ \E q \in received' : q.burst_num = b /\ q.burst_len = alloc[p].burst_len
      /\ \A s \in Occupied(slots) : /\ slots.data[s] \in received
                                    /\ slots.data[s].burst_num = b
                                    /\ slots.data[s].seq_num = s
      /\ \A q \in received : q.burst_num = b => q.seq_num \in Occupied(slots)
  <2>1. CASE Lookup(m) = p /\ p \in 1..Len(heap) /\ alloc = heap
    <3>1. b \in Occupied(vec) /\ vec.data[b] = p
      BY <2>1, NullIsNothing, LookupFinds
    <3>2. BurstFiled(b) /\ \A q \in received : MessageFiled(q)
      BY <3>1 DEF Filed
    <3> QED BY <1>2, <2>1, <3>1, <3>2 DEF BurstFiled, MessageFiled
  <2>2. CASE Lookup(m) = NULL /\ alloc[p] = NewBurstData(m)
    <3>1. \A q \in received : q.burst_num # b
      BY <2>2, LookupFinds DEF Filed, MessageFiled
    <3>2. alloc[p].burst_len = m.burst_len /\ slots = vector_init(m.burst_len)
      BY <2>2 DEF NewBurstData
    <3>3. Occupied(slots) = {} /\ slots.size = m.burst_len
      BY <1>1, <3>2, VectorInit
    <3> QED BY <1>1, <1>2, <3>1, <3>2, <3>3
  <2> QED BY <2>1, <2>2 DEF StoredAt
<1> HIDE DEF slots, new
<1>8. bd' # NULL
  BY <1>2, NullIsNothing
<1>9. \A c, d \in Occupied(vec') : vec'.data[c] = vec'.data[d] => c = d
  BY <1>6 DEF Filed
<1>10. ASSUME NEW c \in Occupied(vec')
       PROVE  BurstFiled(c)'
  <2>1. CASE c = b
    <3> DEFINE data == heap'[vec'.data[c]]
    <3>1. data.burst_len = alloc[p].burst_len /\ data.messages = new
      BY <1>2, <1>6, <2>1
    <3>2. alloc[p].burst_len \in Nat
      BY DEF StoredAt, BurstData
    <3>3. data.messages.size >= data.burst_len
      <4> DEFINE l == alloc[p].burst_len
                 k == slots.size
                 n == new.size
      <4>1. l \in Nat /\ k \in Nat /\ n \in Nat /\ k >= l /\ n >= k
        BY <1>4, <1>7, <3>2
      <4> HIDE DEF l, k, n
      <4>2. n >= l
        BY <4>1
      <4> QED BY <3>1, <4>2 DEF l, n
    <3>4. ASSUME NEW s \in Occupied(data.messages)
          PROVE  /\ data.messages.data[s] \in received'
                 /\ data.messages.data[s].burst_num = c
                 /\ data.messages.data[s].seq_num = s
      <4>1. s \in Occupied(new) /\ data.messages.data[s] = new.data[s]
        BY <3>1, <3>4
      <4>2. CASE s = m.seq_num
        BY <1>2, <1>4, <2>1, <4>1, <4>2
      <4>3. CASE s # m.seq_num
        <5>1. s \in Occupied(slots) /\ new.data[s] = slots.data[s]
          BY <1>4, <4>1, <4>3
        <5> QED BY <1>2, <1>7, <2>1, <4>1, <5>1
      <4> QED BY <4>2, <4>3
    <3>5. \E q \in received' : q.burst_num = c /\ q.burst_len = data.burst_len
      BY <1>7, <2>1, <3>1
    <3> QED BY <3>3, <3>4, <3>5 DEF BurstFiled
  <2>2. CASE c # b
    <3>1. c \in Occupied(vec) /\ heap'[vec'.data[c]] = heap[vec.data[c]]
      BY <1>2, <1>6, <2>2
    <3>2. BurstFiled(c)
      BY <3>1 DEF Filed
    <3> QED BY <1>2, <3>1, <3>2 DEF BurstFiled
  <2> QED BY <2>1, <2>2
<1>11. ASSUME NEW q \in received'
       PROVE  MessageFiled(q)'
  <2>1. CASE q.burst_num = b
    <3>1. heap'[vec'.data[b]].messages = new
      BY <1>2, <1>6
    <3>2. q.seq_num \in Occupied(new)
      BY <1>2, <1>4, <1>7, <2>1
    <3> QED BY <1>6, <2>1, <3>1, <3>2 DEF MessageFiled
  <2>2. CASE q.burst_num # b
    <3>1. q \in received /\ MessageFiled(q)
      BY <1>2, <2>2 DEF Filed
    <3>2. heap'[vec'.data[q.burst_num]] = heap[vec.data[q.burst_num]]
      BY <1>2, <1>6, <2>2, <3>1 DEF MessageFiled
    <3> QED BY <1>6, <3>1, <3>2 DEF MessageFiled
  <2> QED BY <2>1, <2>2
<1> QED BY <1>2, <1>6, <1>8, <1>9, <1>10, <1>11 DEF Filed

\* The server's steps keep the store in order.
LEMMA FiledKept ==
    ASSUME RecorderAssumption, SenderInv, ServerTypes, ServerTypes', FiledInv,
           ServerNext, ~ReceiveTooLong
    PROVE  FiledInv'
<1> SUFFICES ASSUME server' \in {"receiving", "analysing"}, "bounds" \notin ub'
             PROVE  Filed'
  BY DEF FiledInv
<1>1. CASE ReceivePacket
  <2>1. PICK i \in 1..Len(wire), p \in Nat, alloc \in Seq(BurstData) :
              /\ wire[i] \in ProbeType
              /\ StoredAt(wire[i], p, alloc)
              /\ ub' = ub /\ ~Wild(wire[i], p, alloc)
    BY <1>1, ReceiveShape
  <2>2. Filed
    BY <2>1 DEF FiledInv, StoredAt
  <2> QED BY <2>1, <2>2, ReceiveFiles
<1>2. CASE StopReceiving \/ SkipSlot \/ AnalyseBurst \/ AnalyseCrash
  <2>1. storeVars' = storeVars /\ server \in {"receiving", "analysing"} /\ "bounds" \notin ub
    BY <1>2 DEF StopReceiving, SkipSlot, AnalyseBurst, AnalyseCrash
  <2>2. Filed
    BY <2>1 DEF FiledInv
  <2> QED BY <2>1, <2>2, FiledSame
<1>3. CASE FreeBurstData
  BY <1>3 DEF FreeBurstData
<1> QED BY <1>1, <1>2, <1>3 DEF ServerNext

-----------------------------------------------------------------------------
(* What the server prints.                                                 *)

\* A set of numbers has a least one.
LEMMA LeastNumber ==
    ASSUME NEW T, T \subseteq Nat, T # {}
    PROVE  \E x \in T : \A y \in T : ~(y < x)
<1>1. \E x \in T : \A y \in T : ~(<<y, x>> \in OpToRel(<, Nat))
  BY NatLessThanWellFounded, WFMin
<1>2. \A x \in Nat, y \in Nat : y < x => <<y, x>> \in OpToRel(<, Nat)
  BY DEF OpToRel
<1> QED BY <1>1, <1>2

\* The inner loop of the analysis stops where its condition first holds.
LEMMA CapacityIsFirstStop ==
    ASSUME NEW slots \in VectorsOf(ProbeType)
    PROVE  /\ Capacity(slots) \in 0..slots.size
           /\ Stops(slots, Capacity(slots))
           /\ \A k \in 0..(Capacity(slots) - 1) : ~Stops(slots, k)
<1> DEFINE P(n) == Stops(slots, n) /\ \A k \in 0..(n - 1) : ~Stops(slots, k)
           T    == {n \in 0..slots.size : Stops(slots, n)}
<1>1. slots.size \in Nat
  BY VectorShape
<1>2. slots.size \in T
  BY <1>1 DEF Stops
<1>3. PICK x \in T : \A y \in T : ~(y < x)
  <2>1. T \subseteq Nat /\ T # {}
    BY <1>1, <1>2
  <2> HIDE DEF T
  <2> QED BY <2>1, LeastNumber
<1>4. x \in 0..slots.size /\ P(x)
  <2>1. x \in 0..slots.size /\ Stops(slots, x)
    OBVIOUS
  <2>2. ASSUME NEW k \in 0..(x - 1)
        PROVE  ~Stops(slots, k)
    <3>1. k \in 0..slots.size /\ k < x
      BY <1>1, <2>1
    <3>2. k \notin T
      BY <1>3, <3>1
    <3> QED BY <3>1, <3>2
  <2> QED BY <2>1, <2>2
<1>5. Capacity(slots) = CHOOSE n \in 0..slots.size : P(n)
  BY DEF Capacity
<1> HIDE DEF P
<1>6. Capacity(slots) \in 0..slots.size /\ P(Capacity(slots))
  BY <1>4, <1>5
<1> QED BY <1>6 DEF P

\* In an orderly store, the slots of a burst that are taken are the sequence
\* numbers that arrived.
LEMMA OccupiedIsArrived ==
    ASSUME RecorderAssumption, ServerTypes, Filed, NEW b \in Occupied(vec)
    PROVE  Occupied(heap[vec.data[b]].messages) = Arrived(b)
<1> DEFINE slots == heap[vec.data[b]].messages
<1>1. \A s \in Occupied(slots) : \E q \in received : q.burst_num = b /\ q.seq_num = s
  <2>1. BurstFiled(b)
    BY DEF Filed
  <2>2. \A s \in Occupied(slots) : /\ slots.data[s] \in received
                                  /\ slots.data[s].burst_num = b /\ slots.data[s].seq_num = s
    BY <2>1 DEF BurstFiled
  <2> QED BY <2>2
<1>2. \A q \in received : q.burst_num = b => q.seq_num \in Occupied(slots)
  BY DEF Filed, MessageFiled
<1> HIDE DEF slots
<1>3. \A s \in Occupied(slots) : s \in Arrived(b)
  BY <1>1 DEF Arrived
<1>4. \A s \in Arrived(b) : s \in Occupied(slots)
  BY <1>2 DEF Arrived
<1> QED BY <1>3, <1>4 DEF slots

\* The entry of a burst.
LEMMA EntryType ==
    ASSUME RecorderAssumption, ServerTypes, NEW b \in Occupied(vec)
    PROVE  b \in Nat /\ heap[vec.data[b]] \in BurstData
<1>1. vec \in VectorsOf(1..Len(heap)) /\ heap \in Seq(BurstData)
  BY DEF ServerTypes
<1>2. vec.size \in Nat
  BY <1>1, VectorShape
<1>3. b \in Nat
  BY <1>2 DEF Occupied
<1>4. vec.data[b] \in 1..Len(heap)
  BY <1>1, <1>3, VectorGet
<1> QED BY <1>1, <1>3, <1>4

\* What a line of burst b says.
LineTrue(line) ==
    /\ line.received = Cardinality(Arrived(line.burst))
    /\ \A n \in 0..(line.capacity - 1) :
          n \in Arrived(line.burst) /\ (TestMode = 1 => n < TestQueueLen)
    /\ \/ line.capacity \notin Arrived(line.burst)
       \/ TestMode = 1 /\ line.capacity = TestQueueLen

\* Only the bursts of two clients under one number exceed its length.
ExcessExplained(line) ==
    line.received > line.burst_len
        => \E m, q \in received : /\ m.run # q.run
                                  /\ m.burst_num = line.burst
                                  /\ q.burst_num = line.burst

\* The line of a burst in an orderly store is true.
LEMMA LineIsTrue ==
    ASSUME RecorderAssumption, ServerTypes, Filed, NEW b \in Occupied(vec)
    PROVE  LineTrue(LineOf(b, heap[vec.data[b]]))
<1> DEFINE data  == heap[vec.data[b]]
           slots == data.messages
           c     == Capacity(slots)
           line  == LineOf(b, data)
<1>1. slots \in VectorsOf(ProbeType)
  BY EntryType DEF BurstData
<1>2. Occupied(slots) = Arrived(b)
  BY OccupiedIsArrived
<1>3. line.received = Cardinality(Occupied(slots)) /\ line.capacity = c /\ line.burst = b
  BY DEF LineOf
<1> HIDE DEF slots
<1>4. /\ c \in 0..slots.size /\ slots.size \in Nat
      /\ Stops(slots, c)
      /\ \A k \in 0..(c - 1) : ~Stops(slots, k)
  BY <1>1, CapacityIsFirstStop, VectorShape
<1> HIDE DEF c, line
<1>5. TestMode \in Nat /\ TestQueueLen \in Nat
  BY DEF RecorderAssumption
<1>6. ASSUME NEW n \in 0..(c - 1)
      PROVE  n \in Arrived(b) /\ (TestMode = 1 => n < TestQueueLen)
  <2>1. ~Stops(slots, n) /\ n \in Nat
    BY <1>4
  <2>2. vector_get(slots, n) # NULL /\ ~(TestMode = 1 /\ n >= TestQueueLen)
    BY <2>1 DEF Stops
  <2>3. n \in Occupied(slots)
    BY <1>1, <2>1, <2>2, VectorGet
  <2> QED BY <1>2, <1>5, <2>1, <2>2, <2>3
<1>7. c \notin Arrived(b) \/ (TestMode = 1 /\ c = TestQueueLen)
  <2>1. CASE c = slots.size
    <3>1. c \notin Occupied(slots)
      BY <1>4, <2>1 DEF Occupied
    <3> QED BY <1>2, <3>1
  <2>2. CASE TestMode = 1 /\ c >= TestQueueLen
    <3>1. CASE c > TestQueueLen
      <4>1. TestQueueLen \in 0..(c - 1)
        BY <1>4, <1>5, <3>1
      <4> QED BY <1>5, <1>6, <2>2, <4>1
    <3>2. CASE ~(c > TestQueueLen)
      BY <1>4, <1>5, <2>2, <3>2
    <3> QED BY <3>1, <3>2
  <2>3. CASE vector_get(slots, c) = NULL
    <3>1. c \notin Occupied(slots)
      BY <1>1, <1>4, <2>3, VectorGet
    <3> QED BY <1>2, <3>1
  <2> QED BY <1>4, <2>1, <2>2, <2>3 DEF Stops
<1> QED BY <1>2, <1>3, <1>6, <1>7 DEF LineTrue, line

\* The sequence numbers of a burst of one client fit its length.
LEMMA LineExcess ==
    ASSUME RecorderAssumption, SenderInv, ServerTypes, Filed, NEW b \in Occupied(vec)
    PROVE  ExcessExplained(LineOf(b, heap[vec.data[b]]))
<1> DEFINE data == heap[vec.data[b]]
           line == LineOf(b, data)
<1>1. /\ line.received = Cardinality(Arrived(b))
      /\ line.burst = b /\ line.burst_len = data.burst_len
  BY OccupiedIsArrived DEF LineOf
<1>2. PICK q \in received : q.burst_num = b /\ q.burst_len = data.burst_len
  BY DEF Filed, BurstFiled
<1> HIDE DEF line, data
<1> SUFFICES ASSUME \A m \in received : m.burst_num = b => m.run = q.run
             PROVE  ~(line.received > line.burst_len)
  BY <1>1, <1>2 DEF ExcessExplained, line, data
<1>3. received \subseteq AllProbes
  BY DEF AllProbes
<1>4. \A m \in received : /\ m \in ProbeType /\ m.seq_num < m.burst_len
                          /\ m.burst_num = b => m.burst_len = q.burst_len
  BY <1>2, <1>3 DEF SenderInv, ProbesAgree
<1>5. q.burst_len \in Nat
  BY <1>4 DEF ProbeType
<1>6. Arrived(b) \subseteq 0..(q.burst_len - 1)
  <2> SUFFICES ASSUME NEW m \in received, m.burst_num = b
               PROVE  m.seq_num \in 0..(q.burst_len - 1)
    BY DEF Arrived
  <2>1. m.seq_num \in Nat /\ m.seq_num < q.burst_len
    BY <1>4 DEF ProbeType
  <2> QED BY <1>5, <2>1
<1>7. /\ IsFiniteSet(0..(q.burst_len - 1))
      /\ Cardinality(0..(q.burst_len - 1)) = q.burst_len
  <2> DEFINE last == q.burst_len - 1
  <2>1. last \in Int /\ last + 1 = q.burst_len /\ (0 > last => q.burst_len = 0)
    BY <1>5
  <2> HIDE DEF last
  <2>2. /\ IsFiniteSet(0..last)
        /\ Cardinality(0..last) = IF 0 > last THEN 0 ELSE last - 0 + 1
    <3>1. 0 \in Int
      OBVIOUS
    <3> QED BY <2>1, <3>1, FS_Interval, Zenon
  <2>3. last - 0 + 1 = last + 1
    BY <2>1
  <2>4. Cardinality(0..last) = q.burst_len
    BY <2>1, <2>2, <2>3
  <2> QED BY <2>2, <2>4 DEF last
<1>8. Cardinality(Arrived(b)) <= q.burst_len /\ Cardinality(Arrived(b)) \in Nat
  BY <1>6, <1>7, FS_Subset, FS_CardinalityType
<1> QED BY <1>1, <1>2, <1>5, <1>8

\* What was printed is true, and so far complete; nothing is printed while
\* the server receives.
ReportInv ==
    /\ server = "receiving" => report = {} /\ analysed = 0
    /\ "null" \in ub => server = "crashed"
    /\ "bounds" \notin ub =>
          /\ \A line \in report : LineTrue(line) /\ ExcessExplained(line)
          /\ server = "analysing" =>
                {line.burst : line \in report} = {b \in Occupied(vec) : b < analysed}
    /\ ReportIsComplete
    /\ AnalysisCrashExplained

\* The bursts of an orderly store are those something arrived of.
LEMMA BurstsAreArrived ==
    ASSUME Filed
    PROVE  Occupied(vec) = {m.burst_num : m \in received}
<1>1. \A b \in Occupied(vec) : \E q \in received : q.burst_num = b
  BY DEF Filed, BurstFiled
<1>2. \A q \in received : q.burst_num \in Occupied(vec)
  BY DEF Filed, MessageFiled
<1> QED BY <1>1, <1>2

\* The server's steps keep what it printed true and complete.
LEMMA ReportKept ==
    ASSUME RecorderAssumption, SenderInv, ServerTypes, FiledInv, ReportInv,
           ServerNext, ~ReceiveTooLong
    PROVE  ReportInv'
<1>1. CASE ReceivePacket
  <2>1. /\ server = "receiving" /\ server' \in {"receiving", "crashed"}
        /\ ub' \subseteq ub \cup {"bounds"}
        /\ report' = report /\ analysed' = analysed
    <3>1. PICK i \in 1..Len(wire), p \in Nat, alloc \in Seq(BurstData) :
                /\ StoredAt(wire[i], p, alloc)
                /\ \/ ub' = ub /\ server' = server
                   \/ ub' = ub \cup {"bounds"} /\ server' \in {"receiving", "crashed"}
                /\ UNCHANGED <<analysed, report>>
      BY <1>1, ReceiveShape
    <3>2. server = "receiving"
      BY <3>1 DEF StoredAt
    <3> QED BY <3>1, <3>2
  <2>2. report' = {} /\ analysed' = 0 /\ "null" \notin ub'
    BY <2>1 DEF ReportInv
  <2> QED BY <2>1, <2>2 DEF ReportInv, ReportIsComplete, AnalysisCrashExplained
<1>2. CASE StopReceiving
  <2>1. /\ server = "receiving" /\ server' = "analysing" /\ ub' = ub
        /\ report' = {} /\ analysed' = 0 /\ vec' = vec
    BY <1>2 DEF StopReceiving, ReportInv, storeVars
  <2>2. {b \in Occupied(vec) : b < 0} = {}
    <3>1. Occupied(vec) \subseteq Nat
      BY EntryType
    <3> QED BY <3>1
  <2>3. "null" \notin ub'
    BY <2>1 DEF ReportInv
  <2> QED BY <2>1, <2>2, <2>3 DEF ReportInv, ReportIsComplete, AnalysisCrashExplained
<1>3. CASE SkipSlot
  <2>1. /\ server = "analysing" /\ server' = server /\ ub' = ub /\ report' = report
        /\ analysed \notin Occupied(vec) /\ analysed' = analysed + 1
        /\ vec' = vec /\ received' = received
    BY <1>3 DEF SkipSlot, storeVars, Occupied
  <2>2. \A b \in Occupied(vec) : b < analysed' <=> b < analysed
    <3>1. Occupied(vec) \subseteq Nat /\ analysed \in Nat
      BY EntryType DEF ServerTypes
    <3> QED BY <2>1, <3>1
  <2>3. "null" \notin ub'
    BY <2>1 DEF ReportInv
  <2>4. \A line : /\ LineTrue(line)' <=> LineTrue(line)
                  /\ ExcessExplained(line)' <=> ExcessExplained(line)
    BY <2>1 DEF LineTrue, ExcessExplained, Arrived
  <2> QED BY <2>1, <2>2, <2>3, <2>4 DEF ReportInv, ReportIsComplete, AnalysisCrashExplained
<1>4. CASE AnalyseBurst
  <2> DEFINE line == LineOf(analysed, heap[vec.data[analysed]])
  <2>1. /\ server = "analysing" /\ server' = server /\ ub' = ub
        /\ report' = report \cup {line}
        /\ analysed' = analysed + 1
        /\ vec' = vec /\ received' = received
    BY <1>4 DEF AnalyseBurst, storeVars
  <2>2. analysed \in Occupied(vec)
    <3>1. vec.size \in Nat /\ analysed \in Nat
      BY VectorShape DEF ServerTypes
    <3> QED BY <1>4, <3>1 DEF AnalyseBurst, Occupied
  <2>3. \A b \in Occupied(vec) : b < analysed' <=> (b < analysed \/ b = analysed)
    <3>1. Occupied(vec) \subseteq Nat /\ analysed \in Nat
      BY EntryType DEF ServerTypes
    <3> QED BY <2>1, <3>1
  <2>4. "null" \notin ub'
    BY <2>1 DEF ReportInv
  <2>5. \A l : /\ LineTrue(l)' <=> LineTrue(l)
               /\ ExcessExplained(l)' <=> ExcessExplained(l)
    BY <2>1 DEF LineTrue, ExcessExplained, Arrived
  <2>6. "bounds" \notin ub => LineTrue(line) /\ ExcessExplained(line)
    <3> SUFFICES ASSUME "bounds" \notin ub PROVE LineTrue(line) /\ ExcessExplained(line)
      OBVIOUS
    <3>1. Filed
      BY <2>1 DEF FiledInv
    <3> QED BY <2>2, <3>1, LineIsTrue, LineExcess
  <2>7. line.burst = analysed
    BY DEF LineOf
  <2> HIDE DEF line
  <2>8. "bounds" \notin ub' =>
          {l.burst : l \in report'} = {b \in Occupied(vec') : b < analysed'}
    BY <2>1, <2>2, <2>3, <2>7 DEF ReportInv
  <2>9. "bounds" \notin ub' => \A l \in report' : LineTrue(l)' /\ ExcessExplained(l)'
    BY <2>1, <2>5, <2>6 DEF ReportInv
  <2> QED BY <2>1, <2>4, <2>8, <2>9 DEF ReportInv, ReportIsComplete, AnalysisCrashExplained
<1>5. CASE AnalyseCrash
  <2>1. /\ server = "analysing" /\ server' = "crashed" /\ ub' = ub \cup {"null"}
        /\ report' = report /\ received' = received
        /\ Capacity(heap[vec.data[analysed]].messages) = 0
    BY <1>5 DEF AnalyseCrash, storeVars
  <2>2. analysed \in Occupied(vec)
    <3>1. vec.size \in Nat /\ analysed \in Nat
      BY VectorShape DEF ServerTypes
    <3> QED BY <1>5, <3>1 DEF AnalyseCrash, Occupied
  <2>3. \A l : /\ LineTrue(l)' <=> LineTrue(l)
               /\ ExcessExplained(l)' <=> ExcessExplained(l)
    BY <2>1 DEF LineTrue, ExcessExplained, Arrived
  <2>4. AnalysisCrashExplained'
    <3> SUFFICES ASSUME "bounds" \notin ub'
                 PROVE  \/ TestMode = 1 /\ TestQueueLen = 0
                        \/ \E m \in received :
                              \A q \in received : q.burst_num = m.burst_num => q.seq_num # 0
      BY <2>1 DEF AnalysisCrashExplained
    <3>1. Filed
      BY <2>1 DEF FiledInv
    <3> DEFINE line == LineOf(analysed, heap[vec.data[analysed]])
    <3>2. LineTrue(line) /\ line.capacity = 0 /\ line.burst = analysed
      BY <2>1, <2>2, <3>1, LineIsTrue DEF LineOf
    <3>3. 0 \notin Arrived(analysed) \/ (TestMode = 1 /\ TestQueueLen = 0)
      BY <3>2 DEF LineTrue
    <3>4. PICK m \in received : m.burst_num = analysed
      BY <2>2, <3>1, BurstsAreArrived
    <3> QED BY <3>3, <3>4 DEF Arrived
  <2> QED BY <2>1, <2>3, <2>4 DEF ReportInv, ReportIsComplete
<1>6. CASE FreeBurstData
  <2>1. /\ server = "analysing" /\ analysed = vec.size /\ server' = "ended"
        /\ report' = report /\ received' = received /\ ub' = ub
    BY <1>6 DEF FreeBurstData
  <2>2. {b \in Occupied(vec) : b < analysed} = Occupied(vec)
    <3>1. vec.size \in Nat
      BY VectorShape DEF ServerTypes
    <3> QED BY <2>1, <3>1 DEF Occupied
  <2>3. ReportIsComplete'
    <3> SUFFICES ASSUME "bounds" \notin ub
                 PROVE  {line.burst : line \in report} = {m.burst_num : m \in received}
      BY <2>1 DEF ReportIsComplete
    <3>1. Filed
      BY <2>1 DEF FiledInv
    <3> QED BY <2>1, <2>2, <3>1, BurstsAreArrived DEF ReportInv
  <2>4. "null" \notin ub'
    BY <2>1 DEF ReportInv
  <2>5. \A l : /\ LineTrue(l)' <=> LineTrue(l)
               /\ ExcessExplained(l)' <=> ExcessExplained(l)
    BY <2>1 DEF LineTrue, ExcessExplained, Arrived
  <2> QED BY <2>1, <2>3, <2>4, <2>5 DEF ReportInv, AnalysisCrashExplained
<1> QED BY <1>1, <1>2, <1>3, <1>4, <1>5, <1>6 DEF ServerNext

-----------------------------------------------------------------------------
(* The theorems.                                                           *)

\* The inductive invariant.
IInv == SenderInv /\ ServerTypes /\ FiledInv /\ ReportInv

\* It holds at the start.
LEMMA InitHolds ==
    ASSUME RecorderAssumption, Init
    PROVE  IInv
<1> USE DEF Init
<1>1. NULL \notin Nat /\ MaxRuns \in Nat /\ MaxDuplicates \in Nat
  BY DEF RecorderAssumption
<1>2. SenderInv
  <2>1. wire = <<>> /\ Len(wire) = 0 /\ wire \in Seq(ProbeType) /\ received = {}
    OBVIOUS
  <2>2. AllProbes = {}
    BY <2>1 DEF AllProbes
  <2>3. ProbesAgree
    BY <2>2 DEF ProbesAgree
  <2>4. params.num_bursts = 0
    BY DEF NoParams
  <2>5. /\ run \in 0..MaxRuns /\ duplicates \in 0..MaxDuplicates
        /\ send_burst \in 0..params.num_bursts /\ burst_len \in Nat /\ seq_num \in 0..burst_len
    BY <1>1, <2>4
  <2>6. sender = "ended" /\ params \in Params \cup {NoParams} /\ stopping \in BOOLEAN
    OBVIOUS
  <2> HIDE DEF Init
  <2> QED BY <2>1, <2>3, <2>5, <2>6 DEF SenderInv
<1>3. /\ vec \in VectorsOf(1..Len(heap)) /\ vec.size = 0
      /\ Occupied(vec) = {}
  <2>1. 0 \in Nat
    OBVIOUS
  <2> QED BY <2>1, VectorInit
<1>4. ServerTypes
  BY <1>3 DEF ServerTypes
<1>5. FiledInv
  BY <1>3 DEF FiledInv, Filed
<1>6. ReportInv
  BY DEF ReportInv, ReportIsComplete, AnalysisCrashExplained
<1> QED BY <1>2, <1>4, <1>5, <1>6 DEF IInv

\* What is said of the server holds while it rests.
LEMMA ServerRests ==
    ASSUME ServerTypes, FiledInv, ReportInv, serverVars' = serverVars
    PROVE  ServerTypes' /\ FiledInv' /\ ReportInv'
<1>1. /\ server' = server /\ burst_num' = burst_num /\ bd' = bd /\ vec' = vec /\ heap' = heap
      /\ analysed' = analysed /\ report' = report /\ received' = received /\ ub' = ub
  BY DEF serverVars, storeVars
<1>2. ServerTypes'
  BY <1>1 DEF ServerTypes
<1>3. FiledInv'
  <2>1. Filed => Filed'
    BY <1>1, FiledSame DEF storeVars
  <2> QED BY <1>1, <2>1 DEF FiledInv
<1>4. ReportInv'
  BY <1>1 DEF ReportInv, LineTrue, ExcessExplained, Arrived, ReportIsComplete,
              AnalysisCrashExplained
<1> QED BY <1>2, <1>3, <1>4

\* Every step preserves it.
LEMMA StepKeeps ==
    ASSUME RecorderAssumption, IInv, [Next]_vars
    PROVE  IInv'
<1> USE DEF IInv
<1>1. CASE SenderNext
  <2>1. SenderInv' /\ serverVars' = serverVars
    BY <1>1, SenderStep
  <2> QED BY <2>1, ServerRests
<1>2. CASE ServerNext /\ ~ReceiveTooLong
  <2>1. SenderInv' /\ ServerTypes'
    BY <1>2, SenderKept, TypesKept
  <2> QED BY <1>2, <2>1, FiledKept, ReportKept
<1>3. CASE ReceiveTooLong
  <2>1. SenderInv' /\ serverVars' = serverVars
    BY <1>3, TooLongLost
  <2> QED BY <2>1, ServerRests
<1>4. CASE UNCHANGED vars
  <2>1. SenderInv'
    BY <1>4 DEF vars, senderVars, wireVars, serverVars, storeVars, SenderInv, ProbesAgree, AllProbes
  <2>2. serverVars' = serverVars
    BY <1>4 DEF vars
  <2> QED BY <2>1, <2>2, ServerRests
<1> QED BY <1>1, <1>2, <1>3, <1>4 DEF Next

\* The invariant is inductive, so it holds of every behaviour.
LEMMA InvariantHolds == Spec => []IInv
<1>1. Init => IInv
  BY RecorderAssumption, InitHolds
<1>2. IInv /\ [Next]_vars => IInv'
  BY RecorderAssumption, StepKeeps
<1> QED BY <1>1, <1>2, PTL DEF Spec

\* A vector is what TypeOK says.
LEMMA VectorIs ==
    ASSUME NEW E, NEW v \in VectorsOf(E)
    PROVE  IsVector(v, E)
BY VectorShape DEF IsVector

\* The state of client and server has its types, whatever the server wrote
\* outside its vectors.
THEOREM TypeCorrect == Spec => []TypeOK
<1>1. IInv => TypeOK
  <2> SUFFICES ASSUME IInv PROVE TypeOK
    OBVIOUS
  <2>1. IsVector(vec, 1..Len(heap))
    BY VectorIs DEF IInv, ServerTypes
  <2>2. ASSUME NEW p \in 1..Len(heap)
        PROVE  heap[p].burst_len \in Nat /\ IsVector(heap[p].messages, ProbeType)
    <3>1. heap[p] \in BurstData
      BY DEF IInv, ServerTypes
    <3> QED BY <3>1, VectorIs DEF BurstData
  <2> QED BY <2>1, <2>2 DEF IInv, SenderInv, ServerTypes, TypeOK
<1> QED BY <1>1, InvariantHolds, PTL

\* What the server keeps is what arrived, each message under the numbers of
\* its header, as long as no write left a vector.
THEOREM StoreCorrect == Spec => []StoreIsWhatArrived
<1>1. IInv => StoreIsWhatArrived
  BY DEF IInv, FiledInv, Filed, BurstFiled, MessageFiled, StoreIsWhatArrived
<1> QED BY <1>1, InvariantHolds, PTL

\* The analysis follows a null pointer only in a burst whose first message
\* did not arrive, or with a simulated queue of no length.
THEOREM CrashExplained == Spec => []AnalysisCrashExplained
<1>1. IInv => AnalysisCrashExplained
  BY DEF IInv, ReportInv
<1> QED BY <1>1, InvariantHolds, PTL

\* A line printed counts what arrived, and its capacity ends at the first
\* message that did not.
THEOREM LinesTrue == Spec => []LinesAreRealLoss
<1>1. IInv => LinesAreRealLoss
  BY DEF IInv, ReportInv, LineTrue, LinesAreRealLoss
<1> QED BY <1>1, InvariantHolds, PTL

\* More messages than the burst has come from two clients.
THEOREM ExcessOfTwo == Spec => []ExcessNeedsTwoRuns
<1>1. IInv => ExcessNeedsTwoRuns
  BY DEF IInv, ReportInv, ExcessExplained, ExcessNeedsTwoRuns
<1> QED BY <1>1, InvariantHolds, PTL

\* A server that ends by itself printed a line for each burst it saw.
THEOREM ReportComplete == Spec => []ReportIsComplete
<1>1. IInv => ReportIsComplete
  BY DEF IInv, ReportInv
<1> QED BY <1>1, InvariantHolds, PTL

\* A burst number past the doubled vector leaves at least two before it that
\* were not seen.
LEMMA JumpSkipsTwo ==
    ASSUME RecorderAssumption, ServerTypes, Filed, NEW b \in Nat, OutOfBounds(vec, b)
    PROVE  Cardinality({c \in 0..(b - 1) : \A q \in received : q.burst_num # c}) >= 2
<1> DEFINE s      == vec.size
           unseen == {c \in 0..(b - 1) : \A q \in received : q.burst_num # c}
<1>1. s \in Nat /\ s # 1 /\ vec \in VectorsOf(1..Len(heap))
  BY VectorShape DEF ServerTypes
<1>2. b >= s
  BY <1>1 DEF OutOfBounds, Room
<1>3. Room(vec, b).size = IF s = 0 THEN 2 ELSE 2 * s
  BY <1>1, <1>2, VectorRoom
<1>4. b >= (IF s = 0 THEN 2 ELSE 2 * s)
  BY <1>3 DEF OutOfBounds
<1>5. s + 1 <= b - 1
  <2> HIDE DEF s
  <2>1. CASE s = 0
    BY <1>4, <2>1
  <2>2. CASE s >= 2
    BY <1>1, <1>4, <2>2
  <2> QED BY <1>1, <2>1, <2>2
<1>6. \A q \in received : q.burst_num \in 0..(s - 1)
  BY DEF Filed, MessageFiled, Occupied
<1>7. s \in unseen /\ s + 1 \in unseen
  <2> HIDE DEF s
  <2>1. s \in 0..(b - 1) /\ s + 1 \in 0..(b - 1)
    BY <1>1, <1>5
  <2>2. \A q \in received : q.burst_num # s /\ q.burst_num # s + 1
    BY <1>1, <1>6
  <2> QED BY <2>1, <2>2 DEF s
<1> HIDE DEF s
<1>8. IsFiniteSet(0..(b - 1)) /\ unseen \subseteq 0..(b - 1)
  <2>1. 0 \in Int /\ b - 1 \in Int
    OBVIOUS
  <2> QED BY <2>1, FS_Interval
<1> HIDE DEF unseen
<1>9. IsFiniteSet(unseen)
  BY <1>8, FS_Subset
<1>10. Cardinality({s} \cup {s + 1}) = 2 /\ IsFiniteSet({s} \cup {s + 1})
  <2>1. IsFiniteSet({s}) /\ Cardinality({s}) = 1
    BY FS_Singleton
  <2>2. s + 1 \notin {s}
    BY <1>1
  <2>3. /\ IsFiniteSet({s} \cup {s + 1})
        /\ Cardinality({s} \cup {s + 1}) = Cardinality({s}) + 1
    BY <2>1, <2>2, FS_AddElement
  <2>4. Cardinality({s} \cup {s + 1}) = 1 + 1
    BY <2>1, <2>3, Zenon
  <2>5. 1 + 1 = 2
    OBVIOUS
  <2> QED BY <2>3, <2>4, <2>5, Zenon
<1>11. Cardinality({s} \cup {s + 1}) <= Cardinality(unseen)
  <2>1. ({s} \cup {s + 1}) \in SUBSET unseen
    BY <1>7
  <2> QED BY <1>9, <2>1, FS_Subset
<1>12. Cardinality(unseen) \in Nat
  BY <1>9, FS_CardinalityType
<1> QED BY <1>10, <1>11, <1>12 DEF unseen

\* A sequence number past the slots of its burst is of another client's
\* longer burst.
LEMMA SlotOfAnother ==
    ASSUME RecorderAssumption, SenderInv, ServerTypes, Filed,
           NEW m \in ProbeType, m \in AllProbes, NEW p \in Nat, NEW alloc \in Seq(BurstData),
           StoredAt(m, p, alloc), OutOfBounds(alloc[p].messages, m.seq_num)
    PROVE  \E q \in received : /\ q.run # m.run
                               /\ q.burst_num = m.burst_num
                               /\ q.burst_len < m.burst_len
<1> DEFINE slots == alloc[p].messages
<1>1. m.seq_num \in Nat /\ m.burst_len \in Nat /\ m.seq_num < m.burst_len
  BY DEF ProbeType, SenderInv, ProbesAgree
<1>2. slots \in VectorsOf(ProbeType) /\ slots.size \in Nat
  BY VectorShape DEF StoredAt, BurstData
<1>3. m.seq_num >= slots.size
  <2> HIDE DEF slots
  <2>1. Room(slots, m.seq_num) \in VectorsOf(ProbeType) /\ Room(slots, m.seq_num).size >= slots.size
    BY <1>1, <1>2, VectorRoom
  <2>2. Room(slots, m.seq_num).size \in Nat
    BY <2>1, VectorShape
  <2>3. m.seq_num >= Room(slots, m.seq_num).size
    BY DEF OutOfBounds, slots
  <2> QED BY <1>1, <1>2, <2>1, <2>2, <2>3
<1>4. CASE Lookup(m) = NULL /\ alloc[p] = NewBurstData(m)
  <2>1. slots.size = m.burst_len
    BY <1>4 DEF NewBurstData, vector_init
  <2> QED BY <1>1, <1>3, <2>1
<1>5. CASE Lookup(m) = p /\ alloc = heap
  <2>1. m.burst_num \in Occupied(vec) /\ vec.data[m.burst_num] = p
    <3>1. Lookup(m) # NULL
      BY <1>5, NullIsNothing
    <3> QED BY <1>5, <3>1, LookupFinds
  <2>2. PICK q \in received : q.burst_num = m.burst_num /\ slots.size >= q.burst_len
    <3>1. BurstFiled(m.burst_num)
      BY <2>1 DEF Filed
    <3> QED BY <1>5, <2>1, <3>1 DEF BurstFiled
  <2>3. q \in AllProbes /\ q.burst_len \in Nat
    BY DEF AllProbes, ServerTypes, ProbeType
  <2>4. q.burst_len < m.burst_len
    <3> DEFINE size == slots.size
               announced == q.burst_len
               slot == m.seq_num
               len == m.burst_len
    <3>1. slot \in Nat /\ len \in Nat /\ slot < len
      BY <1>1
    <3>2. size \in Nat /\ slot >= size
      BY <1>2, <1>3
    <3>3. announced \in Nat /\ size >= announced
      BY <2>2, <2>3
    <3> HIDE DEF size, announced, slot, len
    <3>4. announced < len
      BY <3>1, <3>2, <3>3, LengthsApart
    <3> QED BY <3>4 DEF announced, len
  <2>5. q.run # m.run
    BY <1>1, <2>2, <2>3, <2>4 DEF SenderInv, ProbesAgree
  <2> QED BY <2>2, <2>4, <2>5
<1> QED BY <1>4, <1>5 DEF StoredAt

\* A write leaves a vector only when the burst numbers jump, or when two
\* clients send bursts of different lengths under one number.
THEOREM WildWriteNeedsJump == Spec => WildWriteExplained
<1> DEFINE Jumps(m) == Cardinality({b \in 0..(m.burst_num - 1) :
                                       \A q \in received : q.burst_num # b}) >= 2
           Longer(m) == \E q \in received : /\ q.run # m.run
                                            /\ q.burst_num = m.burst_num
                                            /\ q.burst_len < m.burst_len
<1>1. ASSUME IInv, [Next]_vars
      PROVE  [\A m \in received' \ received :
                ("bounds" \in ub' \ ub) => Jumps(m) \/ Longer(m)]_vars
  <2> SUFFICES ASSUME Next, NEW m \in received' \ received, "bounds" \in ub' \ ub
               PROVE  Jumps(m) \/ Longer(m)
    BY <1>1
  <2>1. CASE ReceivePacket
    <3>1. PICK i \in 1..Len(wire), p \in Nat, alloc \in Seq(BurstData) :
              /\ wire[i] \in ProbeType /\ wire[i] \in AllProbes
              /\ StoredAt(wire[i], p, alloc)
              /\ ub' = ub \/ Wild(wire[i], p, alloc)
      <4>1. SenderInv /\ ServerTypes
        BY <1>1 DEF IInv
      <4>2. \E i \in 1..Len(wire), p \in Nat, alloc \in Seq(BurstData) :
              /\ wire[i] \in ProbeType /\ wire[i] \in AllProbes
              /\ Arrives(i)
              /\ StoredAt(wire[i], p, alloc)
              /\ \/ ub' = ub /\ server' = server /\ ~Wild(wire[i], p, alloc)
                 \/ /\ ub' = ub \cup {"bounds"} /\ server' \in {"receiving", "crashed"}
                    /\ Wild(wire[i], p, alloc)
              /\ UNCHANGED <<analysed, report, senderVars>>
        BY <2>1, <4>1, RecorderAssumption, ReceiveShape
      <4> QED BY <4>2
    <3>2. m = wire[i] /\ Wild(m, p, alloc) /\ server = "receiving"
      BY <3>1 DEF StoredAt
    <3>3. Filed
      BY <1>1, <3>2 DEF IInv, FiledInv
    <3>4. CASE OutOfBounds(alloc[p].messages, m.seq_num)
      BY <1>1, <3>1, <3>2, <3>3, <3>4, RecorderAssumption, SlotOfAnother DEF IInv
    <3>5. CASE OutOfBounds(vec, m.burst_num)
      <4>1. m.burst_num \in Nat
        BY <3>1, <3>2 DEF ProbeType
      <4> QED BY <1>1, <3>3, <3>5, <4>1, RecorderAssumption, JumpSkipsTwo DEF IInv
    <3> QED BY <3>2, <3>4, <3>5 DEF Wild
  <2>2. CASE SenderNext
    <3>1. ub' = ub
      BY <1>1, <2>2, RecorderAssumption, SenderStep DEF IInv, serverVars
    <3> QED BY <3>1
  <2>3. CASE ServerNext /\ ~ReceivePacket
    BY <2>3 DEF ServerNext, ReceiveTooLong, StopReceiving, SkipSlot, AnalyseBurst, AnalyseCrash,
                FreeBurstData, serverVars
  <2> QED BY <2>1, <2>2, <2>3 DEF Next
<1>2. IInv /\ [Next]_vars
         => [\A m \in received' \ received :
               ("bounds" \in ub' \ ub)
                  => \/ Cardinality({b \in 0..(m.burst_num - 1) :
                                        \A q \in received : q.burst_num # b}) >= 2
                     \/ \E q \in received : /\ q.run # m.run
                                            /\ q.burst_num = m.burst_num
                                            /\ q.burst_len < m.burst_len]_vars
  BY <1>1
<1> QED BY <1>2, InvariantHolds, PTL DEF Spec, WildWriteExplained
=============================================================================
