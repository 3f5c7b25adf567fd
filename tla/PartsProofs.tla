---------------------------- MODULE PartsProofs ----------------------------
(***************************************************************************)
(* Proofs about the parts that keep to themselves: the map, as a size and  *)
(* as stacks, for any keys and values; the constant bit rate tools, for    *)
(* any base and any number of digits; and the types of all of them side by *)
(* side.                                                                   *)
(***************************************************************************)
EXTENDS MCParts, BurstAnalysisProofs

-----------------------------------------------------------------------------
(* The size of the map.                                                    *)

\* A set of numbers with a member has a least one.
LEMMA LeastPlace ==
    ASSUME NEW S, S \subseteq Nat, S # {}
    PROVE  \E i \in S : \A j \in S : i <= j
BY MinOfNaturals

\* The loops of map_remove and map_get end at an element of the list.
LEMMA FirstIsPlace ==
    ASSUME NEW key, elements \in Seq(Element), Places(key) # {}
    PROVE  First(key) \in 1..Len(elements)
<1>1. Places(key) \subseteq Nat /\ Places(key) \subseteq 1..Len(elements)
  BY DEF Places
<1>2. \E i \in Places(key) : \A j \in Places(key) : i <= j
  BY <1>1, LeastPlace
<1>3. First(key) \in Places(key)
  BY <1>2, Zenon DEF First
<1> QED BY <1>1, <1>3

\* Without one of its elements a list is shorter by one.
LEMMA RemoveAtShortens ==
    ASSUME NEW S, NEW s \in Seq(S), NEW i \in 1..Len(s)
    PROVE  RemoveAt(s, i) \in Seq(S) /\ Len(RemoveAt(s, i)) = Len(s) - 1
<1> DEFINE front == SubSeq(s, 1, i - 1)
           back  == SubSeq(s, i + 1, Len(s))
<1>1. front \in Seq(S) /\ Len(front) = i - 1
  BY SubSeqProperties
<1>2. back \in Seq(S) /\ Len(back) = Len(s) - i
  BY SubSeqProperties
<1>3. RemoveAt(s, i) = front \o back
  BY DEF RemoveAt
<1>4. Len(s) \in Nat
  OBVIOUS
<1> HIDE DEF front, back
<1>5. front \o back \in Seq(S) /\ Len(front \o back) = Len(front) + Len(back)
  BY <1>1, <1>2, ConcatProperties
<1>6. Len(front) + Len(back) = Len(s) - 1
  BY <1>1, <1>2, <1>4
<1> QED BY <1>3, <1>5, <1>6

-----------------------------------------------------------------------------
\* What the size counts, and what MapTypeOK needs beside it: popping leaves
\* the size as it was, so pops and elements share its bound.
CountInv ==
    /\ MapTypeOK
    /\ SizeCountsPops

\* The functions that put an element or take one away preserve it,
LEMMA PutPreserves ==
    ASSUME CountInv, NEW key \in Keys, NEW value \in Values, map_put(key, value),
           UNCHANGED map_crashed
    PROVE  CountInv'
<1> DEFINE e == [key |-> key, value |-> value]
<1>1. /\ elements' = <<e>> \o elements /\ size' = size + 1 /\ size < MaxSize
      /\ UNCHANGED <<result, pops, map_crashed>>
  BY DEF map_put
<1>2. elements \in Seq(Element) /\ <<e>> \in Seq(Element) /\ Len(<<e>>) = 1
  BY DEF CountInv, MapTypeOK, Element
<1>3. elements' \in Seq(Element) /\ Len(elements') = Len(elements) + 1
  <2> HIDE DEF e
  <2> QED BY <1>1, <1>2, ConcatProperties
<1>4. size' \in 0..MaxSize
  BY <1>1, MapAssumption DEF CountInv, MapTypeOK
<1> QED BY <1>1, <1>3, <1>4 DEF CountInv, MapTypeOK, SizeCountsPops

\* both ways the removal of a key ends,
LEMMA RemovePreserves ==
    ASSUME CountInv, NEW key \in Keys, map_remove(key), UNCHANGED map_crashed
    PROVE  CountInv'
<1>1. CASE Places(key) = {}
  BY <1>1 DEF map_remove, CountInv, MapTypeOK, SizeCountsPops
<1>2. CASE Places(key) # {}
  <2>1. /\ result' = elements[First(key)].value
        /\ elements' = RemoveAt(elements, First(key))
        /\ size' = size - 1 /\ UNCHANGED <<pops, map_crashed>>
    BY <1>2 DEF map_remove
  <2>2. elements \in Seq(Element) /\ size = Len(elements) + pops
    BY DEF CountInv, MapTypeOK, SizeCountsPops
  <2>3. First(key) \in 1..Len(elements)
    BY <1>2, <2>2, FirstIsPlace
  <2>4. elements' \in Seq(Element) /\ Len(elements') = Len(elements) - 1
    BY <2>1, <2>2, <2>3, RemoveAtShortens
  <2>5. elements[First(key)] \in Element
    BY <2>2, <2>3
  <2>6. result' \in Values
    BY <2>1, <2>5 DEF Element
  <2>7. size \in 0..MaxSize /\ pops \in Nat /\ Len(elements) \in Nat
    BY <2>2 DEF CountInv, MapTypeOK
  <2>8. size' \in 0..MaxSize
    <3>1. Len(elements) >= 1
      BY <2>3, <2>7
    <3>2. size >= 1 /\ size' = size - 1
      BY <2>1, <2>2, <2>7, <3>1
    <3> QED BY <2>7, <3>2, MapAssumption
  <2> QED BY <2>1, <2>2, <2>4, <2>6, <2>7, <2>8 DEF CountInv, MapTypeOK, SizeCountsPops
<1> QED BY <1>1, <1>2

\* and a pop, which the size does not notice.
LEMMA PopPreserves ==
    ASSUME CountInv, map_pop, UNCHANGED map_crashed
    PROVE  CountInv'
<1>1. /\ elements # <<>> /\ result' = Head(elements).value /\ elements' = Tail(elements)
      /\ pops' = pops + 1 /\ UNCHANGED <<size, map_crashed>>
  BY DEF map_pop
<1>2. elements \in Seq(Element) /\ size = Len(elements) + pops /\ size \in 0..MaxSize
      /\ pops \in Nat
  BY DEF CountInv, MapTypeOK, SizeCountsPops
<1>3. /\ Head(elements) \in Element /\ elements' \in Seq(Element)
      /\ Len(elements') = Len(elements) - 1 /\ Len(elements') \in Nat
  BY <1>1, <1>2, HeadTailProperties
<1>4. result' \in Values
  BY <1>1, <1>3 DEF Element
<1>5. pops' \in 0..MaxSize /\ size' = Len(elements') + pops'
  BY <1>1, <1>2, <1>3, MapAssumption
<1> QED BY <1>1, <1>3, <1>4, <1>5 DEF CountInv, MapTypeOK, SizeCountsPops

\* All functions preserve it.
LEMMA CountPreserved == CountInv /\ [MapNext]_mapVars => CountInv'
<1> SUFFICES ASSUME CountInv, [MapNext]_mapVars PROVE CountInv'
  OBVIOUS
<1>1. CASE map_clear /\ UNCHANGED map_crashed
  BY <1>1, MapAssumption DEF map_clear, CountInv, MapTypeOK, SizeCountsPops
<1>2. ASSUME NEW key \in Keys, map_get(key), UNCHANGED map_crashed PROVE CountInv'
  <2>1. CASE Places(key) = {}
    BY <1>2, <2>1 DEF map_get, CountInv, MapTypeOK, SizeCountsPops
  <2>2. CASE Places(key) # {}
    <3>1. elements \in Seq(Element)
      BY DEF CountInv, MapTypeOK
    <3>2. First(key) \in 1..Len(elements)
      BY <2>2, <3>1, FirstIsPlace
    <3>3. elements[First(key)] \in Element
      BY <3>1, <3>2
    <3>4. result' \in Values
      BY <1>2, <2>2, <3>3 DEF map_get, Element
    <3> QED BY <1>2, <3>4 DEF map_get, CountInv, MapTypeOK, SizeCountsPops
  <2> QED BY <2>1, <2>2
<1>3. CASE map_pop_Empty
  BY <1>3 DEF map_pop_Empty, CountInv, MapTypeOK, SizeCountsPops
<1>4. CASE UNCHANGED mapVars
  BY <1>4 DEF mapVars, CountInv, MapTypeOK, SizeCountsPops
<1>5. CASE MapCall /\ UNCHANGED map_crashed
  BY <1>1, <1>2, <1>5, PutPreserves, RemovePreserves, PopPreserves DEF MapCall
<1> QED BY <1>3, <1>4, <1>5 DEF MapNext

\* It holds of the empty map.
LEMMA CountInitially == MapInit => CountInv
<1> SUFFICES ASSUME MapInit PROVE CountInv
  OBVIOUS
<1>1. elements = <<>> /\ size = 0 /\ pops = 0 /\ result = NoValue
  BY DEF MapInit
<1>2. map_crashed \in BOOLEAN
  BY Zenon DEF MapInit
<1>3. elements \in Seq(Element) /\ Len(elements) = 0
  BY <1>1
<1> QED BY <1>1, <1>2, <1>3, MapAssumption DEF CountInv, MapTypeOK, SizeCountsPops

\* The list, the size and the results keep their types: the values returned
\* are those of elements that were put.
THEOREM MapTyped == MapSpec => []MapTypeOK
<1>1. CountInv => MapTypeOK
  BY DEF CountInv
<1> QED BY <1>1, CountInitially, CountPreserved, PTL DEF MapSpec

\* Whatever is called in whatever order, the size exceeds the length of the
\* list by the number of pops since the map was last emptied as a whole.
THEOREM SizeExact == MapSpec => []SizeCountsPops
<1>1. CountInv => SizeCountsPops
  BY DEF CountInv
<1> QED BY <1>1, CountInitially, CountPreserved, PTL DEF MapSpec

-----------------------------------------------------------------------------
(* The map as stacks.  What is said of the list in a state is said here of *)
(* any list s, to relate the lists before and after a call.                *)

\* The places of a key, the n-th of a set of places, and the values there.
PlacesIn(s, key) == {i \in DOMAIN s : s[i].key = key}
UpTo(places, i) == {j \in places : j <= i}
Nth(places, n) == CHOOSE i \in places : Cardinality(UpTo(places, i)) = n
ValuesIn(s, key) ==
    [n \in 1..Cardinality(PlacesIn(s, key)) |-> s[Nth(PlacesIn(s, key), n)].value]

\* f lists m places in their order and leaves none out.
Lists(f, m, places) ==
    /\ f \in [1..m -> places]
    /\ \A i, j \in 1..m : i < j => f[i] < f[j]
    /\ \A p \in places : \E i \in 1..m : f[i] = p

\* The places have such a list.
Listed(places) == \E m \in Nat : \E f \in [1..m -> places] : Lists(f, m, places)

\* The first n places listed are n places.
LEMMA CountListed ==
    ASSUME NEW places, places \subseteq Nat, NEW m \in Nat, NEW f, Lists(f, m, places), NEW n \in 1..m
    PROVE  Cardinality(UpTo(places, f[n])) = n
<1> DEFINE below == {j \in places : j <= f[n]}
           g == [i \in 1..n |-> f[i]]
<1>1. \A i \in 1..m : f[i] \in places /\ f[i] \in Nat
  BY DEF Lists
<1>2. \A i \in 1..m : f[i] <= f[n] <=> i <= n
  <2> TAKE i \in 1..m
  <2>1. i < n => f[i] < f[n]
    BY DEF Lists
  <2>2. n < i => f[n] < f[i]
    BY DEF Lists
  <2> QED BY <1>1, <2>1, <2>2
<1>3. g \in [1..n -> below]
  BY <1>1, <1>2
<1>4. \A p \in below : \E i \in 1..n : g[i] = p
  <2> TAKE p \in below
  <2>1. PICK i \in 1..m : f[i] = p
    BY DEF Lists
  <2>2. i \in 1..n
    BY <1>2, <2>1
  <2> QED BY <2>1, <2>2
<1>5. \A i, j \in 1..n : g[i] = g[j] => i = j
  <2> TAKE i, j \in 1..n
  <2>1. i < j => f[i] < f[j]
    BY DEF Lists
  <2>2. j < i => f[j] < f[i]
    BY DEF Lists
  <2> QED BY <1>1, <2>1, <2>2
<1> HIDE DEF g, below
<1>6. g \in Surjection(1..n, below)
  BY <1>3, <1>4 DEF Surjection
<1>9. g \in Injection(1..n, below)
  BY <1>3, <1>5 DEF Injection, IsInjective
<1>7. IsFiniteSet(1..n) /\ Cardinality(1..n) = n
  BY FS_Interval
<1>8. Cardinality(below) = Cardinality(1..n)
  BY <1>6, <1>7, <1>9, FS_Surjection
<1> QED BY <1>7, <1>8 DEF below, UpTo

\* So the list is that of the n-th places for all n.
LEMMA NthListed ==
    ASSUME NEW places, places \subseteq Nat, NEW m \in Nat, NEW f, Lists(f, m, places)
    PROVE  Cardinality(places) = m /\ \A n \in 1..m : Nth(places, n) = f[n]
<1>1. Cardinality(places) = m
  <2>1. CASE m = 0
    <3>1. places = {}
      BY <2>1 DEF Lists
    <3> QED BY <2>1, <3>1, FS_EmptySet
  <2>2. CASE m # 0
    <3>1. m \in 1..m
      BY <2>2
    <3>2. UpTo(places, f[m]) = places
      <4> SUFFICES ASSUME NEW p \in places PROVE p <= f[m]
        BY DEF UpTo
      <4>1. PICK i \in 1..m : f[i] = p
        BY DEF Lists
      <4>2. f[m] \in Nat /\ f[i] \in Nat
        BY <3>1 DEF Lists
      <4>3. i < m => f[i] < f[m]
        BY <3>1 DEF Lists
      <4> QED BY <4>1, <4>2, <4>3
    <3>3. Cardinality(UpTo(places, f[m])) = m
      BY <3>1, CountListed
    <3> QED BY <3>2, <3>3
  <2> QED BY <2>1, <2>2
<1>3. ASSUME NEW n \in 1..m PROVE f[n] \in places /\ Cardinality(UpTo(places, f[n])) = n
  <2>1. Cardinality(UpTo(places, f[n])) = n
    BY CountListed
  <2> QED BY <2>1 DEF Lists
<1>2. ASSUME NEW n \in 1..m PROVE Nth(places, n) = f[n]
  <2>1. f[n] \in places /\ Cardinality(UpTo(places, f[n])) = n
    BY <1>3
  <2>2. ASSUME NEW p \in places, Cardinality(UpTo(places, p)) = n PROVE p = f[n]
    <3>1. PICK i \in 1..m : f[i] = p
      BY DEF Lists
    <3>2. Cardinality(UpTo(places, f[i])) = i
      BY <1>3
    <3> QED BY <2>2, <3>1, <3>2
  <2> QED BY <2>1, <2>2 DEF Nth
<1> QED BY <1>1, <1>2

\* The values under a key are those at the places listed.
LEMMA ValuesListed ==
    ASSUME NEW s \in Seq(Element), NEW key, NEW m \in Nat, NEW f, Lists(f, m, PlacesIn(s, key))
    PROVE  /\ ValuesIn(s, key) = [n \in 1..m |-> s[f[n]].value]
           /\ ValuesIn(s, key) \in Seq(Values) /\ Len(ValuesIn(s, key)) = m
           /\ \A n \in 1..m : f[n] \in 1..Len(s) /\ s[f[n]].key = key
                              /\ ValuesIn(s, key)[n] = s[f[n]].value
<1>1. PlacesIn(s, key) \subseteq Nat /\ PlacesIn(s, key) \subseteq 1..Len(s)
  BY DEF PlacesIn
<1>2. Cardinality(PlacesIn(s, key)) = m /\ \A n \in 1..m : Nth(PlacesIn(s, key), n) = f[n]
  BY <1>1, NthListed
<1>3. ValuesIn(s, key) = [n \in 1..m |-> s[f[n]].value]
  BY <1>2 DEF ValuesIn
<1>4. ASSUME NEW n \in 1..m
      PROVE  f[n] \in 1..Len(s) /\ s[f[n]].key = key /\ s[f[n]].value \in Values
  <2>1. f[n] \in PlacesIn(s, key)
    BY DEF Lists
  <2>2. f[n] \in 1..Len(s) /\ s[f[n]].key = key
    BY <1>1, <2>1 DEF PlacesIn
  <2>3. s[f[n]] \in Element
    BY <2>2
  <2> QED BY <2>2, <2>3 DEF Element
<1>5. [n \in 1..m |-> s[f[n]].value] \in [1..m -> Values]
  BY <1>4
<1>6. [n \in 1..m |-> s[f[n]].value] \in Seq(Values) /\ Len([n \in 1..m |-> s[f[n]].value]) = m
  BY <1>5
<1> QED BY <1>3, <1>4, <1>6

\* An element is put before the list: the values under its key have it on
\* top, those under other keys have moved.
LEMMA PutFirst ==
    ASSUME NEW s \in Seq(Element), NEW e \in Element, NEW key, Listed(PlacesIn(s, key))
    PROVE  LET t == <<e>> \o s
           IN  /\ Listed(PlacesIn(t, key))
               /\ ValuesIn(t, key) = IF key = e.key THEN <<e.value>> \o ValuesIn(s, key)
                                     ELSE ValuesIn(s, key)
<1> DEFINE t == <<e>> \o s
           n == Len(s)
<1>1. n \in Nat /\ t \in Seq(Element) /\ Len(t) = n + 1 /\ DOMAIN t = 1..(n + 1) /\ DOMAIN s = 1..n
  BY ConcatProperties
<1>2. t[1] = e /\ \A i \in 1..n : t[i + 1] = s[i]
  OBVIOUS
<1>0. PICK m \in Nat : \E f \in [1..m -> PlacesIn(s, key)] : Lists(f, m, PlacesIn(s, key))
  BY DEF Listed
<1>3. PICK f \in [1..m -> PlacesIn(s, key)] : Lists(f, m, PlacesIn(s, key))
  BY <1>0
<1>4. /\ ValuesIn(s, key) \in Seq(Values) /\ Len(ValuesIn(s, key)) = m
      /\ \A i \in 1..m : f[i] \in 1..n /\ s[f[i]].key = key /\ ValuesIn(s, key)[i] = s[f[i]].value
  BY <1>3, ValuesListed
<1>5. /\ \A i, j \in 1..m : i < j => f[i] < f[j]
      /\ \A p \in 1..n : s[p].key = key => \E i \in 1..m : f[i] = p
  BY <1>1, <1>3 DEF Lists, PlacesIn
<1> HIDE DEF t, n
<1>6. CASE key # e.key
  <2> DEFINE g == [i \in 1..m |-> f[i] + 1]
  <2>1. \A i \in 1..m : g[i] \in 1..(n + 1) /\ t[g[i]] = s[f[i]]
    BY <1>1, <1>2, <1>4
  <2>2. g \in [1..m -> PlacesIn(t, key)]
    BY <1>1, <1>4, <2>1 DEF PlacesIn
  <2>3. \A i, j \in 1..m : i < j => g[i] < g[j]
    BY <1>4, <1>5
  <2>4. \A p \in PlacesIn(t, key) : \E i \in 1..m : g[i] = p
    <3> SUFFICES ASSUME NEW p \in 1..(n + 1), t[p].key = key PROVE \E i \in 1..m : g[i] = p
      BY <1>1 DEF PlacesIn
    <3>1. p # 1
      BY <1>2, <1>6
    <3>2. p - 1 \in 1..n /\ (p - 1) + 1 = p
      BY <1>1, <3>1
    <3>3. s[p - 1].key = key
      BY <1>2, <3>2
    <3>4. PICK i \in 1..m : f[i] = p - 1
      BY <1>5, <3>2, <3>3
    <3> QED BY <3>2, <3>4
  <2>5. Lists(g, m, PlacesIn(t, key))
    <3> HIDE DEF g
    <3> QED BY <2>2, <2>3, <2>4 DEF Lists
  <2>6. ValuesIn(t, key) = [i \in 1..m |-> t[g[i]].value] /\ ValuesIn(s, key) = [i \in 1..m |-> s[f[i]].value]
    <3> HIDE DEF g
    <3> QED BY <1>1, <1>3, <2>5, ValuesListed
  <2>7. ValuesIn(t, key) = ValuesIn(s, key)
    <3> HIDE DEF g
    <3> QED BY <2>1, <2>6
  <2>8. Listed(PlacesIn(t, key))
    <3> HIDE DEF g
    <3> QED BY <2>2, <2>5 DEF Listed
  <2> QED BY <1>6, <2>7, <2>8 DEF t
<1>7. CASE key = e.key
  <2> DEFINE g == [i \in 1..(m + 1) |-> IF i = 1 THEN 1 ELSE f[i - 1] + 1]
  <2>1. g[1] = 1 /\ \A i \in 1..m : g[i + 1] = f[i] + 1
    OBVIOUS
  <2>2. \A i \in 1..(m + 1) : i = 1 \/ \E j \in 1..m : i = j + 1
    <3> TAKE i \in 1..(m + 1)
    <3>1. i = 1 \/ i - 1 \in 1..m
      OBVIOUS
    <3> QED BY <3>1
  <2>3. g \in [1..(m + 1) -> Int]
    <3>1. \A i \in 1..(m + 1) : i # 1 => f[i - 1] \in Int
      BY <1>4
    <3> QED BY <3>1
  <2> HIDE DEF g
  <2>4. \A i \in 1..(m + 1) : g[i] \in 1..(n + 1) /\ t[g[i]].key = key
    <3> TAKE i \in 1..(m + 1)
    <3>1. CASE i = 1
      BY <1>1, <1>2, <1>7, <2>1, <3>1
    <3>2. ASSUME NEW j \in 1..m, i = j + 1 PROVE g[i] \in 1..(n + 1) /\ t[g[i]].key = key
      <4>1. g[i] = f[j] + 1 /\ f[j] \in 1..n /\ s[f[j]].key = key
        BY <1>4, <2>1, <3>2
      <4> QED BY <1>1, <1>2, <4>1
    <3> QED BY <2>2, <3>1, <3>2
  <2>5. g \in [1..(m + 1) -> PlacesIn(t, key)]
    BY <1>1, <2>3, <2>4 DEF PlacesIn
  <2>6. \A i, j \in 1..(m + 1) : i < j => g[i] < g[j]
    <3> TAKE i, j \in 1..(m + 1)
    <3> HAVE i < j
    <3>1. PICK k \in 1..m : j = k + 1
      BY <2>2
    <3>2. g[j] = f[k] + 1 /\ f[k] \in 1..n
      BY <1>4, <2>1, <3>1
    <3>3. CASE i = 1
      BY <2>1, <3>2, <3>3, <1>1
    <3>4. ASSUME NEW l \in 1..m, i = l + 1 PROVE g[i] < g[j]
      <4>1. g[i] = f[l] + 1 /\ f[l] \in 1..n /\ l < k
        BY <1>4, <2>1, <3>1, <3>4
      <4>2. f[l] < f[k]
        BY <1>5, <4>1
      <4> QED BY <1>1, <3>2, <4>1, <4>2
    <3> QED BY <2>2, <3>3, <3>4
  <2>7. \A p \in PlacesIn(t, key) : \E i \in 1..(m + 1) : g[i] = p
    <3> SUFFICES ASSUME NEW p \in 1..(n + 1), t[p].key = key PROVE \E i \in 1..(m + 1) : g[i] = p
      BY <1>1 DEF PlacesIn
    <3>1. CASE p = 1
      BY <2>1, <3>1
    <3>2. CASE p # 1
      <4>1. p - 1 \in 1..n /\ (p - 1) + 1 = p
        BY <1>1, <3>2
      <4>2. s[p - 1].key = key
        BY <1>2, <4>1
      <4>3. PICK i \in 1..m : f[i] = p - 1
        BY <1>5, <4>1, <4>2
      <4>4. g[i + 1] = p /\ i + 1 \in 1..(m + 1)
        BY <2>1, <4>1, <4>3
      <4> QED BY <4>4
    <3> QED BY <3>1, <3>2
  <2>8. m + 1 \in Nat /\ Lists(g, m + 1, PlacesIn(t, key))
    BY <2>5, <2>6, <2>7 DEF Lists
  <2>9. /\ ValuesIn(t, key) \in Seq(Values) /\ Len(ValuesIn(t, key)) = m + 1
        /\ \A i \in 1..(m + 1) : ValuesIn(t, key)[i] = t[g[i]].value
    BY <1>1, <2>8, ValuesListed
  <2>10. e.value \in Values /\ <<e.value>> \in Seq(Values) /\ Len(<<e.value>>) = 1
    BY DEF Element
  <2> DEFINE v == <<e.value>> \o ValuesIn(s, key)
  <2>11. /\ v \in Seq(Values) /\ Len(v) = m + 1
         /\ v[1] = e.value /\ \A i \in 1..m : v[i + 1] = ValuesIn(s, key)[i]
    <3>1. /\ v \in Seq(Values) /\ Len(v) = 1 + m
          /\ \A i \in 1..(1 + m) : v[i] = IF i <= 1 THEN <<e.value>>[i] ELSE ValuesIn(s, key)[i - 1]
      BY <1>4, <2>10, ConcatProperties
    <3>2. v[1] = e.value
      BY <3>1
    <3>3. ASSUME NEW i \in 1..m PROVE v[i + 1] = ValuesIn(s, key)[i]
      <4>1. i + 1 \in 1..(1 + m) /\ ~(i + 1 <= 1) /\ (i + 1) - 1 = i
        OBVIOUS
      <4> HIDE DEF v
      <4> QED BY <3>1, <4>1
    <3> QED BY <3>1, <3>2, <3>3
  <2> HIDE DEF v
  <2>12. \A i \in 1..(m + 1) : ValuesIn(t, key)[i] = v[i]
    <3> TAKE i \in 1..(m + 1)
    <3>1. CASE i = 1
      BY <1>2, <2>1, <2>9, <2>11, <3>1
    <3>2. ASSUME NEW j \in 1..m, i = j + 1 PROVE ValuesIn(t, key)[i] = v[i]
      <4>1. g[i] = f[j] + 1 /\ f[j] \in 1..n /\ v[i] = s[f[j]].value
        BY <1>4, <2>1, <2>11, <3>2
      <4>2. t[g[i]] = s[f[j]]
        BY <1>2, <4>1
      <4> QED BY <2>9, <4>1, <4>2
    <3> QED BY <2>2, <3>1, <3>2
  <2>13. ValuesIn(t, key) = v
    BY <2>9, <2>11, <2>12, SeqEqual
  <2>14. Listed(PlacesIn(t, key))
    BY <2>5, <2>8 DEF Listed
  <2> QED BY <1>7, <2>13, <2>14 DEF t, v
<1> QED BY <1>6, <1>7

\* t is s without its i-th element, the first with its key.
Without(s, t, i) ==
    /\ t \in Seq(Element) /\ i \in 1..Len(s) /\ Len(t) = Len(s) - 1
    /\ \A j \in 1..Len(t) : t[j] = IF j < i THEN s[j] ELSE s[j + 1]
    /\ \A p \in 1..Len(s) : s[p].key = s[i].key => i <= p

\* The values under the key of that element have lost their top,
LEMMA TakeTop ==
    ASSUME NEW s \in Seq(Element), NEW t, NEW i, Without(s, t, i),
           NEW key, key = s[i].key, Listed(PlacesIn(s, key))
    PROVE  /\ Listed(PlacesIn(t, key))
           /\ ValuesIn(s, key) \in Seq(Values) /\ ValuesIn(s, key) # <<>>
           /\ Head(ValuesIn(s, key)) = s[i].value
           /\ ValuesIn(t, key) = Tail(ValuesIn(s, key))
<1> DEFINE n == Len(s)
<1>1. /\ n \in Nat /\ t \in Seq(Element) /\ i \in 1..n /\ Len(t) = n - 1
      /\ DOMAIN t = 1..(n - 1) /\ DOMAIN s = 1..n
      /\ \A j \in 1..(n - 1) : t[j] = IF j < i THEN s[j] ELSE s[j + 1]
      /\ \A p \in 1..n : s[p].key = key => i <= p
  BY DEF Without
<1>2. PICK m \in Nat : \E f \in [1..m -> PlacesIn(s, key)] : Lists(f, m, PlacesIn(s, key))
  BY DEF Listed
<1>3. PICK f \in [1..m -> PlacesIn(s, key)] : Lists(f, m, PlacesIn(s, key))
  BY <1>2
<1>4. /\ ValuesIn(s, key) \in Seq(Values) /\ Len(ValuesIn(s, key)) = m
      /\ \A j \in 1..m : f[j] \in 1..n /\ s[f[j]].key = key /\ ValuesIn(s, key)[j] = s[f[j]].value
  BY <1>3, ValuesListed
<1>5. /\ \A j, k \in 1..m : j < k => f[j] < f[k]
      /\ \A p \in 1..n : s[p].key = key => \E j \in 1..m : f[j] = p
  BY <1>1, <1>3 DEF Lists, PlacesIn
<1> HIDE DEF n
<1>6. 1 \in 1..m /\ f[1] = i
  <2>1. PICK k \in 1..m : f[k] = i
    BY <1>1, <1>5
  <2>2. 1 \in 1..m
    BY <2>1
  <2>3. i <= f[1] /\ f[1] \in 1..n
    BY <1>1, <1>4, <2>2
  <2>4. 1 < k => f[1] < f[k]
    BY <1>5, <2>2
  <2> QED BY <1>1, <2>1, <2>2, <2>3, <2>4
<1> DEFINE g == [j \in 1..(m - 1) |-> f[j + 1] - 1]
<1>7. m - 1 \in Nat /\ \A j \in 1..(m - 1) : j + 1 \in 1..m /\ g[j] = f[j + 1] - 1
  BY <1>6
<1>8. \A j \in 1..(m - 1) : f[j + 1] \in 1..n /\ i < f[j + 1]
  <2> TAKE j \in 1..(m - 1)
  <2>1. j + 1 \in 1..m /\ 1 < j + 1
    BY <1>6
  <2> QED BY <1>4, <1>5, <1>6, <2>1
<1>9. g \in [1..(m - 1) -> Int]
  BY <1>8
<1> HIDE DEF g
<1>10. \A j \in 1..(m - 1) : g[j] \in 1..(n - 1) /\ t[g[j]] = s[f[j + 1]]
  <2> TAKE j \in 1..(m - 1)
  <2>1. g[j] \in 1..(n - 1) /\ ~(g[j] < i) /\ g[j] + 1 = f[j + 1]
    BY <1>1, <1>7, <1>8
  <2> QED BY <1>1, <2>1
<1>11. g \in [1..(m - 1) -> PlacesIn(t, key)]
  <2>1. ASSUME NEW j \in 1..(m - 1) PROVE g[j] \in PlacesIn(t, key)
    <3>1. g[j] \in DOMAIN t /\ t[g[j]] = s[f[j + 1]]
      BY <1>1, <1>10
    <3>2. s[f[j + 1]].key = key
      BY <1>4, <1>7
    <3>3. t[g[j]].key = key
      BY <3>1, <3>2, Zenon
    <3> QED BY <3>1, <3>3 DEF PlacesIn
  <2> QED BY <1>9, <2>1
<1>12. \A j, k \in 1..(m - 1) : j < k => g[j] < g[k]
  <2> TAKE j, k \in 1..(m - 1)
  <2>1. j < k => f[j + 1] < f[k + 1]
    BY <1>5, <1>7
  <2> QED BY <1>7, <1>8, <2>1
<1>13. \A p \in PlacesIn(t, key) : \E j \in 1..(m - 1) : g[j] = p
  <2> SUFFICES ASSUME NEW p \in 1..(n - 1), t[p].key = key PROVE \E j \in 1..(m - 1) : g[j] = p
    BY <1>1 DEF PlacesIn
  <2>1. ~(p < i)
    <3> SUFFICES ASSUME p < i PROVE FALSE
      OBVIOUS
    <3>1. s[p].key = key /\ p \in 1..n
      BY <1>1
    <3> QED BY <1>1, <3>1
  <2>2. s[p + 1].key = key /\ p + 1 \in 1..n
    BY <1>1, <2>1
  <2>3. PICK k \in 1..m : f[k] = p + 1
    BY <1>5, <2>2
  <2>4. k # 1
    BY <1>1, <1>6, <2>1, <2>3
  <2>5. k - 1 \in 1..(m - 1) /\ (k - 1) + 1 = k
    BY <2>4
  <2>6. g[k - 1] = p
    BY <1>7, <2>3, <2>5
  <2> QED BY <2>5, <2>6
<1>14. Lists(g, m - 1, PlacesIn(t, key))
  BY <1>11, <1>12, <1>13 DEF Lists
<1>15. /\ ValuesIn(t, key) \in Seq(Values) /\ Len(ValuesIn(t, key)) = m - 1
       /\ \A j \in 1..(m - 1) : ValuesIn(t, key)[j] = t[g[j]].value
  BY <1>1, <1>7, <1>14, ValuesListed
<1> DEFINE v == ValuesIn(s, key)
<1>16. v \in Seq(Values) /\ v # <<>> /\ Len(v) = m /\ v[1] = s[i].value
  BY <1>4, <1>6
<1> HIDE DEF v
<1>17. /\ Head(v) = s[i].value /\ Tail(v) \in Seq(Values) /\ Len(Tail(v)) = m - 1
       /\ \A j \in 1..(m - 1) : Tail(v)[j] = v[j + 1]
  BY <1>16, HeadTailProperties
<1>18. \A j \in 1..(m - 1) : ValuesIn(t, key)[j] = Tail(v)[j]
  <2> TAKE j \in 1..(m - 1)
  <2>1. ValuesIn(s, key)[j + 1] = s[f[j + 1]].value
    BY <1>4, <1>7
  <2> QED BY <1>10, <1>15, <1>17, <2>1 DEF v
<1>19. ValuesIn(t, key) = Tail(v)
  BY <1>15, <1>17, <1>18, SeqEqual
<1>20. Listed(PlacesIn(t, key))
  BY <1>7, <1>11, <1>14 DEF Listed
<1> QED BY <1>16, <1>17, <1>19, <1>20 DEF v

\* and those under the other keys have stayed.
LEMMA LeaveOthers ==
    ASSUME NEW s \in Seq(Element), NEW t, NEW i, Without(s, t, i),
           NEW key, key # s[i].key, Listed(PlacesIn(s, key))
    PROVE  /\ Listed(PlacesIn(t, key))
           /\ ValuesIn(t, key) = ValuesIn(s, key)
<1> DEFINE n == Len(s)
<1>1. /\ n \in Nat /\ t \in Seq(Element) /\ i \in 1..n /\ Len(t) = n - 1
      /\ DOMAIN t = 1..(n - 1) /\ DOMAIN s = 1..n
      /\ \A j \in 1..(n - 1) : t[j] = IF j < i THEN s[j] ELSE s[j + 1]
  BY DEF Without
<1>2. PICK m \in Nat : \E f \in [1..m -> PlacesIn(s, key)] : Lists(f, m, PlacesIn(s, key))
  BY DEF Listed
<1>3. PICK f \in [1..m -> PlacesIn(s, key)] : Lists(f, m, PlacesIn(s, key))
  BY <1>2
<1>4. \A j \in 1..m : f[j] \in 1..n /\ s[f[j]].key = key
  BY <1>3, ValuesListed
<1>5. /\ \A j, k \in 1..m : j < k => f[j] < f[k]
      /\ \A p \in 1..n : s[p].key = key => \E j \in 1..m : f[j] = p
  BY <1>1, <1>3 DEF Lists, PlacesIn
<1> HIDE DEF n
<1>6. \A j \in 1..m : f[j] # i
  BY <1>4
<1> DEFINE g == [j \in 1..m |-> IF f[j] < i THEN f[j] ELSE f[j] - 1]
<1>7. \A j \in 1..m : g[j] = IF f[j] < i THEN f[j] ELSE f[j] - 1
  OBVIOUS
<1>8. g \in [1..m -> Int]
  BY <1>4
<1> HIDE DEF g
<1>9. \A j \in 1..m : g[j] \in 1..(n - 1) /\ t[g[j]] = s[f[j]]
  <2> TAKE j \in 1..m
  <2>1. CASE f[j] < i
    <3>1. g[j] = f[j] /\ g[j] \in 1..(n - 1)
      BY <1>1, <1>4, <1>7, <2>1
    <3> QED BY <1>1, <2>1, <3>1
  <2>2. CASE ~(f[j] < i)
    <3>1. g[j] = f[j] - 1 /\ i < f[j]
      BY <1>1, <1>4, <1>6, <1>7, <2>2
    <3>2. g[j] \in 1..(n - 1) /\ ~(g[j] < i) /\ g[j] + 1 = f[j]
      BY <1>1, <1>4, <3>1
    <3> QED BY <1>1, <3>2
  <2> QED BY <2>1, <2>2
<1>10. g \in [1..m -> PlacesIn(t, key)]
  BY <1>1, <1>4, <1>8, <1>9 DEF PlacesIn
<1>11. \A j, k \in 1..m : j < k => g[j] < g[k]
  <2> TAKE j, k \in 1..m
  <2>1. j < k => f[j] < f[k]
    BY <1>5
  <2>2. f[j] \in 1..n /\ f[k] \in 1..n /\ f[j] # i /\ f[k] # i
    BY <1>4, <1>6
  <2> QED BY <1>1, <1>7, <2>1, <2>2
<1>12. \A p \in PlacesIn(t, key) : \E j \in 1..m : g[j] = p
  <2> SUFFICES ASSUME NEW p \in 1..(n - 1), t[p].key = key PROVE \E j \in 1..m : g[j] = p
    BY <1>1 DEF PlacesIn
  <2>1. CASE p < i
    <3>1. s[p].key = key /\ p \in 1..n
      BY <1>1, <2>1
    <3>2. PICK j \in 1..m : f[j] = p
      BY <1>5, <3>1
    <3> QED BY <1>7, <2>1, <3>2
  <2>2. CASE ~(p < i)
    <3>1. s[p + 1].key = key /\ p + 1 \in 1..n
      BY <1>1, <2>2
    <3>2. PICK j \in 1..m : f[j] = p + 1
      BY <1>5, <3>1
    <3>3. ~(f[j] < i) /\ f[j] - 1 = p
      BY <1>1, <2>2, <3>2
    <3> QED BY <1>7, <3>3
  <2> QED BY <2>1, <2>2
<1>13. Lists(g, m, PlacesIn(t, key))
  BY <1>10, <1>11, <1>12 DEF Lists
<1>14. /\ ValuesIn(t, key) = [j \in 1..m |-> t[g[j]].value]
       /\ ValuesIn(s, key) = [j \in 1..m |-> s[f[j]].value]
  BY <1>1, <1>3, <1>13, ValuesListed
<1>15. ValuesIn(t, key) = ValuesIn(s, key)
  BY <1>9, <1>14
<1>16. Listed(PlacesIn(t, key))
  BY <1>10, <1>13 DEF Listed
<1> QED BY <1>15, <1>16

\* RemoveAt and Tail leave out one element,
LEMMA RemoveLeaves ==
    ASSUME NEW s \in Seq(Element), NEW i \in 1..Len(s),
           \A p \in 1..Len(s) : s[p].key = s[i].key => i <= p
    PROVE  Without(s, RemoveAt(s, i), i)
<1> DEFINE front == SubSeq(s, 1, i - 1)
           back  == SubSeq(s, i + 1, Len(s))
<1>1. front \in Seq(Element) /\ Len(front) = i - 1 /\ \A j \in 1..(i - 1) : front[j] = s[j]
  BY SubSeqProperties
<1>2. back \in Seq(Element) /\ Len(back) = Len(s) - i /\ \A j \in 1..(Len(s) - i) : back[j] = s[i + j]
  <2>1. /\ back \in Seq(Element) /\ Len(back) = IF i + 1 <= Len(s) THEN Len(s) - (i + 1) + 1 ELSE 0
        /\ \A j \in 1..(Len(s) - (i + 1) + 1) : back[j] = s[(i + 1) + j - 1]
    BY SubSeqProperties
  <2>2. Len(s) - (i + 1) + 1 = Len(s) - i /\ \A j \in Int : (i + 1) + j - 1 = i + j
    OBVIOUS
  <2>3. Len(s) \in Nat /\ i \in 1..Len(s)
    OBVIOUS
  <2> HIDE DEF back
  <2>4. Len(back) = Len(s) - i
    BY <2>1, <2>3
  <2>5. \A j \in 1..(Len(s) - i) : back[j] = s[i + j]
    <3> TAKE j \in 1..(Len(s) - i)
    <3>1. j \in Int /\ j \in 1..(Len(s) - (i + 1) + 1)
      BY <2>2
    <3>2. back[j] = s[(i + 1) + j - 1] /\ (i + 1) + j - 1 = i + j
      BY <2>1, <2>2, <3>1
    <3> QED BY <3>2
  <2> QED BY <2>1, <2>4, <2>5
<1>3. RemoveAt(s, i) = front \o back
  BY DEF RemoveAt
<1>4. Len(s) \in Nat
  OBVIOUS
<1> HIDE DEF front, back
<1>5. /\ front \o back \in Seq(Element) /\ Len(front \o back) = Len(s) - 1
      /\ \A j \in 1..(Len(s) - 1) : (front \o back)[j] = IF j <= i - 1 THEN front[j] ELSE back[j - (i - 1)]
  <2>1. /\ front \o back \in Seq(Element) /\ Len(front \o back) = Len(front) + Len(back)
        /\ \A j \in 1..(Len(front) + Len(back)) :
              (front \o back)[j] = IF j <= Len(front) THEN front[j] ELSE back[j - Len(front)]
    BY <1>1, <1>2, ConcatProperties
  <2>2. Len(front) = i - 1 /\ Len(front) + Len(back) = Len(s) - 1
    BY <1>1, <1>2, <1>4
  <2> QED BY <2>1, <2>2
<1>6. \A j \in 1..(Len(s) - 1) : (front \o back)[j] = IF j < i THEN s[j] ELSE s[j + 1]
  <2> TAKE j \in 1..(Len(s) - 1)
  <2>1. CASE j < i
    BY <1>1, <1>4, <1>5, <2>1
  <2>2. CASE ~(j < i)
    <3>1. j - (i - 1) \in 1..(Len(s) - i) /\ i + (j - (i - 1)) = j + 1 /\ ~(j <= i - 1)
      BY <1>4, <2>2
    <3> QED BY <1>2, <1>5, <2>2, <3>1
  <2> QED BY <2>1, <2>2
<1> QED BY <1>3, <1>5, <1>6 DEF Without

\* the latter the first.
LEMMA TailLeaves ==
    ASSUME NEW s \in Seq(Element), s # <<>>
    PROVE  Without(s, Tail(s), 1)
<1>1. /\ Tail(s) \in Seq(Element) /\ Len(Tail(s)) = Len(s) - 1
      /\ \A j \in 1..Len(Tail(s)) : Tail(s)[j] = s[j + 1]
  BY HeadTailProperties
<1>2. Len(s) \in Nat \ {0}
  OBVIOUS
<1> QED BY <1>1, <1>2 DEF Without

-----------------------------------------------------------------------------
\* The stacks of a list, and the invariant: under every key its places have a
\* list.
StacksOf(s) == [key \in Keys |-> ValuesIn(s, key)]
KeysListed(s) == \A key \in Keys : Listed(PlacesIn(s, key))
StackInv == CountInv /\ KeysListed(elements)

\* The refinement mapping is StacksOf, before and after a step.
LEMMA MappingIs == [key \in Keys |-> ValuesOf(key)] = StacksOf(elements)
<1>1. \A key \in Keys : ValuesOf(key) = ValuesIn(elements, key)
  BY DEF ValuesOf, ValuesIn, Place, Places, Nth, UpTo, PlacesIn
<1> QED BY <1>1 DEF StacksOf

\* (primed once here, so that no other proof has to)
LEMMA MappingIsNext == [key \in Keys |-> ValuesOf(key)]' = StacksOf(elements')
<1>1. \A key \in Keys : ValuesOf(key)' = ValuesIn(elements', key)
  BY DEF ValuesOf, ValuesIn, Place, Places, Nth, UpTo, PlacesIn
<1> QED BY <1>1 DEF StacksOf

\* Nothing is listed under the keys of the empty list.
LEMMA EmptyStacks ==
    ASSUME NEW s \in Seq(Element), s = <<>>
    PROVE  KeysListed(s) /\ StacksOf(s) = [key \in Keys |-> <<>>]
<1>1. DOMAIN s = {}
  OBVIOUS
<1>2. ASSUME NEW key \in Keys PROVE Listed(PlacesIn(s, key)) /\ ValuesIn(s, key) = <<>>
  <2>1. PlacesIn(s, key) = {}
    BY <1>1 DEF PlacesIn
  <2> DEFINE f == [i \in 1..0 |-> 0]
  <2>2. f \in [1..0 -> {}] /\ Lists(f, 0, {})
    BY DEF Lists
  <2> HIDE DEF f
  <2>3. Listed(PlacesIn(s, key))
    BY <2>1, <2>2 DEF Listed
  <2>4. Lists(f, 0, PlacesIn(s, key)) /\ 0 \in Nat
    BY <2>1, <2>2
  <2>5. ValuesIn(s, key) \in Seq(Values) /\ Len(ValuesIn(s, key)) = 0
    BY <2>4, ValuesListed
  <2>6. ValuesIn(s, key) = <<>>
    BY <2>5, EmptySeq
  <2> QED BY <2>3, <2>6
<1> QED BY <1>2 DEF KeysListed, StacksOf

\* A stack is empty if its key has no place.
LEMMA EmptyStack ==
    ASSUME NEW s \in Seq(Element), NEW key \in Keys, KeysListed(s)
    PROVE  ValuesIn(s, key) \in Seq(Values) /\ (ValuesIn(s, key) = <<>> <=> PlacesIn(s, key) = {})
<1>1. PICK m \in Nat : \E f \in [1..m -> PlacesIn(s, key)] : Lists(f, m, PlacesIn(s, key))
  BY DEF KeysListed, Listed
<1>2. PICK f \in [1..m -> PlacesIn(s, key)] : Lists(f, m, PlacesIn(s, key))
  BY <1>1
<1>3. ValuesIn(s, key) \in Seq(Values) /\ Len(ValuesIn(s, key)) = m
  BY <1>2, ValuesListed
<1>4. m = 0 <=> PlacesIn(s, key) = {}
  <2>1. m # 0 => 1 \in 1..m
    OBVIOUS
  <2> QED BY <1>2, <2>1 DEF Lists
<1> QED BY <1>3, <1>4

\* A list with one element more has a value more on one stack;
LEMMA PushesStack ==
    ASSUME NEW s \in Seq(Element), NEW key \in Keys, NEW value \in Values, KeysListed(s)
    PROVE  LET t == <<[key |-> key, value |-> value]>> \o s
           IN  /\ KeysListed(t)
               /\ StacksOf(t) = [StacksOf(s) EXCEPT ![key] = <<value>> \o @]
<1> DEFINE e == [key |-> key, value |-> value]
           t == <<e>> \o s
<1>1. e \in Element /\ e.key = key /\ e.value = value
  BY DEF Element
<1>2. ASSUME NEW k \in Keys
      PROVE  /\ Listed(PlacesIn(t, k))
             /\ ValuesIn(t, k) = IF k = key THEN <<value>> \o ValuesIn(s, k) ELSE ValuesIn(s, k)
  <2>1. Listed(PlacesIn(s, k))
    BY DEF KeysListed
  <2> HIDE DEF e
  <2> QED BY <1>1, <2>1, PutFirst
<1> HIDE DEF t
<1> QED BY <1>2 DEF KeysListed, StacksOf, t

\* what it is to have one less,
Popped(old, new, key, value) ==
    old[key] # <<>> /\ Head(old[key]) = value /\ new = [old EXCEPT ![key] = Tail(@)]

\* which is what the list without the first of a key has.
LEMMA PopsStack ==
    ASSUME NEW s \in Seq(Element), NEW t, NEW i, Without(s, t, i), KeysListed(s),
           NEW key, key = s[i].key
    PROVE  /\ KeysListed(t) /\ key \in Keys
           /\ Popped(StacksOf(s), StacksOf(t), key, s[i].value)
<1>1. key \in Keys
  <2>1. s[i] \in Element
    BY DEF Without
  <2> QED BY <2>1 DEF Element
<1>2. ASSUME NEW k \in Keys
      PROVE  /\ Listed(PlacesIn(t, k))
             /\ ValuesIn(t, k) = IF k = key THEN Tail(ValuesIn(s, k)) ELSE ValuesIn(s, k)
             /\ k = key => ValuesIn(s, k) # <<>> /\ Head(ValuesIn(s, k)) = s[i].value
  <2>1. Listed(PlacesIn(s, k))
    BY DEF KeysListed
  <2>2. CASE k = key
    <3>1. k = s[i].key
      BY <2>2
    <3>2. /\ Listed(PlacesIn(t, k)) /\ ValuesIn(s, k) # <<>> /\ Head(ValuesIn(s, k)) = s[i].value
          /\ ValuesIn(t, k) = Tail(ValuesIn(s, k))
      BY <2>1, <3>1, TakeTop
    <3> QED BY <2>2, <3>2
  <2>3. CASE k # key
    <3>1. k # s[i].key
      BY <2>3
    <3>2. Listed(PlacesIn(t, k)) /\ ValuesIn(t, k) = ValuesIn(s, k)
      BY <2>1, <3>1, LeaveOthers
    <3> QED BY <2>3, <3>2
  <2> QED BY <2>2, <2>3
<1> QED BY <1>1, <1>2 DEF KeysListed, StacksOf, Popped

\* The removal of a key takes the top of its stack.
LEMMA RemovePops ==
    ASSUME NEW s \in Seq(Element), NEW key \in Keys, KeysListed(s), PlacesIn(s, key) # {},
           NEW i, i = CHOOSE p \in PlacesIn(s, key) : \A q \in PlacesIn(s, key) : p <= q
    PROVE  /\ i \in 1..Len(s) /\ s[i].key = key
           /\ Without(s, RemoveAt(s, i), i)
<1>1. PlacesIn(s, key) \subseteq Nat
  BY DEF PlacesIn
<1>2. \E p \in PlacesIn(s, key) : \A q \in PlacesIn(s, key) : p <= q
  BY <1>1, LeastPlace
<1>3. i \in PlacesIn(s, key) /\ \A q \in PlacesIn(s, key) : i <= q
  BY <1>2, Zenon
<1>4. i \in 1..Len(s) /\ s[i].key = key
  BY <1>3 DEF PlacesIn
<1>5. \A p \in 1..Len(s) : s[p].key = s[i].key => i <= p
  <2> TAKE p \in 1..Len(s)
  <2>1. s[p].key = key => p \in PlacesIn(s, key)
    BY DEF PlacesIn
  <2> QED BY <1>3, <1>4, <2>1
<1> QED BY <1>4, <1>5, RemoveLeaves

-----------------------------------------------------------------------------
\* Every call does to the stacks what KeyedStacks says, and leaves the list
\* one with stacks: map_clear,
LEMMA ClearMaps ==
    ASSUME StackInv, map_clear, ~map_crashed, UNCHANGED map_crashed
    PROVE  KeysListed(elements') /\ Stacks!Next
<1>1. elements' = <<>> /\ result' = result
  BY DEF map_clear
<1>2. KeysListed(elements') /\ StacksOf(elements') = [key \in Keys |-> <<>>]
  <2>1. elements' \in Seq(Element)
    BY <1>1
  <2> QED BY <1>1, <2>1, EmptyStacks
<1>3. [key \in Keys |-> ValuesOf(key)]' = [key \in Keys |-> <<>>]
  BY <1>2, MappingIsNext
<1> QED BY <1>1, <1>2, <1>3 DEF Stacks!Next, Stacks!Clear

\* map_put,
LEMMA PutMaps ==
    ASSUME StackInv, NEW key \in Keys, NEW value \in Values, map_put(key, value),
           ~map_crashed, UNCHANGED map_crashed
    PROVE  KeysListed(elements') /\ Stacks!Next
<1>1. elements' = <<[key |-> key, value |-> value]>> \o elements /\ result' = result
  BY DEF map_put
<1>2. elements \in Seq(Element) /\ KeysListed(elements)
  BY DEF StackInv, CountInv, MapTypeOK
<1>3. /\ KeysListed(elements')
      /\ StacksOf(elements') = [StacksOf(elements) EXCEPT ![key] = <<value>> \o @]
  BY <1>1, <1>2, PushesStack
<1>4. [k \in Keys |-> ValuesOf(k)]' = [[k \in Keys |-> ValuesOf(k)] EXCEPT ![key] = <<value>> \o @]
  BY <1>3, MappingIs, MappingIsNext
<1>5. Stacks!Push(key)
  BY <1>1, <1>4 DEF Stacks!Push
<1> QED BY <1>3, <1>5 DEF Stacks!Next

\* map_remove, of a key that is there and one that is not,
LEMMA RemoveMaps ==
    ASSUME StackInv, NEW key \in Keys, map_remove(key), ~map_crashed, UNCHANGED map_crashed
    PROVE  KeysListed(elements') /\ Stacks!Next
<1>1. elements \in Seq(Element) /\ KeysListed(elements)
  BY DEF StackInv, CountInv, MapTypeOK
<1>2. Places(key) = PlacesIn(elements, key)
  BY DEF Places, PlacesIn
<1>3. StacksOf(elements)[key] = ValuesIn(elements, key)
  BY DEF StacksOf
<1> DEFINE stacks == [k \in Keys |-> ValuesOf(k)]
<1>4. stacks = StacksOf(elements) /\ stacks' = StacksOf(elements')
  BY MappingIs, MappingIsNext
<1>5. CASE Places(key) = {}
  <2>1. result' = NoValue /\ elements' = elements
    BY <1>5 DEF map_remove
  <2>2. StacksOf(elements)[key] = <<>>
    BY <1>1, <1>2, <1>3, <1>5, EmptyStack
  <2>3. stacks[key] = <<>> /\ stacks' = stacks
    BY <1>4, <2>1, <2>2
  <2>4. Stacks!Take(key)
    BY <2>1, <2>3 DEF Stacks!Take, Stacks!Top
  <2> QED BY <1>1, <2>1, <2>4 DEF Stacks!Next
<1>6. CASE Places(key) # {}
  <2>1. result' = elements[First(key)].value /\ elements' = RemoveAt(elements, First(key))
    BY <1>6 DEF map_remove
  <2>2. First(key) = CHOOSE p \in PlacesIn(elements, key) : \A q \in PlacesIn(elements, key) : p <= q
    BY <1>2 DEF First
  <2>3. /\ elements[First(key)].key = key
        /\ Without(elements, elements', First(key))
    BY <1>1, <1>2, <1>6, <2>1, <2>2, RemovePops
  <2>4. /\ KeysListed(elements')
        /\ Popped(StacksOf(elements), StacksOf(elements'), key, elements[First(key)].value)
    BY <1>1, <2>3, PopsStack
  <2>5. /\ stacks[key] # <<>> /\ Head(stacks[key]) = result'
        /\ stacks' = [stacks EXCEPT ![key] = Tail(@)]
    BY <1>4, <2>1, <2>4 DEF Popped
  <2>6. Stacks!Take(key)
    BY <2>5 DEF Stacks!Take, Stacks!Top
  <2> QED BY <2>4, <2>6 DEF Stacks!Next
<1> QED BY <1>5, <1>6

\* map_pop,
LEMMA PopMaps ==
    ASSUME StackInv, map_pop, ~map_crashed, UNCHANGED map_crashed
    PROVE  KeysListed(elements') /\ Stacks!Next
<1>1. elements \in Seq(Element) /\ KeysListed(elements)
  BY DEF StackInv, CountInv, MapTypeOK
<1>2. elements # <<>> /\ result' = Head(elements).value /\ elements' = Tail(elements)
  BY DEF map_pop
<1>3. Without(elements, elements', 1)
  BY <1>1, <1>2, TailLeaves
<1> DEFINE stacks == [k \in Keys |-> ValuesOf(k)]
<1>9. PICK i, key : i = 1 /\ key = elements[i].key
  OBVIOUS
<1>4. stacks = StacksOf(elements) /\ stacks' = StacksOf(elements')
  BY MappingIs, MappingIsNext
<1>5. /\ KeysListed(elements') /\ key \in Keys
      /\ Popped(StacksOf(elements), StacksOf(elements'), key, elements[i].value)
  <2>1. elements \in Seq(Element) /\ KeysListed(elements)
    BY <1>1
  <2>2. Without(elements, elements', i) /\ key = elements[i].key
    BY <1>3, <1>9
  <2> QED BY <2>1, <2>2, PopsStack
<1>6. result' = elements[1].value
  BY <1>1, <1>2
<1>7. PICK k \in Keys : /\ stacks[k] # <<>> /\ Head(stacks[k]) = result'
                        /\ stacks' = [stacks EXCEPT ![k] = Tail(@)]
  <2> HIDE DEF stacks
  <2>1. /\ stacks[key] # <<>> /\ Head(stacks[key]) = result'
        /\ stacks' = [stacks EXCEPT ![key] = Tail(@)]
    BY <1>4, <1>5, <1>6, <1>9 DEF Popped
  <2> QED BY <1>5, <2>1
<1>8. Stacks!Take(k)
  BY <1>7 DEF Stacks!Take, Stacks!Top
<1> QED BY <1>5, <1>8 DEF Stacks!Next

\* map_get,
LEMMA GetMaps ==
    ASSUME StackInv, NEW key \in Keys, map_get(key), ~map_crashed, UNCHANGED map_crashed
    PROVE  KeysListed(elements') /\ Stacks!Next
<1>1. elements \in Seq(Element) /\ KeysListed(elements) /\ elements' = elements
  BY DEF StackInv, CountInv, MapTypeOK, map_get
<1>2. Places(key) = PlacesIn(elements, key)
  BY DEF Places, PlacesIn
<1>3. StacksOf(elements)[key] = ValuesIn(elements, key)
  BY DEF StacksOf
<1> DEFINE stacks == [k \in Keys |-> ValuesOf(k)]
<1>4. stacks = StacksOf(elements) /\ stacks' = StacksOf(elements')
  BY MappingIs, MappingIsNext
<1>5. CASE Places(key) = {}
  <2>1. result' = NoValue
    BY <1>5 DEF map_get
  <2>2. StacksOf(elements)[key] = <<>>
    BY <1>1, <1>2, <1>3, <1>5, EmptyStack
  <2>3. stacks[key] = <<>> /\ stacks' = stacks
    BY <1>1, <1>4, <2>2
  <2>4. Stacks!Look(key)
    BY <2>1, <2>3 DEF Stacks!Look, Stacks!Top
  <2> QED BY <1>1, <2>4 DEF Stacks!Next
<1>6. CASE Places(key) # {}
  <2>1. result' = elements[First(key)].value
    BY <1>6 DEF map_get
  <2>2. First(key) = CHOOSE p \in PlacesIn(elements, key) : \A q \in PlacesIn(elements, key) : p <= q
    BY <1>2 DEF First
  <2>3. /\ elements[First(key)].key = key
        /\ Without(elements, RemoveAt(elements, First(key)), First(key))
    BY <1>1, <1>2, <1>6, <2>2, RemovePops
  <2>4. Popped(StacksOf(elements), StacksOf(RemoveAt(elements, First(key))), key, elements[First(key)].value)
    BY <1>1, <2>3, PopsStack
  <2>5. stacks[key] # <<>> /\ Head(stacks[key]) = result' /\ stacks' = stacks
    BY <1>1, <1>4, <2>1, <2>4 DEF Popped
  <2>6. Stacks!Look(key)
    BY <2>5 DEF Stacks!Look, Stacks!Top
  <2> QED BY <1>1, <2>6 DEF Stacks!Next
<1> QED BY <1>5, <1>6

\* and a map_pop of the empty map, which breaks it.
LEMMA BreakMaps ==
    ASSUME StackInv, map_pop_Empty, ~map_crashed
    PROVE  KeysListed(elements') /\ Stacks!Next
<1>1. /\ elements \in Seq(Element) /\ KeysListed(elements)
      /\ elements = <<>> /\ elements' = elements /\ map_crashed' = TRUE /\ result' = result
  BY DEF StackInv, CountInv, MapTypeOK, map_pop_Empty
<1> DEFINE stacks == [k \in Keys |-> ValuesOf(k)]
<1>2. stacks = StacksOf(elements) /\ stacks' = StacksOf(elements')
  BY MappingIs, MappingIsNext
<1>3. StacksOf(elements) = [key \in Keys |-> <<>>]
  BY <1>1, EmptyStacks
<1>4. (\A key \in Keys : stacks[key] = <<>>) /\ stacks' = stacks
  BY <1>1, <1>2, <1>3
<1>5. Stacks!Break
  BY <1>1, <1>4 DEF Stacks!Break
<1> QED BY <1>1, <1>5 DEF Stacks!Next

\* So does every step of the map.
LEMMA StepsMap ==
    StackInv /\ [MapNext]_mapVars
        => /\ StackInv'
           /\ [Stacks!Next]_<<[key \in Keys |-> ValuesOf(key)], result, map_crashed>>
<1> SUFFICES ASSUME StackInv, [MapNext]_mapVars
             PROVE  /\ StackInv'
                    /\ [Stacks!Next]_<<[key \in Keys |-> ValuesOf(key)], result, map_crashed>>
  OBVIOUS
<1>1. CountInv'
  BY CountPreserved DEF StackInv
<1>2. KeysListed(elements)' <=> KeysListed(elements')
  BY DEF KeysListed, Listed, Lists, PlacesIn
<1>3. CASE MapCall /\ UNCHANGED map_crashed /\ ~map_crashed
  BY <1>1, <1>2, <1>3, ClearMaps, PutMaps, RemoveMaps, GetMaps, PopMaps DEF MapCall, StackInv
<1>4. CASE map_pop_Empty /\ ~map_crashed
  BY <1>1, <1>2, <1>4, BreakMaps DEF StackInv
<1>5. CASE UNCHANGED mapVars
  <2>1. elements' = elements /\ result' = result /\ map_crashed' = map_crashed
    BY <1>5 DEF mapVars
  <2>2. [key \in Keys |-> ValuesOf(key)]' = [key \in Keys |-> ValuesOf(key)]
    BY <2>1, MappingIs, MappingIsNext
  <2> QED BY <1>1, <1>2, <2>1, <2>2 DEF StackInv
<1> QED BY <1>3, <1>4, <1>5 DEF MapNext

\* The empty map is one of empty stacks.
LEMMA MapsInitially == MapInit => StackInv /\ Stacks!Init
<1> SUFFICES ASSUME MapInit PROVE StackInv /\ Stacks!Init
  OBVIOUS
<1>1. elements = <<>> /\ result = NoValue /\ (map_crashed = FALSE)
  BY Zenon DEF MapInit
<1>2. elements \in Seq(Element)
  BY <1>1
<1>3. KeysListed(elements) /\ StacksOf(elements) = [key \in Keys |-> <<>>]
  BY <1>1, <1>2, EmptyStacks
<1>4. [key \in Keys |-> ValuesOf(key)] = [key \in Keys |-> <<>>]
  BY <1>3, MappingIs
<1>5. Stacks!Init
  BY <1>1, <1>4, Zenon DEF Stacks!Init
<1> QED BY <1>3, <1>5, CountInitially DEF StackInv

\* The linked list is a stack of values for every key, whatever the keys and
\* the values and however long it grows.
THEOREM MapImplementsStacks == MapSpec => ImplementsStacks
<1> QED BY MapsInitially, StepsMap, PTL DEF MapSpec, ImplementsStacks, Stacks!Spec

-----------------------------------------------------------------------------
(* The constant bit rate tools.                                            *)

\* The assumptions about their constants.
LEMMA RateBounds ==
    /\ Base \in Nat /\ Base >= 2
    /\ Digits \in Nat /\ MaxPackets \in Nat /\ MaxNow \in Nat /\ MaxLines \in Nat
BY BitRateAssumption DEF BitRateAssumption

\* What the definition of the powers says of each, and their sign.
LEMMA PowerSteps ==
    /\ Power[0] = 1
    /\ \A k \in Nat : Power[k + 1] = Base * Power[k]
    /\ \A k \in Nat : Power[k] \in Nat \ {0}
<1>1. NatInductiveDefHypothesis(Power, 1, LAMBDA v, n : Base * v)
  BY DEF NatInductiveDefHypothesis, Power
<1>2. NatInductiveDefConclusion(Power, 1, LAMBDA v, n : Base * v)
  BY <1>1, NatInductiveDef, Zenon
<1>3. Power = [k \in Nat |-> IF k = 0 THEN 1 ELSE Base * Power[k - 1]]
  BY <1>2 DEF NatInductiveDefConclusion
<1>4. \A k \in Nat : Power[k] = IF k = 0 THEN 1 ELSE Base * Power[k - 1]
  BY <1>3
<1>5. Power[0] = 1
  BY <1>4
<1>6. ASSUME NEW k \in Nat PROVE Power[k + 1] = Base * Power[k]
  <2>1. k + 1 \in Nat /\ k + 1 # 0 /\ (k + 1) - 1 = k
    OBVIOUS
  <2> QED BY <1>4, <2>1
<1> DEFINE wrong == {k \in Nat : Power[k] \notin Nat \ {0}}
<1>7. \A n \in wrong : \E m \in wrong : m < n
  <2> SUFFICES ASSUME NEW n \in Nat, Power[n] \notin Nat \ {0} PROVE \E m \in wrong : m < n
    OBVIOUS
  <2>1. n - 1 \in Nat /\ n = (n - 1) + 1
    BY <1>5
  <2>2. Power[n] = Base * Power[n - 1]
    BY <1>6, <2>1
  <2>3. Power[n - 1] \notin Nat \ {0}
    BY <2>2, RateBounds
  <2> QED BY <2>1, <2>3
<1>8. wrong = {}
  BY <1>7, NoDescent
<1> QED BY <1>5, <1>6, <1>8

\* A second is a positive number of microseconds, and if a line shows digits
\* of them at all a multiple of the base.
LEMMA SecondPositive ==
    /\ Second \in Nat \ {0}
    /\ Second = 1 \/ Second = Base * (Second \div Base)
<1>1. Second \in Nat \ {0}
  BY RateBounds, PowerSteps DEF Second
<1>2. CASE Digits = 0
  BY <1>1, <1>2, PowerSteps DEF Second
<1>3. CASE Digits # 0
  <2>1. Digits - 1 \in Nat /\ (Digits - 1) + 1 = Digits
    BY <1>3, RateBounds
  <2>2. Second = Base * Power[Digits - 1]
    BY <2>1, PowerSteps DEF Second
  <2>3. Power[Digits - 1] \in Nat
    BY <2>1, PowerSteps
  <2>4. \A b, p \in Nat : b > 0 => (b * p) \div b = p
    OBVIOUS
  <2> QED BY <1>1, <2>2, <2>3, <2>4, RateBounds
<1> QED BY <1>1, <1>2, <1>3

\* Digits without their leading zeros stay within the second and never show
\* less; they show the truth if none was missing.
LEMMA UnpaddedShows ==
    ASSUME NEW usec \in 0..(Second - 1)
    PROVE  /\ Unpadded(usec) \in 0..(Second - 1)
           /\ usec <= Unpadded(usec)
           /\ Second <= Base * usec => Unpadded(usec) = usec
<1>1. Second \in Nat /\ Second > 0 /\ Base \in Nat /\ Base >= 2 /\ Digits \in Nat
  BY SecondPositive, RateBounds
<1>2. CASE usec = 0
  BY <1>1, <1>2 DEF Unpadded
<1>3. CASE usec # 0
  <2> DEFINE enough == {k \in Nat : Second <= Base * (usec * Power[k])}
             least  == Min(enough)
             shown  == {usec * Power[k] : k \in 0..Digits}
             x      == CHOOSE x \in shown : Second <= Base * x /\ x < Second
  <2>1. Digits \in enough
    <3>1. Power[Digits] = Second
      BY DEF Second
    <3>2. Second <= Base * (usec * Second)
      <4>1. usec * Second >= Second
        BY <1>1, <1>3
      <4>2. usec * Second \in Nat
        BY <1>1
      <4> QED BY <1>1, <4>1, <4>2
    <3> QED BY <1>1, <3>1, <3>2
  <2>2. least \in enough /\ \A m \in enough : least <= m
    <3>1. enough \subseteq Nat /\ enough # {}
      BY <2>1
    <3> HIDE DEF enough
    <3> QED BY <3>1, MinOfNaturals
  <2>3. least \in 0..Digits /\ Second <= Base * (usec * Power[least])
    BY <1>1, <2>1, <2>2
  <2>4. usec * Power[least] < Second
    <3>1. CASE least = 0
      BY <1>1, <3>1, PowerSteps
    <3>2. CASE least # 0
      <4>1. least - 1 \in Nat /\ (least - 1) + 1 = least
        BY <1>1, <2>3, <3>2
      <4>2. ~(Second <= Base * (usec * Power[least - 1]))
        BY <2>2, <4>1
      <4>3. Power[least] = Base * Power[least - 1] /\ Power[least - 1] \in Nat
        BY <4>1, PowerSteps
      <4>4. usec * Power[least] = Base * (usec * Power[least - 1])
        BY <1>1, <4>3
      <4>5. usec * Power[least - 1] \in Nat
        BY <1>1, <4>3
      <4> QED BY <1>1, <4>2, <4>4, <4>5
    <3> QED BY <3>1, <3>2
  <2>5. \E y \in shown : Second <= Base * y /\ y < Second
    BY <2>3, <2>4
  <2>6. x \in shown /\ Second <= Base * x /\ x < Second
    <3> HIDE DEF shown
    <3> QED BY <2>5
  <2>7. PICK k \in 0..Digits : x = usec * Power[k]
    BY <2>6
  <2>8. k \in Nat /\ Power[k] \in Nat \ {0}
    BY <1>1, <2>7, PowerSteps
  <2>9. Unpadded(usec) = x
    BY <1>3 DEF Unpadded
  <2> HIDE DEF x, shown
  <2>10. x \in Nat /\ usec <= x
    BY <2>7, <2>8
  <2>11. ASSUME Second <= Base * usec PROVE x = usec
    <3>1. CASE k = 0
      BY <1>1, <2>7, <3>1, PowerSteps
    <3>2. CASE k # 0
      <4>1. k - 1 \in Nat /\ (k - 1) + 1 = k
        BY <2>8, <3>2
      <4>2. Power[k] = Base * Power[k - 1] /\ Power[k - 1] \in Nat \ {0}
        BY <4>1, PowerSteps
      <4>3. x = (Base * usec) * Power[k - 1]
        BY <1>1, <2>7, <4>2
      <4>4. Base * usec \in Nat
        BY <1>1
      <4>5. x >= Base * usec
        BY <4>2, <4>3, <4>4
      <4> QED BY <1>1, <2>6, <2>10, <2>11, <4>4, <4>5
    <3> QED BY <3>1, <3>2
  <2> QED BY <1>1, <2>6, <2>9, <2>10, <2>11
<1> QED BY <1>2, <1>3

\* A time of day is its seconds and its microseconds.
LEMMA TimeOfDay ==
    ASSUME NEW t \in Nat
    PROVE  /\ t \div Second \in Nat /\ t % Second \in 0..(Second - 1)
           /\ t = (t \div Second) * Second + (t % Second)
<1>1. Second \in Nat /\ Second > 0
  BY SecondPositive
<1>2. \A n, s \in Nat : s > 0 => /\ n \div s \in Nat /\ n % s \in 0..(s - 1)
                                 /\ n = (n \div s) * s + (n % s)
  OBVIOUS
<1> QED BY <1>1, <1>2

\* The two formats: the padded one shows the time, the other never an earlier
\* one, never one of another second, and the time itself from the first
\* tenth of a second on.
LEMMA LinesShow ==
    ASSUME NEW t \in Nat
    PROVE  /\ SleepTestLine(t) = t
           /\ ServerLine(t) \in Nat
           /\ t <= ServerLine(t)
           /\ (t \div Second) * Second <= ServerLine(t)
           /\ ServerLine(t) < (t \div Second) * Second + Second
           /\ t % Second >= Second \div Base => ServerLine(t) = t
<1> DEFINE sec  == t \div Second
           usec == t % Second
<1>1. sec \in Nat /\ usec \in 0..(Second - 1) /\ t = sec * Second + usec /\ Second \in Nat \ {0}
  BY TimeOfDay, SecondPositive
<1>2. /\ Unpadded(usec) \in 0..(Second - 1) /\ usec <= Unpadded(usec)
      /\ Second <= Base * usec => Unpadded(usec) = usec
  BY <1>1, UnpaddedShows
<1>3. ServerLine(t) = sec * Second + Unpadded(usec) /\ SleepTestLine(t) = sec * Second + usec
  BY DEF ServerLine, SleepTestLine
<1>4. ASSUME usec >= Second \div Base PROVE Unpadded(usec) = usec
  <2>1. CASE Second = 1
    BY <1>1, <1>2, <2>1
  <2>2. CASE Second = Base * (Second \div Base)
    <3>1. Second \div Base \in Nat /\ Base \in Nat /\ Base > 0 /\ usec \in Nat
      BY <1>1, RateBounds
    <3>2. \A a, b, c \in Nat : b >= a => c * a <= c * b
      OBVIOUS
    <3>3. Base * (Second \div Base) <= Base * usec
      BY <1>4, <3>1, <3>2
    <3> QED BY <1>2, <2>2, <3>3
  <2> QED BY <2>1, <2>2, SecondPositive
<1>5. sec * Second \in Nat
  BY <1>1
<1> HIDE DEF sec, usec
<1>6. /\ SleepTestLine(t) = t /\ ServerLine(t) \in Nat /\ t <= ServerLine(t)
      /\ sec * Second <= ServerLine(t) /\ ServerLine(t) < sec * Second + Second
      /\ usec >= Second \div Base => ServerLine(t) = t
  BY <1>1, <1>2, <1>3, <1>4, <1>5
<1> QED BY <1>6 DEF sec, usec

\* The sender has handed over every datagram it has numbered, but for the one
\* it is about to send.
SenderInv ==
    /\ handed = IF cbr_client \in {"sendto", "died"} THEN packet - 1 ELSE packet
    /\ cbr_client = "ended" => packets_sent = packet
    /\ in_flight <= handed

\* The server notes the arrivals in their order, and every line is that of its
\* time.
PrinterInv ==
    /\ Len(arrivals) = Len(lines)
    /\ \A i \in 1..Len(arrivals) : arrivals[i] <= now /\ lines[i] = ServerLine(arrivals[i])
    /\ \A i, j \in 1..Len(arrivals) : i < j => arrivals[i] <= arrivals[j]
    /\ turn_lines = turns

\* Both, with the types.
RateInv == RateTypeOK /\ SenderInv /\ PrinterInv

\* It holds at the start,
LEMMA RateInitially == RateInit => RateInv
<1> SUFFICES ASSUME RateInit PROVE RateInv
  OBVIOUS
<1>1. <<>> \in Seq(Nat) /\ Len(<<>>) <= MaxLines
  BY RateBounds
<1>2. RateTypeOK
  <2>1. 0 \in 0..MaxPackets /\ 0 \in 0..MaxNow
    BY RateBounds
  <2> QED BY <1>1, <2>1 DEF RateInit, RateTypeOK
<1> QED BY <1>2 DEF RateInit, RateInv, SenderInv, PrinterInv

\* every call of the sender preserves it,
LEMMA SenderSteps == RateInv /\ CbrClient => RateInv'
<1> SUFFICES ASSUME RateInv, CbrClient PROVE RateInv'
  OBVIOUS
<1>1. UNCHANGED <<now, printerVars>>
  BY DEF CbrClient, TestStopping, SendPacket, SendPacketFails, Sleep, InterruptClient
<1>2. PrinterInv'
  BY <1>1 DEF RateInv, PrinterInv, printerVars
<1>3. /\ packet \in 0..MaxPackets /\ handed \in 0..MaxPackets /\ in_flight \in 0..MaxPackets
      /\ packets_sent \in 0..MaxPackets /\ MaxPackets \in Nat
  BY RateBounds DEF RateInv, RateTypeOK
<1>4. /\ packet' \in 0..MaxPackets /\ handed' \in 0..MaxPackets /\ in_flight' \in 0..MaxPackets
      /\ packets_sent' \in 0..MaxPackets
      /\ cbr_client' \in {"test", "sendto", "usleep", "ended", "died"} /\ cbr_stopping' \in BOOLEAN
      /\ SenderInv'
  <2>1. CASE TestStopping
    BY <1>3, <2>1 DEF TestStopping, RateInv, SenderInv, RateTypeOK
  <2>2. CASE SendPacket
    BY <1>3, <2>2 DEF SendPacket, RateInv, SenderInv, RateTypeOK
  <2>3. CASE SendPacketFails
    BY <1>3, <2>3 DEF SendPacketFails, RateInv, SenderInv, RateTypeOK
  <2>4. CASE Sleep
    BY <1>3, <2>4 DEF Sleep, RateInv, SenderInv, RateTypeOK
  <2>5. CASE InterruptClient
    BY <1>3, <2>5 DEF InterruptClient, RateInv, SenderInv, RateTypeOK
  <2> QED BY <2>1, <2>2, <2>3, <2>4, <2>5 DEF CbrClient
<1>5. RateTypeOK'
  BY <1>1, <1>4 DEF RateInv, RateTypeOK, printerVars
<1> QED BY <1>2, <1>4, <1>5 DEF RateInv

\* the clock and both printers do,
LEMMA ClockSteps == RateInv /\ Clock => RateInv'
<1> SUFFICES ASSUME RateInv, Clock PROVE RateInv'
  OBVIOUS
<1>1. now \in Nat /\ now' = now + 1 /\ now' \in 0..MaxNow
  BY RateBounds DEF Clock, RateInv, RateTypeOK
<1>2. UNCHANGED <<senderVars, in_flight, printerVars>>
  BY DEF Clock
<1>3. RateTypeOK'
  BY <1>1, <1>2 DEF RateInv, RateTypeOK, senderVars, printerVars
<1>4. SenderInv'
  BY <1>2 DEF RateInv, SenderInv, senderVars
<1>5. PrinterInv'
  <2>1. /\ arrivals' = arrivals /\ lines' = lines /\ turns' = turns /\ turn_lines' = turn_lines
    BY <1>2 DEF printerVars
  <2>2. PrinterInv /\ arrivals \in Seq(Nat)
    BY DEF RateInv, RateTypeOK
  <2>3. \A i \in 1..Len(arrivals) : arrivals[i] \in Nat /\ arrivals[i] <= now
    BY <2>2 DEF PrinterInv
  <2>4. \A i \in 1..Len(arrivals) : arrivals[i] <= now'
    BY <1>1, <2>3
  <2> QED BY <2>1, <2>2, <2>4 DEF PrinterInv
<1> QED BY <1>3, <1>4, <1>5 DEF RateInv

\* (a sequence that grows at its end)
LEMMA GrowsAtEnd ==
    ASSUME NEW s \in Seq(Nat), NEW x \in Nat
    PROVE  /\ Append(s, x) \in Seq(Nat) /\ Len(Append(s, x)) = Len(s) + 1
           /\ \A i \in 1..Len(s) : Append(s, x)[i] = s[i]
           /\ Append(s, x)[Len(s) + 1] = x
BY AppendProperties

\* a line of the server,
LEMMA ArrivalSteps == RateInv /\ PrintArrival => RateInv'
<1> SUFFICES ASSUME RateInv, PrintArrival PROVE RateInv'
  OBVIOUS
<1>1. /\ now \in Nat /\ arrivals \in Seq(Nat) /\ lines \in Seq(Nat)
      /\ Len(arrivals) \in Nat /\ Len(lines) = Len(arrivals) /\ Len(lines) < MaxLines
      /\ in_flight \in 0..MaxPackets /\ in_flight > 0 /\ handed \in 0..MaxPackets
      /\ MaxPackets \in Nat /\ MaxLines \in Nat
  BY RateBounds DEF RateInv, RateTypeOK, PrinterInv, PrintArrival
<1>2. /\ in_flight' = in_flight - 1
      /\ arrivals' = Append(arrivals, now)
      /\ lines' = Append(lines, ServerLine(now))
      /\ UNCHANGED <<senderVars, now, turns, turn_lines>>
  BY DEF PrintArrival
<1>3. ServerLine(now) \in Nat
  BY <1>1, LinesShow
<1> DEFINE n == Len(arrivals)
<1>4. /\ arrivals' \in Seq(Nat) /\ Len(arrivals') = n + 1
      /\ \A i \in 1..n : arrivals'[i] = arrivals[i]
      /\ arrivals'[n + 1] = now
  BY <1>1, <1>2, GrowsAtEnd
<1>5. /\ lines' \in Seq(Nat) /\ Len(lines') = n + 1
      /\ \A i \in 1..n : lines'[i] = lines[i]
      /\ lines'[n + 1] = ServerLine(now)
  BY <1>1, <1>2, <1>3, GrowsAtEnd
<1>6. in_flight' \in 0..MaxPackets /\ (in_flight <= handed => in_flight' <= handed)
  BY <1>1, <1>2
<1>7. RateTypeOK'
  BY <1>1, <1>2, <1>4, <1>5, <1>6 DEF RateInv, RateTypeOK, senderVars
<1>8. SenderInv'
  BY <1>2, <1>6 DEF RateInv, SenderInv, senderVars
<1>9. PrinterInv'
  <2>1. /\ \A i \in 1..n : arrivals[i] \in Nat /\ arrivals[i] <= now /\ lines[i] = ServerLine(arrivals[i])
        /\ \A i, j \in 1..n : i < j => arrivals[i] <= arrivals[j]
        /\ turn_lines = turns
    BY <1>1 DEF RateInv, PrinterInv
  <2>0. n \in Nat
    BY <1>1
  <2> HIDE DEF n
  <2>2. \A i \in 1..(n + 1) : i \in 1..n \/ i = n + 1
    BY <2>0
  <2>3. \A i \in 1..(n + 1) : arrivals'[i] <= now /\ lines'[i] = ServerLine(arrivals'[i])
    <3> TAKE i \in 1..(n + 1)
    <3>1. CASE i \in 1..n
      <4>1. arrivals'[i] = arrivals[i] /\ lines'[i] = lines[i]
        BY <1>4, <1>5, <3>1
      <4>2. arrivals[i] <= now /\ lines[i] = ServerLine(arrivals[i])
        BY <2>1, <3>1
      <4> QED BY <4>1, <4>2
    <3>2. CASE i = n + 1
      <4>1. arrivals'[i] = now /\ lines'[i] = ServerLine(now)
        BY <1>4, <1>5, <3>2
      <4>2. now <= now
        BY <1>1
      <4> QED BY <4>1, <4>2
    <3> QED BY <2>2, <3>1, <3>2
  <2>4. ASSUME NEW i \in 1..(n + 1), NEW j \in 1..(n + 1), i < j
        PROVE  arrivals'[i] <= arrivals'[j]
    <3>1. i \in 1..n
      BY <2>0, <2>4
    <3>2. arrivals'[i] = arrivals[i] /\ arrivals[i] <= now
      BY <1>4, <2>1, <3>1
    <3>3. CASE j \in 1..n
      <4>1. arrivals'[j] = arrivals[j]
        BY <1>4, <3>3
      <4>2. arrivals[i] <= arrivals[j]
        BY <2>1, <2>4, <3>1, <3>3
      <4> QED BY <3>2, <4>1, <4>2
    <3>4. CASE j = n + 1
      <4>1. arrivals'[j] = now
        BY <1>4, <3>4
      <4> QED BY <3>2, <4>1
    <3> QED BY <2>2, <3>3, <3>4
  <2>5. now' = now /\ turn_lines' = turns' /\ Len(lines') = Len(arrivals') /\ Len(arrivals') = n + 1
    BY <1>2, <1>4, <1>5, <2>1
  <2>6. \A i \in 1..(n + 1) : ServerLine(arrivals'[i]) = ServerLine(arrivals[i])'
    BY DEF ServerLine, Unpadded, Second, Power
  <2> QED BY <2>3, <2>4, <2>5, <2>6 DEF PrinterInv
<1> QED BY <1>7, <1>8, <1>9 DEF RateInv

\* a line of sleeptest,
LEMMA TurnSteps == RateInv /\ PrintTurn => RateInv'
<1> SUFFICES ASSUME RateInv, PrintTurn PROVE RateInv'
  OBVIOUS
<1>1. /\ now \in Nat /\ turns \in Seq(Nat) /\ turn_lines = turns
      /\ Len(turn_lines) < MaxLines /\ MaxLines \in Nat
  BY RateBounds DEF RateInv, RateTypeOK, PrinterInv, PrintTurn
<1>2. /\ turns' = Append(turns, now)
      /\ turn_lines' = Append(turn_lines, SleepTestLine(now))
      /\ UNCHANGED <<senderVars, in_flight, now, arrivals, lines>>
  BY DEF PrintTurn
<1>3. SleepTestLine(now) = now
  BY <1>1, LinesShow
<1>4. turn_lines' = turns'
  BY <1>1, <1>2, <1>3
<1>5. turns' \in Seq(Nat) /\ Len(turns') <= MaxLines
  BY <1>1, <1>2, GrowsAtEnd
<1>6. RateTypeOK'
  BY <1>2, <1>4, <1>5 DEF RateInv, RateTypeOK, senderVars
<1>7. SenderInv' /\ PrinterInv'
  BY <1>2, <1>4 DEF RateInv, SenderInv, PrinterInv, senderVars
<1> QED BY <1>6, <1>7 DEF RateInv

\* and a step of something else.
LEMMA RateRests == RateInv /\ UNCHANGED rateVars => RateInv'
<1> SUFFICES ASSUME RateInv, UNCHANGED rateVars PROVE RateInv'
  OBVIOUS
<1>1. UNCHANGED <<senderVars, in_flight, now, printerVars>>
  BY DEF rateVars
<1> QED BY <1>1 DEF RateInv, RateTypeOK, SenderInv, PrinterInv, senderVars, printerVars

\* and so does every step.
LEMMA RateSteps == RateInv /\ [RateNext]_rateVars => RateInv'
BY SenderSteps, ClockSteps, ArrivalSteps, TurnSteps, RateRests DEF RateNext

\* What is printed follows from it.  Of two lines out of order the later
\* datagram came at the time the line of the earlier one already passes, so
\* in the same second, and only digits without their zeros pass their time.
LEMMA PrintsExplained == RateInv => RatePrintsExplained
<1> SUFFICES ASSUME RateInv PROVE RatePrintsExplained
  OBVIOUS
<1>1. CountIsSent
  BY DEF RateInv, SenderInv, CountIsSent
<1>2. /\ arrivals \in Seq(Nat) /\ lines \in Seq(Nat) /\ Len(arrivals) = Len(lines)
      /\ \A i \in 1..Len(arrivals) : lines[i] = ServerLine(arrivals[i])
      /\ \A i, j \in 1..Len(arrivals) : i < j => arrivals[i] <= arrivals[j]
      /\ turn_lines = turns
  BY DEF RateInv, RateTypeOK, PrinterInv
<1>3. ASSUME NEW i \in DOMAIN lines, NEW j \in DOMAIN lines, i < j, lines[j] < lines[i]
      PROVE  /\ arrivals[i] \div Second = arrivals[j] \div Second
             /\ arrivals[i] % Second < Second \div Base
             /\ arrivals[i] < lines[i]
  <2> DEFINE s == arrivals[i]
             t == arrivals[j]
  <2>1. i \in 1..Len(arrivals) /\ j \in 1..Len(arrivals)
    BY <1>2
  <2>2. s \in Nat /\ t \in Nat /\ s <= t /\ ServerLine(t) < ServerLine(s)
    BY <1>2, <1>3, <2>1
  <2>3. /\ t <= ServerLine(t) /\ s <= ServerLine(s) /\ ServerLine(t) \in Nat /\ ServerLine(s) \in Nat
        /\ ServerLine(s) < (s \div Second) * Second + Second
        /\ s % Second >= Second \div Base => ServerLine(s) = s
    BY <2>2, LinesShow
  <2>4. /\ s \div Second \in Nat /\ s = (s \div Second) * Second + (s % Second)
        /\ t \div Second \in Nat /\ t = (t \div Second) * Second + (t % Second)
        /\ s % Second \in 0..(Second - 1) /\ t % Second \in 0..(Second - 1)
    BY <2>2, TimeOfDay
  <2>5. Second \in Nat \ {0} /\ Second \div Base \in Int
    BY SecondPositive, RateBounds
  <2>6. t < (s \div Second) * Second + Second
    <3>1. (s \div Second) * Second \in Nat
      BY <2>4, <2>5
    <3> QED BY <2>2, <2>3, <2>5, <3>1
  <2>7. ASSUME NEW q \in Nat, NEW r \in Nat, NEW a \in 0..(Second - 1), NEW b \in 0..(Second - 1),
               q * Second + a <= r * Second + b, r * Second + b < q * Second + Second
        PROVE  q = r
    <3>1. CASE r >= q + 1
      <4>1. r * Second >= (q + 1) * Second
        BY <2>5, <3>1
      <4>2. (q + 1) * Second = q * Second + Second /\ q * Second \in Nat /\ r * Second \in Nat
        BY <2>5
      <4> QED BY <2>5, <2>7, <4>1, <4>2
    <3>2. CASE q >= r + 1
      <4>1. q * Second >= (r + 1) * Second
        BY <2>5, <3>2
      <4>2. (r + 1) * Second = r * Second + Second /\ q * Second \in Nat /\ r * Second \in Nat
        BY <2>5
      <4> QED BY <2>5, <2>7, <4>1, <4>2
    <3> QED BY <3>1, <3>2
  <2> HIDE DEF s, t
  <2>8. s \div Second = t \div Second
    BY <2>2, <2>4, <2>6, <2>7
  <2>9. s # ServerLine(s)
    BY <2>2, <2>3
  <2>10. s % Second < Second \div Base
    BY <2>3, <2>4, <2>5, <2>9
  <2>11. s < ServerLine(s)
    BY <2>2, <2>3, <2>9
  <2> QED BY <1>2, <2>1, <2>8, <2>10, <2>11 DEF s, t
<1>4. LinesMisread
  BY <1>2, <1>3 DEF LinesMisread
<1> QED BY <1>1, <1>4 DEF RatePrintsExplained

\* The constant bit rate tools keep their types, whatever the base and the
\* digits of a second.
THEOREM RateTyped == RateSpec => []RateTypeOK
<1>1. RateInv => RateTypeOK
  BY DEF RateInv
<1> QED BY <1>1, RateInitially, RateSteps, PTL DEF RateSpec

\* The count the sender prints is that of the datagrams sent, and the lines
\* printed are misread only as described.
THEOREM RateExplained == RateSpec => []RatePrintsExplained
<1> QED BY PrintsExplained, RateInitially, RateSteps, PTL DEF RateSpec

-----------------------------------------------------------------------------
(* The parts side by side: what is proved of each holds of the whole.      *)

\* Analysis, map and constant bit rate tools disturb each other nowhere.
LEMMA PartsAreParts == PartsSpec => AnalysisSpec /\ MapSpec /\ RateSpec
<1>1. PartsInit => AnalysisInit /\ MapInit /\ RateInit
  BY DEF PartsInit
<1>2. [PartsNext]_<<part, allVars, mapVars, rateVars>> => [AnalysisNext]_allVars
  BY DEF PartsNext, Burst, Map, Rate
<1>3. [PartsNext]_<<part, allVars, mapVars, rateVars>> => [MapNext]_mapVars
  BY DEF PartsNext, Burst, Map, Rate
<1>4. [PartsNext]_<<part, allVars, mapVars, rateVars>> => [RateNext]_rateVars
  BY DEF PartsNext, Burst, Map, Rate
<1> QED BY <1>1, <1>2, <1>3, <1>4, PTL DEF PartsSpec, AnalysisSpec, MapSpec, RateSpec

\* All variables of the parts keep their types, in any burst, for any map and
\* however long the tools run.
THEOREM PartsTyped == PartsSpec => []PartsTypeOK
<1>1. TypeOK /\ AnalysisTypeOK /\ MapTypeOK /\ RateTypeOK => PartsTypeOK
  BY DEF PartsTypeOK
<1>2. AnalysisSpec => []TypeOK
  BY AnalysisImplementsTimes, TimesTyped, PTL
<1> QED BY <1>1, <1>2, PartsAreParts, AnalysisTyped, MapTyped, RateTyped, PTL
=============================================================================
