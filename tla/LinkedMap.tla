----------------------------- MODULE LinkedMap -----------------------------
(***************************************************************************)
(* The map of the C programs (map.h): a linked list of elements with a     *)
(* key, and a size kept beside it.  One action per function; no program    *)
(* calls them, so a caller may call any of them at any time.               *)
(*                                                                         *)
(* The list is the sequence of its elements, the head first.               *)
(***************************************************************************)
EXTENDS Integers, SequencesExt

CONSTANTS
    Keys, Values,    \* of the elements
    NoValue,         \* the null pointer, as a value
    MaxSize          \* bound on the size the caller lets the map have

ASSUME MapAssumption == NoValue \notin Values /\ MaxSize \in Nat

VARIABLES
    elements,        \* what hangs on head
    size,
    result,          \* what the last call returned
    map_crashed,     \* a null pointer was followed
    pops             \* history: elements popped since the map was last empty by
                     \* map_init or map_clear

mapVars == <<elements, size, result, map_crashed, pops>>

Element == [key : Keys, value : Values]

MapInit ==
    /\ elements = <<>>
    /\ size = 0
    /\ result = NoValue
    /\ map_crashed = FALSE
    /\ pops = 0

map_clear ==
    /\ elements' = <<>>
    /\ size' = 0
    /\ pops' = 0
    /\ UNCHANGED result

\* The element is put before all others; one with the same key stays.
map_put(key, value) ==
    /\ size < MaxSize
    /\ elements' = <<[key |-> key, value |-> value]>> \o elements
    /\ size' = size + 1
    /\ UNCHANGED <<result, pops>>

\* The places of a key; the loops of map_remove and map_get end at the first.
Places(key) == {i \in DOMAIN elements : elements[i].key = key}

First(key) == CHOOSE i \in Places(key) : \A j \in Places(key) : i <= j

\* The size left as it was.
map_remove_KeepsSize(key) ==
    /\ IF Places(key) = {}
       THEN result' = NoValue /\ UNCHANGED elements
       ELSE /\ result' = elements[First(key)].value
            /\ elements' = RemoveAt(elements, First(key))
    /\ UNCHANGED <<size, pops>>

map_remove(key) ==
    /\ IF Places(key) = {}
       THEN result' = NoValue /\ UNCHANGED <<elements, size>>
       ELSE /\ result' = elements[First(key)].value
            /\ elements' = RemoveAt(elements, First(key))
            /\ size' = size - 1
    /\ UNCHANGED pops

\* A search that goes on to the last place of the key.
map_get_Last(key) ==
    /\ result' = IF Places(key) = {} THEN NoValue
                 ELSE elements[CHOOSE i \in Places(key) : \A j \in Places(key) : j <= i].value
    /\ UNCHANGED <<elements, size, pops>>

map_get(key) ==
    /\ result' = IF Places(key) = {} THEN NoValue ELSE elements[First(key)].value
    /\ UNCHANGED <<elements, size, pops>>

\* The head is taken off the list, the size stays; of an empty map the null
\* pointer is followed.
map_pop ==
    /\ elements # <<>>
    /\ result' = Head(elements).value
    /\ elements' = Tail(elements)
    /\ pops' = pops + 1
    /\ UNCHANGED size

map_pop_Empty ==
    /\ elements = <<>>
    /\ map_crashed' = TRUE
    /\ UNCHANGED <<elements, size, result, pops>>

MapCall ==
    \/ map_clear
    \/ \E key \in Keys, value \in Values : map_put(key, value)
    \/ \E key \in Keys : map_remove(key) \/ map_get(key)
    \/ map_pop

MapNext ==
    /\ ~map_crashed
    /\ \/ MapCall /\ UNCHANGED map_crashed
       \/ map_pop_Empty

MapSpec == MapInit /\ [][MapNext]_mapVars

-----------------------------------------------------------------------------
MapTypeOK ==
    /\ elements \in Seq(Element)
    /\ {size, pops} \subseteq 0..MaxSize
    /\ result \in Values \cup {NoValue}
    /\ map_crashed \in BOOLEAN

\* The size is that of the list only as long as nothing is popped: it counts
\* every popped element until the map is cleared, so that a caller who pops
\* while the size is not zero runs into the null pointer.
SizeCountsPops == size = Len(elements) + pops

\* The n-th place of a key, and the values under it, the latest first.
Place(key, n) == CHOOSE i \in Places(key) : Cardinality({j \in Places(key) : j <= i}) = n

ValuesOf(key) == [n \in 1..Cardinality(Places(key)) |-> elements[Place(key, n)].value]

\* The map is a stack of values for each key: get returns the value put last
\* and not yet removed, and to remove it brings back the one put before.
Stacks == INSTANCE KeyedStacks WITH
              stacks  <- [key \in Keys |-> ValuesOf(key)],
              broken  <- map_crashed

ImplementsStacks == Stacks!Spec
=============================================================================
