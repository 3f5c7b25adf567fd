---------------------------- MODULE KeyedStacks ----------------------------
(***************************************************************************)
(* What map.h is, seen from its callers: a stack of values for every key.  *)
(* A pop takes the top of some stack; when all are empty it breaks the     *)
(* map.  Nothing is said about the size.                                   *)
(***************************************************************************)
EXTENDS Integers, Sequences

CONSTANTS Keys, Values, NoValue

VARIABLES stacks, result, broken

Top(key) == IF stacks[key] = <<>> THEN NoValue ELSE Head(stacks[key])

Init ==
    /\ stacks = [key \in Keys |-> <<>>]
    /\ result = NoValue
    /\ broken = FALSE

Clear == stacks' = [key \in Keys |-> <<>>] /\ UNCHANGED result

Push(key) ==
    /\ \E value \in Values : stacks' = [stacks EXCEPT ![key] = <<value>> \o @]
    /\ UNCHANGED result

Look(key) == result' = Top(key) /\ UNCHANGED stacks

Take(key) ==
    /\ result' = Top(key)
    /\ stacks' = IF stacks[key] = <<>> THEN stacks
                 ELSE [stacks EXCEPT ![key] = Tail(@)]

Break ==
    /\ \A key \in Keys : stacks[key] = <<>>
    /\ broken' = TRUE
    /\ UNCHANGED <<stacks, result>>

Next ==
    /\ ~broken
    /\ \/ /\ Clear \/ \E key \in Keys : Push(key) \/ Look(key) \/ Take(key)
          /\ UNCHANGED broken
       \/ Break

Spec == Init /\ [][Next]_<<stacks, result, broken>>
=============================================================================
