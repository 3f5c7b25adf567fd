---------------------------- MODULE SparseVector ----------------------------
(***************************************************************************)
(* The growing array of the C programs: hw1/bufferprobe/vector.h.  A       *)
(* vector is its size and the contents of its slots, which are numbered    *)
(* from 0; slots nobody wrote hold NULL.                                   *)
(***************************************************************************)
EXTENDS Integers

CONSTANT NULL   \* the null pointer

\* The vectors of at most n slots.
Vectors(Element, n) ==
    UNION {[size : {s}, data : [0..(s - 1) -> Element \cup {NULL}]] : s \in 0..n}

vector_get(v, index) == IF index < v.size THEN v.data[index] ELSE NULL

\* One slot more than the size says, and a resize without the memcpy.
vector_resize_OneMore(v, size) ==
    [size |-> size, data |-> [i \in 0..size |-> vector_get(v, i)]]
vector_resize_Forgets(v, size) ==
    [size |-> size, data |-> [i \in 0..(size - 1) |-> NULL]]

\* calloc zeroes the new slots, memcpy keeps the old ones that fit.
vector_resize(v, size) ==
    [size |-> size, data |-> [i \in 0..(size - 1) |-> vector_get(v, i)]]

vector_init(size) == [size |-> size, data |-> [i \in 0..(size - 1) |-> NULL]]

\* Doubling an empty vector, too.
Room_StaysEmpty(v, index) ==
    IF index < v.size THEN v ELSE vector_resize(v, 2 * v.size)

\* A write past the end doubles the size, once.
Room(v, index) ==
    IF index < v.size THEN v
    ELSE vector_resize(v, 2 * (IF v.size = 0 THEN 1 ELSE v.size))

\* Once may not be enough: then the write is outside the array.
OutOfBounds(v, index) == index >= Room(v, index).size

vector_set(v, index, value) ==
    IF OutOfBounds(v, index) THEN Room(v, index)
    ELSE [Room(v, index) EXCEPT !.data[index] = value]

\* The slots that hold something.
Occupied(v) == {i \in 0..(v.size - 1) : v.data[i] # NULL}
=============================================================================
