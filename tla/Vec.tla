-------------------------------- MODULE Vec --------------------------------
(***************************************************************************)
(* The growable array of lib/vec.h and lib/vec.c, as far as the kernel     *)
(* uses it.  A vector is a record: data is the whole heap block (one       *)
(* element per slot of the capacity, slots past length included) and       *)
(* length is the number of slots in use.  Slots are numbered from 0 as in  *)
(* C; data is a TLA+ sequence, so slot i is data[i + 1].                   *)
(*                                                                         *)
(* Slots past length are kept because kernel code can read them: after a   *)
(* splice they hold stale elements, after a growth they hold whatever the  *)
(* heap block held, written Junk here.                                     *)
(***************************************************************************)
EXTENDS Integers, Sequences

CONSTANT Junk      \* the content of memory nobody has written

VecOf(S) == [data : Seq(S \cup {Junk}), length : Nat]

Capacity(v) == Len(v.data)

VecInit == [data |-> <<>>, length |-> 0]

\* The elements in use.
Elements(v) == {v.data[i] : i \in 1..v.length}

\* data[i]: a stale or never-written slot below the capacity, or foreign
\* memory beyond it.
VecAt(v, i) == IF i < Capacity(v) THEN v.data[i + 1] ELSE Junk

\* Doubles the block when it is full; realloc keeps the old slots.
vec_expand(v) ==
    IF v.length + 1 > Capacity(v)
    THEN LET n == IF Capacity(v) = 0 THEN 1 ELSE 2 * Capacity(v)
         IN  [v EXCEPT !.data = [i \in 1..n |->
                 IF i <= Capacity(v) THEN v.data[i] ELSE Junk]]
    ELSE v

vec_push(v, x) ==
    LET w == vec_expand(v)
    IN  [data |-> [w.data EXCEPT ![w.length + 1] = x], length |-> w.length + 1]

\* Faulty variant: the length shrinks, the slots are not moved.
vec_splice_no_move(v, start, count) ==
    [data |-> v.data, length |-> v.length - count]

\* memmove of the slots behind the hole; the slots that fall out of use
\* keep their old content.
vec_splice(v, start, count) ==
    [data |-> [i \in 1..Capacity(v) |->
                 IF start < i /\ i <= v.length - count
                 THEN v.data[i + count] ELSE v.data[i]],
     length |-> v.length - count]

\* Faulty variant: the search starts behind the first slot.
vec_find_from_1(v, x) ==
    IF \E i \in 1..v.length - 1 : v.data[i + 1] = x
    THEN CHOOSE i \in 1..v.length - 1 : v.data[i + 1] = x
    ELSE -1

\* The first slot that holds x, or -1.
vec_find(v, x) ==
    IF \E i \in 0..v.length - 1 : v.data[i + 1] = x
    THEN CHOOSE i \in 0..v.length - 1 :
            /\ v.data[i + 1] = x
            /\ \A j \in 0..i - 1 : v.data[j + 1] # x
    ELSE -1

vec_remove(v, x) ==
    IF vec_find(v, x) = -1 THEN v ELSE vec_splice(v, vec_find(v, x), 1)
=============================================================================
