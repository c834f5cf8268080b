----------------------------- MODULE Allocator -----------------------------
(* What malloc, free and realloc promise their callers.                    *)
EXTENDS Naturals

VARIABLE live      \* the pieces of memory that callers have

Bytes(x) == x.ptr..x.ptr + x.size - 1

Apart(x, S) == \A y \in S : Bytes(x) \cap Bytes(y) = {}

Init == live = {}

\* A new piece overlaps none of the others.
Allocate == \E x \in live' \ live : live' = live \cup {x} /\ Apart(x, live)

Release == \E x \in live : live' = live \ {x}

\* A piece moves to new memory, apart from the old piece and the others.
Move == \E x \in live, y \in live' \ live :
            live' = (live \ {x}) \cup {y} /\ Apart(y, live)

Next == Allocate \/ Release \/ Move

Spec == Init /\ [][Next]_live
=============================================================================
