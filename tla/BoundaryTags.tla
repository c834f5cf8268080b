---------------------------- MODULE BoundaryTags ----------------------------
(***************************************************************************)
(* The boundary tags of the kernel heap, lib/alloc.c: a header in front of *)
(* every piece of memory, linked to the pieces beside it (split_left and   *)
(* split_right) and, while free, into the list of its exponent (next and   *)
(* prev).                                                                  *)
(*                                                                         *)
(* A heap is a record of the tags by address, l_freePages and              *)
(* l_completePages; an operator returns the heap after the function of the *)
(* same name.  A tag that melts into another one leaves the heap.          *)
(***************************************************************************)
EXTENDS Integers, FiniteSets

CONSTANTS TagSize,       \* sizeof(struct boundary_tag)
          PageSize,      \* l_pageSize
          PageCount,     \* l_pageCount, the least number of pages to ask for
          MinExp,        \* MINEXP
          MaxExp,        \* MAXEXP, the width of an int
          MaxComplete    \* MAXCOMPLETE

ASSUME HeapAssumption ==
    /\ {TagSize, PageSize, PageCount, MinExp, MaxComplete} \subseteq Nat \ {0}
    /\ MaxExp \in Nat /\ MinExp < MaxExp - 1

\* A tag is less than half of what an unsigned int counts, and the least block
\* is less than that.
ASSUME WidthAssumption ==
    /\ \A e \in MinExp..MaxExp : 2^e \in Nat \ {0}
    /\ TagSize + 2^(MaxExp - 1) <= 2^MaxExp
    /\ PageCount * PageSize < 2^MaxExp

NULL == 0

Exponents == MinExp..MaxExp - 1

Tag == [size : Nat, real_size : Nat, index : Exponents \cup {-1},
        split_left : Nat, split_right : Nat, next : Nat, prev : Nat]

EmptyHeap == [tags |-> [t \in {} |-> NULL],
              freePages |-> [e \in Exponents |-> NULL],
              completePages |-> [e \in Exponents |-> 0]]

\* Arithmetic in unsigned int, and the value of one as an int.
UInt(n) == n % 2^MaxExp
AsInt(n) == IF n < 2^(MaxExp - 1) THEN n ELSE n - 2^MaxExp

\* The loop ends at the latest when 1 << shift turns negative.
getexp(size) ==
    IF size < 2^MinExp THEN -1
    ELSE CHOOSE e \in MinExp..MaxExp - 2 :
            /\ 2^e <= size
            /\ e = MaxExp - 2 \/ size < 2^(e + 1)

\* The list that a tag of this real size belongs to.
ListOf(real_size) ==
    LET e == getexp(real_size - TagSize) IN IF e < MinExp THEN MinExp ELSE e

-----------------------------------------------------------------------------
(* The free lists.                                                         *)

\* Nobody reads the size field of a free tag: 0 stands for what is left in it.
insert_tag(h, t, index) ==
    LET head == h.freePages[index]
        linked == [u \in DOMAIN h.tags |->
                     [h.tags[u] EXCEPT !.prev = IF u = head THEN t ELSE @]]
    IN  [h EXCEPT !.tags = [linked EXCEPT ![t].index = index, ![t].size = 0,
                                          ![t].next = IF head # NULL THEN head ELSE @],
                  !.freePages[index] = t]

\* The tag that n steps along next lead to from the front of a list; NULL behind
\* its end.
Nth(h, e) ==
    LET at[n \in Nat] ==
            IF n = 0 THEN h.freePages[e]
            ELSE LET t == at[n - 1] IN IF t = NULL THEN NULL ELSE h.tags[t].next
    IN  at

remove_tag(h, t) ==
    LET r == h.tags[t]
        unlinked == [u \in DOMAIN h.tags |->
                       [h.tags[u] EXCEPT !.next = IF u = r.prev THEN r.next ELSE @,
                                         !.prev = IF u = r.next THEN r.prev ELSE @]]
    IN  [h EXCEPT !.tags = [unlinked EXCEPT ![t].next = NULL, ![t].prev = NULL,
                                            ![t].index = -1],
                  !.freePages[r.index] = IF @ = t THEN r.next ELSE @]

-----------------------------------------------------------------------------
(* Splitting and melting.                                                  *)

\* Faulty: the tag behind t keeps its split_left.
SwallowOneWay(h, left, t) ==
    LET r == h.tags[t]
    IN  [h EXCEPT !.tags = [u \in DOMAIN h.tags \ {t} |->
            [h.tags[u] EXCEPT
                !.real_size = IF u = left THEN @ + r.real_size ELSE @,
                !.split_right = IF u = left THEN r.split_right ELSE @]]]

\* The tag left takes over the memory of t, its neighbour on the right.
Swallow(h, left, t) ==
    LET r == h.tags[t]
    IN  [h EXCEPT !.tags = [u \in DOMAIN h.tags \ {t} |->
            [h.tags[u] EXCEPT
                !.real_size = IF u = left THEN @ + r.real_size ELSE @,
                !.split_right = IF u = left THEN r.split_right ELSE @,
                !.split_left = IF u = r.split_right THEN left ELSE @]]]

melt_left(h, t) == Swallow(h, h.tags[t].split_left, t)

absorb_right(h, t) ==
    LET right == h.tags[t].split_right
    IN  Swallow(remove_tag(h, right), t, right)

\* The part of t behind its payload becomes a free tag.
split_tag(h, t) ==
    LET r == h.tags[t]
        new == t + TagSize + r.size
        rest == r.real_size - TagSize - r.size
        newTag == [size |-> 0, real_size |-> rest, index |-> -1,
                   split_left |-> t, split_right |-> r.split_right,
                   next |-> NULL, prev |-> NULL]
        tags == [u \in DOMAIN h.tags \cup {new} |->
                   IF u = new THEN newTag
                   ELSE [h.tags[u] EXCEPT
                           !.split_left = IF u = r.split_right THEN new ELSE @,
                           !.split_right = IF u = t THEN new ELSE @,
                           !.real_size = IF u = t THEN @ - rest ELSE @]]
    IN  insert_tag([h EXCEPT !.tags = tags], new, ListOf(rest))
=============================================================================
