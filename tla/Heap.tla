-------------------------------- MODULE Heap --------------------------------
(***************************************************************************)
(* The kernel heap, lib/alloc.c: malloc, free, calloc and realloc on top   *)
(* of the page hooks of main.c, and callers that give back what they got.  *)
(*                                                                         *)
(* Each call runs under liballoc_lock.  A pointer stands for the tag in    *)
(* front of it.  The hook is pmm_allocate_zero, which others use too: for  *)
(* all the heap knows it returns any page, and the pages behind that one   *)
(* come along whoever has them (Pmm).  The model stops where the heap goes *)
(* on in memory that is not its own:                                       *)
(*   "overlap"  the hook returned pages that the heap has, or no memory;   *)
(*   "page0"    it had none: MMAP_IO_BASE is not NULL, and the heap builds *)
(*              its next tag over physical page 0;                         *)
(*   "wrapped"  a size wraps with its header, as an unsigned int, or is    *)
(*              negative, as an int, when realloc copies.                  *)
(***************************************************************************)
EXTENDS BoundaryTags, FiniteSetsExt, Functions

CONSTANTS Sizes,         \* the sizes that callers ask for; users of read and
                         \* write choose them
          LastPage       \* the pages 1..LastPage are memory

ASSUME SizesAssumption == Sizes \subseteq Nat /\ LastPage \in Nat

VARIABLES heap,          \* the tags, l_freePages and l_completePages
          pages,         \* the pages that liballoc_alloc gave to the heap
          held,          \* for every pointer that a caller has, as the address
                         \* of its tag, the size that was asked for
          phase          \* "running", or why the model stopped

vars == <<heap, pages, held, phase>>

Init ==
    /\ heap = EmptyHeap
    /\ pages = {}
    /\ held = [t \in {} |-> 0]
    /\ phase = "running"

tags == heap.tags

-----------------------------------------------------------------------------
(* malloc.                                                                 *)

\* Faulty: room for the payload, but not for the header.
RoomForPayload(t, size) == t.real_size >= size

\* Is there room for the payload and for one more tag?
Fits(t, size) == t.real_size - TagSize >= size + TagSize

\* The first tag of the one list that malloc searches; NULL if none fits.  The
\* loop looks at no more tags than there are.
FirstFit(h, size) ==
    LET start == IF getexp(size) < MinExp THEN MinExp ELSE getexp(size)
        search[n \in Nat] ==
            IF n = 0 THEN h.freePages[start]
            ELSE LET t == search[n - 1]
                 IN  IF t = NULL \/ Fits(h.tags[t], size) THEN t ELSE h.tags[t].next
    IN  search[Cardinality(DOMAIN h.tags)]

\* Faulty: a whole block that is taken stays counted.
TakeUncounted(h, t) == remove_tag(h, t)

\* Take t off its list.
Take(h, t) ==
    LET whole == h.tags[t].split_left = NULL /\ h.tags[t].split_right = NULL
    IN  [remove_tag(h, t) EXCEPT !.completePages[h.tags[t].index] =
            IF whole THEN @ - 1 ELSE @]

\* The number of pages that allocate_new_tag asks the hook for; size is an
\* unsigned int there.
PagesFor(size) ==
    LET usage == UInt(size + TagSize)
        n == usage \div PageSize + (IF usage % PageSize = 0 THEN 0 ELSE 1)
    IN  IF n < PageCount THEN PageCount ELSE n

allocate_new_tag(h, t, size) ==
    [h EXCEPT !.tags = [u \in DOMAIN h.tags \cup {t} |->
        IF u # t THEN h.tags[u]
        ELSE [size |-> UInt(size), real_size |-> UInt(PagesFor(size) * PageSize),
              index |-> -1, split_left |-> NULL, split_right |-> NULL,
              next |-> NULL, prev |-> NULL]]]

\* The end of malloc: store the size, split off the rest if it is big enough.
SplitRest(h, t, size) ==
    LET g == [h EXCEPT !.tags[t].size = UInt(size)]
        rest == AsInt(UInt(h.tags[t].real_size - size - 2 * TagSize))
    IN  IF rest > 0 /\ getexp(rest) >= 0 THEN split_tag(g, t) ELSE g

\* The pages that pmm_allocate marks for n pages when the first clear bit is at
\* first, and whether they are memory that the heap does not have yet.
Run(first, n) == first..first + n - 1
IsNew(pg, first, n) == Run(first, n) \subseteq 1..LastPage \ pg

\* usage, or the size of the block, is more than an unsigned int counts.
Wraps(size) == UInt(size) + TagSize + PageSize > 2^MaxExp

\* malloc(size) finds a piece, or gets new pages from first on.
Served(h, pg, size, first) ==
    \/ FirstFit(h, size) # NULL
    \/ ~Wraps(size) /\ IsNew(pg, first, PagesFor(UInt(size)))

\* The heap and its pages after malloc(size), and the tag that it returns.
MallocResult(h, pg, size, first) ==
    LET fit == FirstFit(h, size)
        n == PagesFor(UInt(size))
        t == IF fit # NULL THEN fit ELSE first * PageSize
        g == IF fit # NULL THEN Take(h, t) ELSE allocate_new_tag(h, t, UInt(size))
    IN  [heap |-> SplitRest(g, t, UInt(size)),
         pages |-> IF fit # NULL THEN pg ELSE pg \cup Run(first, n),
         tag |-> t]

-----------------------------------------------------------------------------
(* free.                                                                   *)

IsFree(h, t) == t # NULL /\ h.tags[t].index >= 0

\* One round of the loop that melts a tag to the left, on the heap and the tag.
LeftRound(s) ==
    LET left == s[1].tags[s[2]].split_left
    IN  IF IsFree(s[1], left) THEN <<remove_tag(melt_left(s[1], s[2]), left), left>>
        ELSE s

\* The loop; there are no more rounds than tags.
MeltLeft(h, t) ==
    LET rounds[n \in Nat] == IF n = 0 THEN <<h, t>> ELSE LeftRound(rounds[n - 1])
    IN  rounds[Cardinality(DOMAIN h.tags)]

RightRound(h, t) ==
    IF IsFree(h, h.tags[t].split_right) THEN absorb_right(h, t) ELSE h

MeltRight(h, t) ==
    LET rounds[n \in Nat] == IF n = 0 THEN h ELSE RightRound(rounds[n - 1], t)
    IN  rounds[Cardinality(DOMAIN h.tags)]

\* A whole block that is one too many to keep.
GoesBack(h, t, index) ==
    /\ h.tags[t].split_left = NULL /\ h.tags[t].split_right = NULL
    /\ h.completePages[index] = MaxComplete

\* The number of pages that free gives back to the hook.
PagesBack(t) ==
    LET n == t.real_size \div PageSize + (IF t.real_size % PageSize = 0 THEN 0 ELSE 1)
    IN  IF n < PageCount THEN PageCount ELSE n

\* The heap and its pages after free of the payload of t.
FreeResult(h, pg, t) ==
    LET left == MeltLeft(h, t)
        u == left[2]
        g == MeltRight(left[1], u)
        r == g.tags[u]
        index == ListOf(r.real_size)
        whole == r.split_left = NULL /\ r.split_right = NULL
        first == u \div PageSize
    IN  IF GoesBack(g, u, index)
        THEN [heap |-> [g EXCEPT !.tags = [v \in DOMAIN g.tags \ {u} |-> g.tags[v]]],
              pages |-> pg \ (first..first + PagesBack(r) - 1)]
        ELSE [heap |-> insert_tag([g EXCEPT !.completePages[index] =
                                       IF whole THEN @ + 1 ELSE @], u, index),
              pages |-> pg]

-----------------------------------------------------------------------------
(* The calls.                                                              *)

\* What callers hold, with one more pointer.
Plus(f, t, size) == [u \in DOMAIN f \cup {t} |-> IF u = t THEN size ELSE f[u]]

\* malloc, and calloc, which clears the payload it gets.
malloc(size, first) ==
    /\ phase = "running"
    /\ Served(heap, pages, size, first)
    /\ LET r == MallocResult(heap, pages, size, first)
       IN  /\ heap' = r.heap
           /\ pages' = r.pages
           /\ held' = Plus(held, r.tag, size)
    /\ UNCHANGED phase

\* malloc and realloc ask the hook in vain, or get the page at first with pages
\* behind it that are not theirs to have.
HookFails(size, first) ==
    /\ phase = "running"
    /\ FirstFit(heap, size) = NULL
    /\ \/ phase' = "page0"
       \/ ~Wraps(size) /\ ~IsNew(pages, first, PagesFor(UInt(size))) /\ phase' = "overlap"
       \/ Wraps(size) /\ phase' = "wrapped"
    /\ UNCHANGED <<heap, pages, held>>

\* free, and realloc to size 0.
free(t) ==
    /\ phase = "running"
    /\ t \in DOMAIN held
    /\ LET f == FreeResult(heap, pages, t)
       IN  heap' = f.heap /\ pages' = f.pages
    /\ held' = Restrict(held, DOMAIN held \ {t})
    /\ UNCHANGED phase

\* Faulty: the old piece is freed before the new one is found.
ReallocFreesFirst(t, size, first) ==
    /\ phase = "running"
    /\ t \in DOMAIN held /\ size # 0
    /\ LET f == FreeResult(heap, pages, t)
           r == MallocResult(f.heap, f.pages, size, first)
       IN  /\ Served(f.heap, f.pages, size, first)
           /\ heap' = r.heap
           /\ pages' = r.pages
           /\ held' = Plus(Restrict(held, DOMAIN held \ {t}), r.tag, size)
    /\ UNCHANGED phase

\* realloc copies the old size or the new one, whichever is less as an int.  A
\* negative one becomes a huge count of bytes.
CopyFits(t, size, r) ==
    LET old == AsInt(tags[t].size)
        new == AsInt(UInt(size))
        n == IF old > new THEN new ELSE old
    IN  n >= 0 /\ TagSize + n <= r.heap.tags[r.tag].real_size

\* Get a new piece, copy, free the old piece.
realloc(t, size, first) ==
    /\ phase = "running"
    /\ t \in DOMAIN held /\ size # 0
    /\ Served(heap, pages, size, first)
    /\ LET r == MallocResult(heap, pages, size, first)
           f == FreeResult(r.heap, r.pages, t)
       IN  /\ CopyFits(t, size, r)
           /\ heap' = f.heap
           /\ pages' = f.pages
           /\ held' = Plus(Restrict(held, DOMAIN held \ {t}), r.tag, size)
    /\ UNCHANGED phase

\* The copy runs over the piece: one of the sizes is negative as an int.
CopyOverruns(t, size, first) ==
    /\ phase = "running"
    /\ t \in DOMAIN held /\ size # 0
    /\ Served(heap, pages, size, first)
    /\ ~CopyFits(t, size, MallocResult(heap, pages, size, first))
    /\ phase' = "wrapped"
    /\ UNCHANGED <<heap, pages, held>>

Stopped == phase # "running" /\ UNCHANGED vars

Next ==
    \/ \E size \in Sizes, first \in 1..LastPage :
          \/ malloc(size, first)
          \/ HookFails(size, first)
          \/ \E t \in DOMAIN held : realloc(t, size, first) \/ CopyOverruns(t, size, first)
    \/ \E t \in DOMAIN held : free(t)
    \/ Stopped

Spec == Init /\ [][Next]_vars

-----------------------------------------------------------------------------
(* Properties.                                                             *)

TypeOK ==
    /\ \A t \in DOMAIN tags : tags[t] \in Tag
    /\ heap.freePages \in [Exponents -> DOMAIN tags \cup {NULL}]
    /\ heap.completePages \in [Exponents -> 0..MaxComplete]
    /\ pages \subseteq 1..LastPage
    /\ DOMAIN held \subseteq DOMAIN tags
    /\ \A t \in DOMAIN held : held[t] \in Nat
    /\ phase \in {"running", "page0", "overlap", "wrapped"}

FreeTags == DOMAIN tags \ DOMAIN held
End(t) == t + tags[t].real_size

\* The tags divide the pages of the heap among themselves: every byte of a
\* page belongs to one tag.  Nothing leaks in split, melt and absorb, and the
\* hook gets back the pages it gave.
Tiled ==
    /\ UNION {t..End(t) - 1 : t \in DOMAIN tags} =
          UNION {p * PageSize..p * PageSize + PageSize - 1 : p \in pages}
    /\ \A t, u \in DOMAIN tags : t < u => End(t) <= u

\* split_left and split_right are inverse and lead to the piece next door.
LinksAgree ==
    \A t, u \in DOMAIN tags :
        /\ tags[t].split_right = u => u = End(t)
        /\ tags[t].split_right = u <=> tags[u].split_left = t

\* The elements of a free list.
Reach(e) == {Nth(heap, e)[n] : n \in 0..Cardinality(DOMAIN tags)} \ {NULL}

\* A free list has exactly the tags that nobody holds and whose size has its
\* exponent, and prev is the inverse of next.
ListsExact ==
    /\ \A e \in Exponents :
          Reach(e) = {t \in FreeTags : ListOf(tags[t].real_size) = e}
    /\ \A t \in DOMAIN tags :
          /\ t \notin FreeTags <=> tags[t].index = -1
          /\ t \in FreeTags => tags[t].index = ListOf(tags[t].real_size)
          /\ tags[t].next # NULL => tags[tags[t].next].prev = t
          /\ tags[t].prev # NULL => tags[tags[t].prev].next = t

\* Two free pieces never lie side by side in a block: both loops of free are
\* needed, and one round of each is enough.
Melted ==
    \A t \in FreeTags : tags[t].split_right \notin FreeTags

\* l_completePages counts the whole blocks that wait in each list, and no more
\* than MAXCOMPLETE of them wait.
CompleteExact ==
    \A e \in Exponents :
        heap.completePages[e] =
            Cardinality({t \in Reach(e) : /\ tags[t].split_left = NULL
                                          /\ tags[t].split_right = NULL})

\* The boundary tags are right whatever order pieces were taken and freed in,
\* for as long as the page layer gives each page once.
TagsExact == TypeOK /\ Tiled /\ LinksAgree /\ Melted

\* So are the two tables that free and malloc steer by.
TablesExact == ListsExact /\ CompleteExact

\* A payload is inside its piece, so no caller overwrites a header or the data
\* of another caller: the whole of it if the size is less than 4 GiB, and what
\* an unsigned int keeps of any other size.
PayloadFits == \A t \in DOMAIN held : t + TagSize + UInt(held[t]) <= End(t)

\* "The standard function" (alloc.h), which gives a caller what it asked for.
\* allocate_new_tag takes an unsigned int where malloc takes a size_t.
PayloadWhole == \A t \in DOMAIN held : t + TagSize + held[t] <= End(t)

\* What callers see of the heap is what an allocator promises: the pieces of
\* memory that callers have are disjoint, and a call changes its own only.  It
\* promises no more than the unsigned int that is left of a size, and only
\* until the page layer gives it pages that it has ("overlap") or that are
\* not there ("page0").
Promise == INSTANCE Allocator WITH
              live <- {[ptr |-> t + TagSize, size |-> UInt(held[t])] : t \in DOMAIN held}

IsAllocator == Promise!Spec
=============================================================================
