-------------------------------- MODULE Pmm --------------------------------
(***************************************************************************)
(* The physical memory manager, kernel/arch/memory/pmm.c: a bitmap with a  *)
(* set bit for every page that is in use or not usable, and its clients,   *)
(* which write to the blocks they get and give back whole blocks.          *)
(*                                                                         *)
(* Addresses and lengths are counted in pages; page 0 is NULL.  The bitmap *)
(* lives in the memory it describes, so memset of its pages changes it.    *)
(* Page size and bits per byte are parameters to keep instances small.     *)
(***************************************************************************)
EXTENDS Integers, Sequences, FiniteSets

CONSTANTS PageSize,      \* PAGE_SIZE, bytes per page
          ByteBits,      \* bits per byte of the bitmap
          MemoryMaps,    \* the memory maps a boot loader may hand over
          Requests,      \* the page counts that callers ask for
          AddressLimit   \* no physical page has this number or a higher one

EntryType == {"usable", "reclaimable", "kernel", "reserved"}
Entry == [base : Nat, length : Nat, type : EntryType]

PageRun(base, n) == base..base + n - 1
Pages(b) == PageRun(b.addr, b.pages)
Usable(map) == UNION {PageRun(map[i].base, map[i].length) :
                         i \in {k \in DOMAIN map : map[k].type = "usable"}}

\* The boot loader's entries do not overlap, and page 0 is not usable.
ASSUME MapAssumption ==
    /\ PageSize \in Nat \ {0} /\ ByteBits \in Nat \ {0}
    /\ Requests \subseteq Nat \ {0}
    /\ AddressLimit \in Nat
    /\ \A map \in MemoryMaps :
          /\ map \in Seq(Entry)
          /\ 0 \notin Usable(map)
          /\ \A i \in DOMAIN map : map[i].base + map[i].length <= AddressLimit
          /\ \A i, j \in DOMAIN map : i # j =>
                PageRun(map[i].base, map[i].length)
                    \cap PageRun(map[j].base, map[j].length) = {}

VARIABLES memmap,         \* the boot loader's table, cut by pmm_initialize
          highest_page,   \* in pages
          usable_pages,
          bitmap,         \* [data |-> first page, size |-> bytes, set |-> bits]
          phase,          \* "boot", "ready", or why the machine stopped
          ret,            \* what the last pmm_allocate returned
          held,           \* the blocks that callers have
          written,        \* the blocks whose callers have stored data in them
          data,           \* the pages whose data has not been overwritten
          freed,          \* history: a block was given back
          refused,        \* history: the largest request that was refused
          overrun         \* history: a block was placed over a set bit

client == <<held, written, data, freed, refused, overrun>>
vars == <<memmap, highest_page, usable_pages, bitmap, phase, ret, client>>

Block == [addr : Nat, pages : Requests]

Bits(bm) == PageRun(0, bm.size * ByteBits)

Init ==
    /\ memmap \in MemoryMaps
    /\ highest_page = 0
    /\ usable_pages = 0
    /\ bitmap = [data |-> 0, size |-> 0, set |-> {}]
    /\ phase = "boot"
    /\ ret = 0
    /\ held = {} /\ written = {} /\ data = {}
    /\ freed = FALSE /\ refused = 0 /\ overrun = FALSE

-----------------------------------------------------------------------------
(* pmm_initialize.                                                         *)

\* The end of the highest entry that holds memory.
Tops(map) == {0} \cup {map[i].base + map[i].length :
                 i \in {k \in DOMAIN map :
                           map[k].type \in {"usable", "reclaimable", "kernel"}}}
HighestPage(map) == CHOOSE top \in Tops(map) : \A t \in Tops(map) : t <= top

\* Faulty: rounds down.
AlignDown(n, what) == (n \div what) * what

AlignUp(n, what) == ((n + what - 1) \div what) * what

BitmapSize(map) == AlignUp(HighestPage(map) \div ByteBits, PageSize)

\* Faulty: takes the first usable entry, whatever its length.
FirstUsable(map) ==
    LET U == {i \in DOMAIN map : map[i].type = "usable"}
    IN  IF U = {} THEN 0 ELSE CHOOSE i \in U : \A j \in U : i <= j

\* The first usable entry that the bitmap fits in; 0 if there is none.
BitmapEntry(map) ==
    LET Fits == {i \in DOMAIN map : /\ map[i].type = "usable"
                                    /\ map[i].length * PageSize >= BitmapSize(map)}
    IN  IF Fits = {} THEN 0 ELSE CHOOSE i \in Fits : \A j \in Fits : i <= j

\* Faulty: the entry gets shorter but still starts with the bitmap.
CutTail(map) ==
    [map EXCEPT ![BitmapEntry(map)].length = @ - (BitmapSize(map) \div PageSize)]

\* The table after the bitmap's pages were cut off its entry.
CutMap(map) ==
    LET n == BitmapSize(map) \div PageSize
    IN  [map EXCEPT ![BitmapEntry(map)] =
            [base |-> @.base + n, length |-> @.length - n, type |-> @.type]]

\* log("PANIC bitmap_size == 0") and halt, or memset through a NULL pointer.
InitializeFails ==
    /\ phase = "boot"
    /\ BitmapSize(memmap) = 0 \/ BitmapEntry(memmap) = 0
    /\ phase' = "panic"
    /\ highest_page' = HighestPage(memmap)
    /\ UNCHANGED <<memmap, usable_pages, bitmap, ret, client>>

pmm_initialize ==
    /\ phase = "boot"
    /\ BitmapSize(memmap) # 0
    /\ BitmapEntry(memmap) # 0
    /\ highest_page' = HighestPage(memmap)
    /\ memmap' = CutMap(memmap)
    /\ LET all == PageRun(0, BitmapSize(memmap) * ByteBits)
           free == Usable(CutMap(memmap))
       IN  /\ bitmap' = [data |-> memmap[BitmapEntry(memmap)].base,
                         size |-> BitmapSize(memmap),
                         set |-> all \ free]
           /\ usable_pages' = Cardinality(free)
           /\ phase' = IF free \subseteq all THEN "ready" ELSE "stray"
    /\ UNCHANGED <<ret, client>>

-----------------------------------------------------------------------------
(* Allocating and freeing.                                                 *)

\* The page of memory that bit b of the bitmap lies in.
BitPage(bm, b) == bm.data + ((b \div ByteBits) \div PageSize)

\* memset of n pages from page a clears the bits that lie in those pages.
ZeroedBits(bm, a, n) == {b \in bm.set : BitPage(bm, b) \notin PageRun(a, n)}

\* Faulty: the scan stops one page early.
CandidatesButLast(n) ==
    IF n > bitmap.size THEN {}
    ELSE {i \in PageRun(0, highest_page - 1) \cap Bits(bitmap) : i \notin bitmap.set}

\* Pages whose bit the scan finds clear.  It tests bit i for every j, so the
\* pages behind i do not matter.
Candidates(n) ==
    IF n > bitmap.size THEN {}
    ELSE {i \in PageRun(0, highest_page) \cap Bits(bitmap) : i \notin bitmap.set}

\* Faulty: the page in front of the one that the scan found.
CandidateBefore(n) ==
    (CHOOSE i \in Candidates(n) : \A j \in Candidates(n) : i <= j) - 1

FirstCandidate(n) ==
    CHOOSE i \in Candidates(n) : \A j \in Candidates(n) : i <= j

\* The scan runs past the end of the bitmap.
ScanStrays(n) ==
    /\ n <= bitmap.size
    /\ Candidates(n) = {}
    /\ ~(PageRun(0, highest_page) \subseteq Bits(bitmap))

\* What the caller of pmm_allocate_zero(n) gets at page i.
Grant(i, n) ==
    /\ ret' = i
    /\ usable_pages' = usable_pages - n
    /\ held' = held \cup {[addr |-> i, pages |-> n]}
    /\ overrun' = (overrun \/ PageRun(i, n) \cap bitmap.set # {})
    /\ UNCHANGED <<memmap, highest_page, written, freed, refused>>

\* Faulty: clears one page too many.
AllocateZeroesTooMuch(n) ==
    /\ phase = "ready"
    /\ Candidates(n) # {}
    /\ LET i == FirstCandidate(n)
           marked == [bitmap EXCEPT !.set = (@ \cup PageRun(i, n)) \cap Bits(bitmap)]
       IN  /\ Grant(i, n)
           /\ bitmap' = [marked EXCEPT !.set = ZeroedBits(marked, i, n)]
           /\ phase' = IF PageRun(i, n) \subseteq Bits(bitmap) THEN "ready" ELSE "stray"
           /\ data' = data \ PageRun(i, n + 1)

\* pmm_allocate_zero with a page to give.
pmm_allocate_zero(n) ==
    /\ phase = "ready"
    /\ Candidates(n) # {}
    /\ LET i == FirstCandidate(n)
           marked == [bitmap EXCEPT !.set = (@ \cup PageRun(i, n)) \cap Bits(bitmap)]
       IN  /\ Grant(i, n)
           /\ bitmap' = [marked EXCEPT !.set = ZeroedBits(marked, i, n)]
           /\ phase' = IF PageRun(i, n) \subseteq Bits(bitmap) THEN "ready" ELSE "stray"
           /\ data' = data \ PageRun(i, n)

\* pmm_allocate returned NULL; memset clears physical memory from page 0 on.
AllocateFails(n) ==
    /\ phase = "ready"
    /\ Candidates(n) = {}
    /\ ret' = 0
    /\ phase' = IF ScanStrays(n) THEN "stray" ELSE "ready"
    /\ bitmap' = [bitmap EXCEPT !.set = ZeroedBits(bitmap, 0, n)]
    /\ data' = data \ PageRun(0, n)
    /\ refused' = IF n > refused THEN n ELSE refused
    /\ UNCHANGED <<memmap, highest_page, usable_pages, held, written, freed, overrun>>

\* Faulty: frees one page too few.
FreeTooFew(b) ==
    /\ phase = "ready"
    /\ b \in held
    /\ bitmap' = [bitmap EXCEPT !.set = @ \ PageRun(b.addr, b.pages - 1)]
    /\ usable_pages' = usable_pages + b.pages - 1
    /\ held' = held \ {b}
    /\ written' = written \ {b}
    /\ freed' = TRUE
    /\ UNCHANGED <<memmap, highest_page, phase, ret, data, refused, overrun>>

\* The owner of a block gives it back.
pmm_free(b) ==
    /\ phase = "ready"
    /\ b \in held
    /\ bitmap' = [bitmap EXCEPT !.set = @ \ Pages(b)]
    /\ usable_pages' = usable_pages + b.pages
    /\ held' = held \ {b}
    /\ written' = written \ {b}
    /\ freed' = TRUE
    /\ UNCHANGED <<memmap, highest_page, phase, ret, data, refused, overrun>>

\* The owner of a block stores data in it.
ClientWrites(b) ==
    /\ phase = "ready"
    /\ b \in held \ written
    /\ written' = written \cup {b}
    /\ data' = data \cup Pages(b)
    /\ UNCHANGED <<memmap, highest_page, usable_pages, bitmap, phase, ret, held,
                   freed, refused, overrun>>

Stopped == phase \notin {"boot", "ready"} /\ UNCHANGED vars

Next ==
    \/ pmm_initialize
    \/ InitializeFails
    \/ \E n \in Requests : pmm_allocate_zero(n) \/ AllocateFails(n)
    \/ \E b \in held : pmm_free(b) \/ ClientWrites(b)
    \/ Stopped

Spec == Init /\ [][Next]_vars

-----------------------------------------------------------------------------
(* Properties.                                                             *)

TypeOK ==
    /\ memmap \in Seq(Entry)
    /\ highest_page \in Nat
    /\ usable_pages \in Int
    /\ bitmap \in [data : Nat, size : Nat, set : SUBSET Nat]
    /\ phase \in {"boot", "ready", "panic", "stray"}
    /\ ret \in Nat
    /\ held \subseteq Block
    /\ written \subseteq held
    /\ data \subseteq Nat
    /\ freed \in BOOLEAN /\ refused \in Nat /\ overrun \in BOOLEAN

Owned == UNION {Pages(b) : b \in held}

\* No page belongs to two blocks that callers hold at the same time: a pointer
\* that the manager returns is a pointer to memory allocated for the caller.
OneOwner == \A b, c \in held : b # c => Pages(b) \cap Pages(c) = {}

\* What this step allocates has no owner.
Fresh == \A n \in Requests :
             pmm_allocate_zero(n) => PageRun(ret', n) \cap Owned = {}

\* No block reaches into the memory of the bitmap.
BitmapAlone ==
    \A b \in held : \A k \in Bits(bitmap) : BitPage(bitmap, k) \notin Pages(b)

\* Until a block is freed, a request is refused or a block that crosses a gap
\* of the memory map runs into the bitmap, pmm_allocate returns pages without
\* an owner whatever sizes are asked for, although the scan looks at one bit.
FreshUntilFree == [][~freed /\ refused = 0 /\ BitmapAlone => Fresh]_vars

\* Neither of the two things that ruin the manager's records has happened: the
\* scan, which tests bit i for every j, placed no block over a set bit, and no
\* refused request was so large that memset, from page 0 on, reached the bitmap.
Undamaged == ~overrun /\ refused <= bitmap.data

\* Nothing else ruins them.  For requests of all sizes, freed and refused in
\* any order, the bits are right and the counter agrees: a clear bit means a
\* usable page without an owner, and usable_pages is their number, so that no
\* page is lost.
BitsExact ==
    phase = "ready" /\ Undamaged =>
        /\ Bits(bitmap) \ bitmap.set = Usable(memmap) \ Owned
        /\ usable_pages = Cardinality(Bits(bitmap) \ bitmap.set)

\* Until then callers have usable pages only, no page belongs to two of them,
\* and none of the bitmap's own memory, cut off its entry, belongs to anybody.
HeldAreUsable ==
    phase = "ready" /\ Undamaged =>
        Owned \subseteq Usable(memmap) /\ OneOwner /\ BitmapAlone

\* What an owner stored in its block stays there until it frees the block: no
\* allocation clears it, but for a refused one, which clears the pages below
\* its own size, whoever has them.
DataKept ==
    phase = "ready" /\ Undamaged =>
        \A b \in written : Pages(b) \ PageRun(0, refused) \subseteq data

\* A request that is not too big is refused only when callers have every page
\* of usable memory: the scan overlooks none, the last one included.
RefusedWhenNoneLeft ==
    [][\A n \in Requests :
          AllocateFails(n) /\ Undamaged /\ n <= bitmap.size =>
              Usable(memmap) \subseteq Owned]_vars

\* The code leaves the bitmap in two ways only: the bitmap is too small, because
\* the number of pages is no multiple of the bits of a byte and its size, rounded
\* down, is a whole number of pages; or a block reaches behind the last page.
StrayOnlyAtTheEdge ==
    phase = "stray" =>
        \/ highest_page % ByteBits # 0 /\ (highest_page \div ByteBits) % PageSize = 0
        \/ \E b \in held : ~(Pages(b) \subseteq Bits(bitmap))
=============================================================================
