----------------------------- MODULE PageTables -----------------------------
(***************************************************************************)
(* The four levels of page tables that kernel/arch/memory/vmm.c writes and *)
(* the CPU walks, in the physical pages that pmm.c gives out.              *)
(*                                                                         *)
(* An address is a page number here; an entry is the pair of the page and  *)
(* the flags that the code joins with |.  The operators take and return    *)
(* the machine m, a record of                                              *)
(*   mem    every physical page, read as a table                           *)
(*   bytes  the bytes of data that are not zero, by physical address       *)
(*   used   the pages that the bitmap of pmm.c marks                       *)
(*   cr3    the table the CPU walks, or Loader, the boot loader's own      *)
(*   table  the table that vmm_map has reached                             *)
(*   halt   "none", or why the machine stopped.                            *)
(***************************************************************************)
EXTENDS Naturals, Sequences, SequencesExt

CONSTANTS Fan,          \* entries of a table, 512 in the code
          PageSize,     \* PAGE_SIZE, in bytes
          Top,          \* the number of physical pages
          IoBase,       \* MMAP_IO_BASE, as a page
          KernelBase,   \* MMAP_KERNEL_BASE, as a page
          Loader        \* cr3 before vmm_initialize

ASSUME SizesAssumption ==
    /\ Fan \in Nat /\ Fan > 1 /\ Fan % 2 = 0
    /\ PageSize \in Nat \ {0} /\ PageSize % 16 = 0
    /\ Top \in Nat \ {0}
    /\ IoBase \in Nat /\ KernelBase \in Nat

Index == 0..Fan - 1
Frame == 0..Top - 1

\* The pages below one entry of a table, by level.
Span == <<1, Fan, Fan * Fan, Fan * Fan * Fan>>

Page == 0..Fan * Span[4] - 1
UserPage == 0..(Fan \div 2) * Span[4] - 1

KernelFlags == 3        \* 0b11, present and writable
UserFlags == 7          \* 0b111, for user mode too

NoEntry == [frame |-> 0, flags |-> 0]
ZeroTable == [i \in Index |-> NoEntry]
Present(e) == e.flags % 2 = 1

Zero == <<"zero">>      \* what a byte outside DOMAIN bytes holds

BytesOf(frames) == UNION {f * PageSize..(f + 1) * PageSize - 1 : f \in frames}

Clear(bytes, addresses) == [a \in DOMAIN bytes \ addresses |-> bytes[a]]

PML_ENTRY(page, level) == (page \div Span[level]) % Fan

-----------------------------------------------------------------------------
(* The CPU.                                                                *)

\* Rights are the rights of all the levels: 0, 3 and 7 are nested.
Below(e, f) == [frame |-> f.frame,
                flags |-> IF e.flags <= f.flags THEN e.flags ELSE f.flags]

Lookup(mem, e, index) ==
    IF Present(e) THEN Below(e, mem[e.frame][index]) ELSE NoEntry

Level3(mem, map, page) ==
    Lookup(mem, [frame |-> map, flags |-> UserFlags], PML_ENTRY(page, 4))

\* What an access to a page reaches under the map.
Walk(mem, map, page) ==
    Lookup(mem,
           Lookup(mem,
                  Lookup(mem, Level3(mem, map, page), PML_ENTRY(page, 3)),
                  PML_ENTRY(page, 2)),
           PML_ENTRY(page, 1))

\* The kernel reaches the physical page at base + frame.  The boot loader's
\* tables reach everything.
Reaches(m, base, frame) ==
    \/ m.cr3 = Loader
    \/ LET e == Walk(m.mem, m.cr3, base + frame)
       IN  Present(e) /\ e.frame = frame

-----------------------------------------------------------------------------
(* pmm.c.                                                                  *)

Stop(m, why) == [m EXCEPT !.halt = why]

Free(m) == Frame \ m.used

\* What pmm_allocate returns: NULL if there is none.
FirstFree(m) ==
    IF Free(m) = {} THEN 0 ELSE CHOOSE f \in Free(m) : \A g \in Free(m) : f <= g

Granted(m, n) == FirstFree(m)..FirstFree(m) + n - 1

\* set_pages, and the memset of pmm_allocate_zero.
Give(m, frames) ==
    [m EXCEPT !.mem = [f \in Frame |-> IF f \in frames THEN ZeroTable ELSE @[f]],
              !.bytes = Clear(@, BytesOf(frames)),
              !.used = @ \cup frames]

\* pmm_allocate_zero(n).  With nothing free the address is 0 and the memset
\* clears physical page 0 ("page0"); the search looks at the first of the n
\* pages only ("overlap", see Pmm); a page outside the window faults.
pmm_allocate_zero(m, n) ==
    IF m.halt # "none" THEN m
    ELSE IF Free(m) = {} THEN Stop(m, "page0")
    ELSE IF ~(Granted(m, n) \subseteq Free(m)) THEN Stop(m, "overlap")
    ELSE IF \E f \in Granted(m, n) : ~Reaches(m, IoBase, f) THEN Stop(m, "fault")
    ELSE Give(m, Granted(m, n))

-----------------------------------------------------------------------------
(* vmm.c.                                                                  *)

Enter(m, frame) == [m EXCEPT !.table = frame]

SetEntry(m, index, frame, flags) ==
    [m EXCEPT !.mem[m.table][index] = [frame |-> frame, flags |-> flags]]

\* m2 is m with one page more, for the missing table.
Link(m, m2, index, flags) ==
    IF m2.halt # "none" THEN m2
    ELSE Enter(SetEntry(m2, index, FirstFree(m), flags), FirstFree(m))

\* The first table is a page map, reached through KernelBase; the others are
\* reached through IoBase.
get_next_level(m, base, index, flags) ==
    IF m.halt # "none" THEN m
    ELSE IF ~Reaches(m, base, m.table) THEN Stop(m, "fault")
    ELSE IF Present(m.mem[m.table][index])
         THEN Enter(m, m.mem[m.table][index].frame)
         ELSE Link(m, pmm_allocate_zero(m, 1), index, flags)

SetLast(m, index, frame, flags) ==
    IF m.halt # "none" THEN m
    ELSE IF ~Reaches(m, IoBase, m.table) THEN Stop(m, "fault")
    ELSE SetEntry(m, index, frame, flags)

vmm_map(m, pagemap, frame, page, flags) ==
    SetLast(
        get_next_level(
            get_next_level(
                get_next_level(Enter(m, pagemap), KernelBase,
                               PML_ENTRY(page, 4), flags),
                IoBase, PML_ENTRY(page, 3), flags),
            IoBase, PML_ENTRY(page, 2), flags),
        PML_ENTRY(page, 1), frame, flags)

\* n pages from the physical page start on, one vmm_map each.
MapRange(m, pagemap, start, page, n, flags) ==
    LET mapped[i \in 0..n] ==
            IF i = 0 THEN m
            ELSE vmm_map(mapped[i - 1], pagemap, start + i - 1, page + i - 1, flags)
    IN  mapped[n]
=============================================================================
