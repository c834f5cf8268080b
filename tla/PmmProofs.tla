----------------------------- MODULE PmmProofs -----------------------------
(* Proofs about Pmm, for every page size, every number of bits per byte and *)
(* every set of memory maps.  First arithmetic and what pmm_initialize      *)
(* computes; then no page given twice before a free; how the code leaves    *)
(* the bitmap; and what the records say until they are damaged.             *)
EXTENDS Pmm, FiniteSetTheorems, WellFoundedInduction, TLAPS

\* A set of natural numbers that is not empty has a least element.
LEMMA LeastElement ==
    ASSUME NEW T \in SUBSET Nat, T # {}
    PROVE  \E x \in T : \A y \in T : x <= y
<1>1. \E x \in T : \A y \in T : <<y, x>> \notin OpToRel(<, Nat)
  BY NatLessThanWellFounded, WFMin
<1>2. \A x, y \in Nat : <<y, x>> \notin OpToRel(<, Nat) => x <= y
  BY DEF OpToRel
<1> QED
  BY <1>1, <1>2, Zenon

\* A bounded set of natural numbers that is not empty has a greatest element.
LEMMA GreatestElement ==
    ASSUME NEW T \in SUBSET Nat, T # {}, NEW u \in Nat, \A t \in T : t <= u
    PROVE  \E x \in T : \A y \in T : y <= x
<1> DEFINE U == {v \in Nat : \A t \in T : t <= v}
<1>1. PICK v \in U : \A w \in U : v <= w
  BY LeastElement
<1>2. CASE v \in T
  BY <1>2
<1>3. CASE v \notin T
  <2>1. \A t \in T : t <= v - 1
    BY <1>3
  <2>2. v - 1 \in Nat
    <3>1. PICK t \in T : TRUE
      OBVIOUS
    <3>2. t \in Nat /\ v \in Int /\ t <= v - 1
      BY <2>1
    <3> QED
      BY <3>2
  <2>3. v - 1 \in U
    BY <2>1, <2>2
  <2> QED
    BY <1>1, <2>3
<1> QED
  BY <1>2, <1>3

\* What division means, for a positive divisor.
LEMMA Division ==
    ASSUME NEW a \in Int, NEW b \in Nat \ {0}
    PROVE  /\ a \div b \in Int
           /\ (a \div b) * b <= a
           /\ a < (a \div b) * b + b
  OBVIOUS

\* Dividing a product by one of its factors leaves the other.
LEMMA DivideProduct ==
    ASSUME NEW k \in Int, NEW b \in Nat \ {0}
    PROVE  (k * b) \div b = k
  OBVIOUS

\* A positive factor can be cancelled.
LEMMA CancelFactor ==
    ASSUME NEW k \in Int, NEW m \in Int, NEW b \in Nat \ {0}, k * b < m * b
    PROVE  k < m
  OBVIOUS

\* A quotient of natural numbers is a natural number.
LEMMA NaturalQuotient ==
    ASSUME NEW a \in Nat, NEW b \in Nat \ {0}
    PROVE  a \div b \in Nat
<1> DEFINE q == a \div b
<1>1. q \in Int /\ a < q * b + b
  BY Division
<1> HIDE DEF q
<1>2. 0 * b < (q + 1) * b
  BY <1>1
<1>3. 0 < q + 1
  BY <1>1, <1>2, CancelFactor
<1> QED
  BY <1>1, <1>3 DEF q

\* What remains after division.
LEMMA Remainder ==
    ASSUME NEW a \in Int, NEW b \in Nat \ {0}
    PROVE  a % b = a - (a \div b) * b
  OBVIOUS

\* A bitmap sized as pmm_initialize sizes it, with fewer bits than there are
\* pages: the pages fill no whole number of bytes, and those bytes, rounded
\* down, fill a whole number of pages already.
LEMMA TooFewBits ==
    ASSUME NEW h \in Nat, NEW bits \in Nat \ {0}, NEW page \in Nat \ {0},
           AlignUp(h \div bits, page) * bits < h
    PROVE  h % bits # 0 /\ (h \div bits) % page = 0
<1> DEFINE n == h \div bits
           k == (n + page - 1) \div page
           size == k * page
<1>1. n \in Int /\ n * bits <= h /\ h < n * bits + bits
  BY Division
<1>2. h % bits = h - n * bits
  <2>1. h \in Int
    OBVIOUS
  <2> QED
    BY <2>1, Remainder, Zenon
<1>3. n % page = n - (n \div page) * page
  BY <1>1, Remainder
<1>4. size * bits < h
  BY DEF AlignUp
<1> HIDE DEF n
<1>5. k \in Int /\ size <= n + page - 1 /\ n + page - 1 < size + page
  BY <1>1, Division
<1> HIDE DEF k
<1>6. size \in Int /\ n <= size
  BY <1>1, <1>5
<1>7. size < n + 1
  <2> HIDE DEF size
  <2>1. size * bits < (n + 1) * bits
    BY <1>1, <1>4, <1>6
  <2> QED
    BY <1>1, <1>6, <2>1, CancelFactor
<1>8. n = k * page
  BY <1>1, <1>6, <1>7
<1>9. n \div page = k
  BY <1>5, <1>8, DivideProduct
<1>10. n % page = 0
  BY <1>1, <1>3, <1>8, <1>9
<1>11. h % bits # 0
  BY <1>1, <1>2, <1>4, <1>6, <1>8
<1> QED
  BY <1>10, <1>11 DEF n

-----------------------------------------------------------------------------
(* What pmm_initialize computes.                                           *)

\* The fields of the entries of a table.
LEMMA EntriesTyped ==
    ASSUME NEW map \in Seq(Entry), NEW i \in DOMAIN map
    PROVE  /\ i \in Nat \ {0}
           /\ map[i] \in Entry
           /\ map[i].base \in Nat
           /\ map[i].length \in Nat
<1>1. map[i] \in Entry
  OBVIOUS
<1>2. map[i].base \in Nat /\ map[i].length \in Nat
  BY <1>1 DEF Entry
<1> QED
  BY <1>1, <1>2

\* highest_page is the end of an entry, and no entry that holds memory ends
\* behind it.
LEMMA HighestPageIsTop ==
    ASSUME NEW map \in MemoryMaps
    PROVE  /\ HighestPage(map) \in Nat
           /\ \A t \in Tops(map) : t <= HighestPage(map)
<1>1. Tops(map) \in SUBSET Nat /\ Tops(map) # {}
  BY MapAssumption, EntriesTyped DEF Tops
<1>2. \A t \in Tops(map) : t <= AddressLimit
  BY MapAssumption DEF Tops
<1>3. \E x \in Tops(map) : \A y \in Tops(map) : y <= x
  BY <1>1, <1>2, MapAssumption, GreatestElement
<1> QED
  BY <1>1, <1>3 DEF HighestPage

\* The bitmap has a whole number of pages.
LEMMA BitmapHasWholePages ==
    ASSUME NEW map \in MemoryMaps
    PROVE  /\ BitmapSize(map) \in Nat
           /\ BitmapSize(map) \div PageSize \in Nat
           /\ BitmapSize(map) = (BitmapSize(map) \div PageSize) * PageSize
<1> DEFINE n == HighestPage(map) \div ByteBits
           k == (n + PageSize - 1) \div PageSize
<1>1. PageSize \in Nat \ {0} /\ ByteBits \in Nat \ {0} /\ HighestPage(map) \in Nat
  BY MapAssumption, HighestPageIsTop
<1>2. n \in Nat
  BY <1>1, NaturalQuotient
<1>3. k \in Nat
  <2> HIDE DEF n
  <2>1. n + PageSize - 1 \in Nat
    BY <1>1, <1>2
  <2> QED
    BY <1>1, <2>1, NaturalQuotient
<1>4. BitmapSize(map) = k * PageSize
  BY DEF BitmapSize, AlignUp
<1> HIDE DEF n, k
<1>5. BitmapSize(map) \div PageSize = k
  BY <1>1, <1>3, <1>4, DivideProduct
<1> QED
  BY <1>1, <1>3, <1>4, <1>5

\* The bits of a bitmap lie in its own pages.
LEMMA BitsLieInside ==
    ASSUME NEW bm \in [data : Nat, size : Nat, set : SUBSET Nat], NEW m \in Nat,
           bm.size = m * PageSize, NEW k \in Bits(bm)
    PROVE  BitPage(bm, k) \in PageRun(bm.data, m)
<1> DEFINE q == k \div ByteBits
           p == q \div PageSize
<1>1. /\ PageSize \in Nat \ {0} /\ ByteBits \in Nat \ {0}
      /\ bm.size \in Nat /\ bm.data \in Nat
  BY MapAssumption
<1>2. k \in Nat /\ k < bm.size * ByteBits
  BY <1>1 DEF Bits, PageRun
<1>3. q \in Nat /\ q * ByteBits <= k
  BY <1>1, <1>2, Division, NaturalQuotient
<1> HIDE DEF q
<1>4. q < bm.size
  BY <1>1, <1>2, <1>3, CancelFactor
<1>6. p \in Nat /\ p * PageSize <= q
  BY <1>1, <1>3, Division, NaturalQuotient
<1> HIDE DEF p
<1>7. p < m
  <2>1. p * PageSize < m * PageSize
    BY <1>1, <1>3, <1>4, <1>6
  <2> QED
    BY <1>1, <1>6, <2>1, CancelFactor
<1>8. BitPage(bm, k) = bm.data + p
  BY DEF BitPage, p, q
<1> QED
  BY <1>1, <1>6, <1>7, <1>8 DEF PageRun

\* The entry that pmm_initialize picks is usable and has room for the bitmap.
LEMMA BitmapEntryFits ==
    ASSUME NEW map \in MemoryMaps, BitmapEntry(map) # 0
    PROVE  LET e == BitmapEntry(map)
           IN  /\ e \in DOMAIN map
               /\ map[e].type = "usable"
               /\ BitmapSize(map) \div PageSize <= map[e].length
<1> DEFINE e == BitmapEntry(map)
           Fits == {i \in DOMAIN map : /\ map[i].type = "usable"
                                       /\ map[i].length * PageSize >= BitmapSize(map)}
<1>1. map \in Seq(Entry) /\ PageSize \in Nat \ {0}
  BY MapAssumption
<1>2. Fits # {} /\ e = CHOOSE i \in Fits : \A j \in Fits : i <= j
  BY DEF BitmapEntry
<1>3. Fits \in SUBSET Nat
  BY <1>1
<1>4. e \in Fits
  <2> HIDE DEF Fits
  <2>1. \E i \in Fits : \A j \in Fits : i <= j
    BY <1>2, <1>3, LeastElement
  <2> QED
    BY <1>2, <2>1
<1>5. map[e].length \in Nat
  BY <1>1, <1>4, EntriesTyped
<1>6. (BitmapSize(map) \div PageSize) * PageSize < (map[e].length + 1) * PageSize
  <2>1. BitmapSize(map) <= map[e].length * PageSize
    BY <1>1, <1>4, <1>5, BitmapHasWholePages
  <2> QED
    BY <1>1, <1>5, <2>1, BitmapHasWholePages
<1>7. BitmapSize(map) \div PageSize < map[e].length + 1
  BY <1>1, <1>5, <1>6, BitmapHasWholePages, CancelFactor
<1> QED
  BY <1>4, <1>5, <1>7, BitmapHasWholePages

\* Cutting the bitmap's pages off its entry keeps the table well-formed and
\* takes exactly those pages out of the usable memory.
LEMMA CutMapTakesBitmap ==
    ASSUME NEW map \in MemoryMaps, BitmapEntry(map) # 0
    PROVE  /\ CutMap(map) \in Seq(Entry)
           /\ Usable(CutMap(map)) = Usable(map) \ PageRun(map[BitmapEntry(map)].base,
                                                BitmapSize(map) \div PageSize)
<1> DEFINE e == BitmapEntry(map)
           n == BitmapSize(map) \div PageSize
           c == CutMap(map)
<1>1. map \in Seq(Entry)
  BY MapAssumption
<1>2. e \in DOMAIN map /\ map[e].type = "usable" /\ n \in Nat /\ n <= map[e].length
  BY BitmapEntryFits, BitmapHasWholePages
<1>3. /\ map[e].base \in Nat /\ map[e].length \in Nat
      /\ map[e] \in Entry
  BY <1>1, <1>2, EntriesTyped
<1> HIDE DEF e, n
<1>4. c = [map EXCEPT ![e] =
             [base |-> @.base + n, length |-> @.length - n, type |-> @.type]]
  BY DEF CutMap, e, n
<1>5. /\ DOMAIN c = DOMAIN map
      /\ \A i \in DOMAIN map : i # e => c[i] = map[i]
      /\ c[e] = [base |-> map[e].base + n, length |-> map[e].length - n,
                 type |-> map[e].type]
  BY <1>1, <1>2, <1>4
<1> HIDE DEF c
<1>6. /\ c[e] \in Entry
      /\ c[e].base = map[e].base + n
      /\ c[e].length = map[e].length - n
      /\ c[e].type = "usable"
  <2> DEFINE b == map[e].base + n
             l == map[e].length - n
  <2>2. c[e] = [base |-> b, length |-> l, type |-> "usable"]
    BY <1>2, <1>5
  <2>3. b \in Nat /\ l \in Nat
    BY <1>2, <1>3
  <2> HIDE DEF b, l
  <2>4. c[e] \in Entry
    BY <2>2, <2>3 DEF Entry, EntryType
  <2> QED
    BY <2>2, <2>4 DEF b, l
<1>7. c \in Seq(Entry)
  <2>1. \A i \in DOMAIN map : c[i] \in Entry
    BY <1>1, <1>5, <1>6, EntriesTyped
  <2>2. DOMAIN map = 1..Len(map) /\ Len(map) \in Nat
    BY <1>1
  <2>3. c = [i \in 1..Len(map) |-> c[i]]
    BY <1>1, <1>4, <1>5, <2>2
  <2> QED
    BY <2>1, <2>2, <2>3
<1>8. \A p : p \in Usable(c) <=>
         \E i \in DOMAIN map : c[i].type = "usable" /\ p \in PageRun(c[i].base, c[i].length)
  BY <1>5 DEF Usable
<1>9. \A p : p \in Usable(map) <=>
         \E i \in DOMAIN map : map[i].type = "usable" /\ p \in PageRun(map[i].base, map[i].length)
  BY DEF Usable
<1>10. PageRun(c[e].base, c[e].length) =
          PageRun(map[e].base, map[e].length) \ PageRun(map[e].base, n)
  BY <1>2, <1>3, <1>6 DEF PageRun
<1>11. \A i \in DOMAIN map : i # e =>
          PageRun(map[i].base, map[i].length) \cap PageRun(map[e].base, n) = {}
  <2>1. PageRun(map[e].base, n) \subseteq PageRun(map[e].base, map[e].length)
    BY <1>2, <1>3 DEF PageRun
  <2> QED
    BY <1>2, <2>1, MapAssumption
<1>12. \A p : p \in Usable(c) <=> p \in Usable(map) /\ p \notin PageRun(map[e].base, n)
  <2> TAKE p
  <2>1. ASSUME p \in Usable(c)
        PROVE  p \in Usable(map) /\ p \notin PageRun(map[e].base, n)
    <3>1. PICK i \in DOMAIN map :
             c[i].type = "usable" /\ p \in PageRun(c[i].base, c[i].length)
      BY <1>8, <2>1
    <3>2. CASE i = e
      BY <1>2, <1>9, <1>10, <3>1, <3>2
    <3>3. CASE i # e
      <4>1. map[i].type = "usable" /\ p \in PageRun(map[i].base, map[i].length)
        BY <1>5, <3>1, <3>3
      <4> QED
        BY <1>9, <1>11, <3>3, <4>1
    <3> QED
      BY <3>2, <3>3
  <2>2. ASSUME p \in Usable(map), p \notin PageRun(map[e].base, n)
        PROVE  p \in Usable(c)
    <3>1. PICK i \in DOMAIN map :
             map[i].type = "usable" /\ p \in PageRun(map[i].base, map[i].length)
      BY <1>9, <2>2
    <3>2. CASE i = e
      BY <1>2, <1>6, <1>8, <1>10, <2>2, <3>1, <3>2
    <3>3. CASE i # e
      BY <1>5, <1>8, <3>1, <3>3
    <3> QED
      BY <3>2, <3>3
  <2> QED
    BY <2>1, <2>2
<1> QED
  BY <1>7, <1>12 DEF c, e, n

\* The usable memory of a table is a finite set of pages.
LEMMA UsableIsFinite ==
    ASSUME NEW map \in MemoryMaps
    PROVE  /\ IsFiniteSet(Usable(map))
           /\ Usable(map) \subseteq Nat
<1>1. \A p \in Usable(map) :
         \E i \in DOMAIN map : p \in PageRun(map[i].base, map[i].length)
  BY DEF Usable
<1>2. \A p \in Usable(map) : p \in Nat /\ p <= AddressLimit
  <2> SUFFICES ASSUME NEW p \in Usable(map)
               PROVE  p \in Nat /\ p <= AddressLimit
    OBVIOUS
  <2>1. PICK i \in DOMAIN map : p \in PageRun(map[i].base, map[i].length)
    BY <1>1
  <2>2. /\ map[i].base \in Nat /\ map[i].length \in Nat
        /\ map[i].base + map[i].length <= AddressLimit
        /\ AddressLimit \in Nat
    BY EntriesTyped, MapAssumption
  <2> QED
    BY <2>1, <2>2 DEF PageRun
<1> QED
  BY <1>2, MapAssumption, FS_BoundedSetOfNaturals

\* Usable memory lies below highest_page.
LEMMA UsableBelowHighest ==
    ASSUME NEW map \in MemoryMaps
    PROVE  Usable(map) \subseteq PageRun(0, HighestPage(map))
<1> SUFFICES ASSUME NEW p \in Usable(map)
             PROVE  p \in PageRun(0, HighestPage(map))
  OBVIOUS
<1>1. PICK i \in DOMAIN map : /\ map[i].type = "usable"
                              /\ p \in PageRun(map[i].base, map[i].length)
  BY DEF Usable
<1>2. map[i].base \in Nat /\ map[i].length \in Nat
  BY EntriesTyped, MapAssumption
<1>3. map[i].base + map[i].length <= HighestPage(map)
  BY <1>1, HighestPageIsTop DEF Tops
<1> QED
  BY <1>1, <1>2, <1>3, HighestPageIsTop DEF PageRun

-----------------------------------------------------------------------------
(* Requests of any size: types, and no page is given twice before a free.  *)

\* Before pmm_initialize the table is the boot loader's and nobody has pages.
Booting == phase = "boot" => /\ memmap \in MemoryMaps
                             /\ held = {} /\ written = {}
                             /\ ~freed /\ refused = 0 /\ ~overrun

\* Until something is freed or refused, or a block runs into the bitmap, the
\* bits below the end of every block that somebody has are set.
Filled ==
    ~freed /\ refused = 0 /\ BitmapAlone =>
        \A b \in held : \A k \in Bits(bitmap) :
            k < b.addr + b.pages => k \in bitmap.set

GInv == TypeOK /\ Booting /\ Filled

\* FirstCandidate is the lowest page whose bit is clear.
LEMMA FirstCandidateIsLowest ==
    ASSUME TypeOK, NEW n \in Requests, Candidates(n) # {}
    PROVE  /\ FirstCandidate(n) \in Nat
           /\ FirstCandidate(n) \in Bits(bitmap) \ bitmap.set
           /\ FirstCandidate(n) < highest_page
           /\ \A k \in Bits(bitmap) : k < FirstCandidate(n) => k \in bitmap.set
<1> DEFINE i == FirstCandidate(n)
<1>1. highest_page \in Nat /\ bitmap.size \in Nat /\ ByteBits \in Nat
  BY MapAssumption DEF TypeOK
<1>2. Candidates(n) = {k \in PageRun(0, highest_page) \cap Bits(bitmap) : k \notin bitmap.set}
  BY DEF Candidates
<1>3. Candidates(n) \in SUBSET Nat
  BY <1>1, <1>2 DEF PageRun
<1>4. \E k \in Candidates(n) : \A j \in Candidates(n) : k <= j
  BY <1>3, LeastElement
<1>5. i \in Candidates(n) /\ \A j \in Candidates(n) : i <= j
  BY <1>4 DEF FirstCandidate
<1> HIDE DEF i
<1>6. i \in Nat /\ i < highest_page /\ i \in Bits(bitmap) \ bitmap.set
  BY <1>1, <1>2, <1>5 DEF PageRun
<1>7. ASSUME NEW k \in Bits(bitmap), k < i, k \notin bitmap.set
      PROVE  FALSE
  <2>1. k \in Nat
    BY <1>1 DEF Bits, PageRun
  <2>2. k \in Candidates(n)
    BY <1>1, <1>2, <1>6, <1>7, <2>1 DEF PageRun
  <2> QED
    BY <1>5, <1>6, <1>7, <2>1, <2>2
<1> QED
  BY <1>6, <1>7 DEF i

\* The state before pmm_initialize satisfies the invariant.
LEMMA GInvInit == Init => GInv
<1> SUFFICES ASSUME Init PROVE GInv
  OBVIOUS
<1>1. memmap \in Seq(Entry)
  BY MapAssumption DEF Init
<1>2. bitmap \in [data : Nat, size : Nat, set : SUBSET Nat]
  BY DEF Init
<1>3. held \subseteq Block /\ freed \in BOOLEAN /\ overrun \in BOOLEAN
  BY DEF Init
<1>4. TypeOK
  BY <1>1, <1>2, <1>3 DEF Init, TypeOK
<1> QED
  BY <1>4 DEF Init, GInv, Booting, Filled

\* pmm_initialize leaves a table and a bitmap of the right types.
LEMMA InitializeTyped ==
    ASSUME TypeOK, Booting, pmm_initialize
    PROVE  TypeOK'
<1>1. memmap \in MemoryMaps /\ BitmapEntry(memmap) # 0
  BY DEF pmm_initialize, Booting
<1>2. memmap' \in Seq(Entry) /\ memmap' = CutMap(memmap)
  BY <1>1, CutMapTakesBitmap DEF pmm_initialize
<1>3. highest_page' \in Nat
  BY <1>1, HighestPageIsTop DEF pmm_initialize
<1>4. usable_pages' \in Int
  <2>1. IsFiniteSet(Usable(CutMap(memmap)))
    BY <1>1, CutMapTakesBitmap, UsableIsFinite, FS_Subset
  <2> QED
    BY <2>1, FS_CardinalityType DEF pmm_initialize
<1>5. bitmap' \in [data : Nat, size : Nat, set : SUBSET Nat]
  <2>1. memmap[BitmapEntry(memmap)].base \in Nat
    BY <1>1, BitmapEntryFits, MapAssumption, EntriesTyped
  <2>2. BitmapSize(memmap) \in Nat /\ ByteBits \in Nat
    BY <1>1, BitmapHasWholePages, MapAssumption
  <2>3. PageRun(0, BitmapSize(memmap) * ByteBits) \subseteq Nat
    BY <2>2 DEF PageRun
  <2> QED
    BY <2>1, <2>2, <2>3 DEF pmm_initialize
<1>6. phase' \in {"boot", "ready", "panic", "stray"}
  BY DEF pmm_initialize
<1> QED
  BY <1>2, <1>3, <1>4, <1>5, <1>6 DEF TypeOK, pmm_initialize, client

\* Marking, clearing and freeing bits keep the bitmap's type.
LEMMA BitmapTyped ==
    ASSUME NEW bm \in [data : Nat, size : Nat, set : SUBSET Nat],
           NEW s \in SUBSET Nat
    PROVE  /\ [bm EXCEPT !.set = s] \in [data : Nat, size : Nat, set : SUBSET Nat]
           /\ [bm EXCEPT !.set = s].set = s
           /\ [bm EXCEPT !.set = s].data = bm.data
           /\ [bm EXCEPT !.set = s].size = bm.size
  OBVIOUS

\* What pmm_allocate_zero does to the bits: the block's are set, then those
\* that lie in the block's own pages are cleared.
LEMMA AllocateBits ==
    ASSUME TypeOK, NEW n \in Requests, pmm_allocate_zero(n)
    PROVE  LET i == FirstCandidate(n)
               marked == (bitmap.set \cup PageRun(i, n)) \cap Bits(bitmap)
           IN  /\ bitmap' \in [data : Nat, size : Nat, set : SUBSET Nat]
               /\ bitmap'.data = bitmap.data
               /\ bitmap'.size = bitmap.size
               /\ Bits(bitmap') = Bits(bitmap)
               /\ \A k : BitPage(bitmap', k) = BitPage(bitmap, k)
               /\ bitmap'.set = {k \in marked : BitPage(bitmap, k) \notin PageRun(i, n)}
<1> DEFINE i == FirstCandidate(n)
           m == (bitmap.set \cup PageRun(i, n)) \cap Bits(bitmap)
           marked == [bitmap EXCEPT !.set = m]
           z == {k \in m : BitPage(bitmap, k) \notin PageRun(i, n)}
<1>1. bitmap \in [data : Nat, size : Nat, set : SUBSET Nat]
  BY DEF TypeOK
<1>2. Bits(bitmap) \subseteq Nat
  BY <1>1, MapAssumption DEF Bits, PageRun
<1>3. m \in SUBSET Nat /\ z \in SUBSET Nat
  BY <1>2
<1>4. bitmap' = [marked EXCEPT !.set = ZeroedBits(marked, i, n)]
  BY DEF pmm_allocate_zero
<1> HIDE DEF m, i
<1>5. /\ marked \in [data : Nat, size : Nat, set : SUBSET Nat]
      /\ marked.set = m /\ marked.data = bitmap.data /\ marked.size = bitmap.size
  BY <1>1, <1>3, BitmapTyped
<1> HIDE DEF marked
<1>6. ZeroedBits(marked, i, n) = z
  BY <1>5 DEF ZeroedBits, BitPage
<1> HIDE DEF z
<1>7. /\ bitmap' \in [data : Nat, size : Nat, set : SUBSET Nat]
      /\ bitmap'.set = z /\ bitmap'.data = bitmap.data /\ bitmap'.size = bitmap.size
  BY <1>3, <1>4, <1>5, <1>6, BitmapTyped
<1>8. Bits(bitmap') = Bits(bitmap) /\ \A k : BitPage(bitmap', k) = BitPage(bitmap, k)
  BY <1>7 DEF Bits, BitPage
<1> QED
  BY <1>7, <1>8 DEF z, m, i

\* Every step keeps the types.
LEMMA TypeStep ==
    ASSUME TypeOK, Booting, [Next]_vars
    PROVE  TypeOK'
<1>1. CASE pmm_initialize
  BY <1>1, InitializeTyped
<1>2. CASE InitializeFails
  <2>1. memmap \in MemoryMaps
    BY <1>2 DEF InitializeFails, Booting
  <2>2. highest_page' \in Nat
    BY <1>2, <2>1, HighestPageIsTop DEF InitializeFails
  <2> QED
    BY <1>2, <2>2 DEF InitializeFails, TypeOK, client
<1>3. ASSUME NEW n \in Requests, pmm_allocate_zero(n)
      PROVE  TypeOK'
  <2> DEFINE i == FirstCandidate(n)
  <2>1. n \in Nat /\ usable_pages' \in Int
    BY <1>3, MapAssumption DEF TypeOK, pmm_allocate_zero, Grant
  <2>2. i \in Nat
    BY <1>3, FirstCandidateIsLowest DEF pmm_allocate_zero
  <2>3. held' = held \cup {[addr |-> i, pages |-> n]} /\ ret' = i
    BY <1>3 DEF pmm_allocate_zero, Grant
  <2>4. held' \subseteq Block /\ ret' \in Nat /\ written' \subseteq held'
    <3> HIDE DEF i
    <3>1. [addr |-> i, pages |-> n] \in Block
      BY <2>2, <1>3 DEF Block
    <3> QED
      BY <1>3, <2>2, <2>3, <3>1 DEF TypeOK, pmm_allocate_zero, Grant
  <2>5. bitmap' \in [data : Nat, size : Nat, set : SUBSET Nat]
    BY <1>3, AllocateBits
  <2>6. /\ data' \subseteq Nat /\ phase' \in {"boot", "ready", "panic", "stray"}
        /\ overrun' \in BOOLEAN
    BY <1>3 DEF TypeOK, pmm_allocate_zero, Grant
  <2> QED
    BY <1>3, <2>1, <2>4, <2>5, <2>6 DEF TypeOK, pmm_allocate_zero, Grant
<1>4. ASSUME NEW n \in Requests, AllocateFails(n)
      PROVE  TypeOK'
  <2>1. bitmap' \in [data : Nat, size : Nat, set : SUBSET Nat]
    <3>1. ZeroedBits(bitmap, 0, n) \in SUBSET Nat
      BY DEF TypeOK, ZeroedBits
    <3> QED
      BY <1>4, <3>1, BitmapTyped DEF TypeOK, AllocateFails
  <2>2. phase' \in {"boot", "ready", "panic", "stray"} /\ refused' \in Nat
    BY <1>4, MapAssumption DEF TypeOK, AllocateFails
  <2> QED
    BY <1>4, <2>1, <2>2 DEF TypeOK, AllocateFails
<1>5. ASSUME NEW b \in held, pmm_free(b)
      PROVE  TypeOK'
  <2>1. bitmap' \in [data : Nat, size : Nat, set : SUBSET Nat]
    <3>1. bitmap.set \ Pages(b) \in SUBSET Nat
      BY DEF TypeOK
    <3> QED
      BY <1>5, <3>1, BitmapTyped DEF TypeOK, pmm_free
  <2>2. usable_pages' \in Int
    <3>1. b.pages \in Nat
      BY <1>5, MapAssumption DEF TypeOK, Block
    <3> QED
      BY <1>5, <3>1 DEF TypeOK, pmm_free
  <2>3. held' \subseteq Block /\ written' \subseteq held'
    BY <1>5 DEF TypeOK, pmm_free
  <2> QED
    BY <1>5, <2>1, <2>2, <2>3 DEF TypeOK, pmm_free
<1>6. ASSUME NEW b \in held, ClientWrites(b)
      PROVE  TypeOK'
  <2>1. b.addr \in Nat /\ b.pages \in Nat
    BY <1>6, MapAssumption DEF TypeOK, Block
  <2>2. data' \subseteq Nat
    <3>1. Pages(b) \subseteq Nat
      BY <2>1 DEF Pages, PageRun
    <3> QED
      BY <1>6, <3>1 DEF TypeOK, ClientWrites
  <2>3. written' \subseteq held'
    BY <1>6 DEF TypeOK, ClientWrites
  <2> QED
    BY <1>6, <2>2, <2>3 DEF TypeOK, ClientWrites
<1>7. CASE UNCHANGED vars
  BY <1>7 DEF vars, client, TypeOK
<1> QED
  BY <1>1, <1>2, <1>3, <1>4, <1>5, <1>6, <1>7 DEF Next, Stopped

\* Nothing is handed out before pmm_initialize has run.
LEMMA BootingStep ==
    ASSUME TypeOK, Booting, [Next]_vars
    PROVE  Booting'
<1>1. CASE UNCHANGED vars
  BY <1>1 DEF vars, client, Booting
<1>2. CASE Next
  BY <1>2 DEF Next, Booting, TypeOK, pmm_initialize, InitializeFails, pmm_allocate_zero,
              AllocateFails, pmm_free, ClientWrites, Stopped, vars, client
<1> QED
  BY <1>1, <1>2

\* Only an allocation matters: it takes the lowest page whose bit is clear,
\* so that the bits below the new block were set, and sets the block's own.
LEMMA FilledStep ==
    ASSUME GInv, [Next]_vars
    PROVE  Filled'
<1> USE DEF GInv
<1>1. ASSUME NEW n \in Requests, pmm_allocate_zero(n)
      PROVE  Filled'
  <2> DEFINE i == FirstCandidate(n)
             new == [addr |-> i, pages |-> n]
  <2>1. /\ held' = held \cup {new} /\ freed' = freed /\ refused' = refused
        /\ Candidates(n) # {}
    BY <1>1 DEF pmm_allocate_zero, Grant
  <2>2. n \in Nat /\ i \in Nat /\ \A k \in Bits(bitmap) : k < i => k \in bitmap.set
    BY <1>1, <2>1, MapAssumption, FirstCandidateIsLowest
  <2>3. /\ Bits(bitmap') = Bits(bitmap)
        /\ \A k : BitPage(bitmap', k) = BitPage(bitmap, k)
        /\ bitmap'.set = {k \in (bitmap.set \cup PageRun(i, n)) \cap Bits(bitmap) :
                             BitPage(bitmap, k) \notin PageRun(i, n)}
    BY <1>1, AllocateBits
  <2> HIDE DEF i
  <2>4. Pages(new) = PageRun(i, n)
    BY DEF Pages
  <2> SUFFICES ASSUME ~freed', refused' = 0, BitmapAlone',
                      NEW b \in held', NEW k \in Bits(bitmap), k < b.addr + b.pages
               PROVE  k \in bitmap'.set
    BY <2>3 DEF Filled
  <2>5. BitPage(bitmap, k) \notin PageRun(i, n)
    BY <2>1, <2>3, <2>4 DEF BitmapAlone
  <2>6. BitmapAlone /\ ~freed /\ refused = 0
    BY <2>1, <2>3 DEF BitmapAlone
  <2>7. k \in bitmap.set \cup PageRun(i, n)
    <3>1. CASE b \in held
      BY <2>6, <3>1 DEF Filled
    <3>2. CASE b = new
      <4>1. k \in Nat
        BY MapAssumption DEF TypeOK, Bits, PageRun
      <4>2. k < i + n
        BY <3>2
      <4> QED
        BY <2>2, <4>1, <4>2 DEF PageRun
    <3> QED
      BY <2>1, <3>1, <3>2
  <2> QED
    BY <2>3, <2>5, <2>7
<1>2. ASSUME NEW b \in held, ClientWrites(b)
      PROVE  Filled'
  BY <1>2 DEF ClientWrites, Filled, BitmapAlone
<1>3. CASE UNCHANGED vars
  BY <1>3 DEF vars, client, Filled, BitmapAlone
<1>4. CASE pmm_initialize \/ InitializeFails
  BY <1>4 DEF pmm_initialize, InitializeFails, client, Booting, Filled
<1>5. ASSUME NEW n \in Requests, AllocateFails(n)
      PROVE  Filled'
  <2>1. n \in Nat \ {0} /\ refused \in Nat
    BY <1>5, MapAssumption DEF TypeOK
  <2>2. refused' # 0
    BY <1>5, <2>1 DEF AllocateFails
  <2> QED
    BY <2>2 DEF Filled
<1>6. ASSUME NEW b \in held, pmm_free(b)
      PROVE  Filled'
  BY <1>6 DEF pmm_free, Filled
<1> QED
  BY <1>1, <1>2, <1>3, <1>4, <1>5, <1>6 DEF Next, Stopped

\* The invariant for requests of any size holds in every reachable state.
LEMMA GInvHolds == Spec => []GInv
<1>1. GInv /\ [Next]_vars => GInv'
  BY TypeStep, BootingStep, FilledStep DEF GInv
<1> QED
  BY <1>1, GInvInit, PTL DEF Spec

\* The state of the physical memory manager always has its types.
THEOREM PmmTypeCorrect == Spec => []TypeOK
<1>1. GInv => TypeOK
  BY DEF GInv
<1> QED
  BY <1>1, GInvHolds, PTL

\* Before the first free or refusal, pmm_allocate returns pages that nobody
\* has, for every memory map, page size and mix of request sizes.
THEOREM NothingGivenTwiceBeforeAFree == Spec => FreshUntilFree
<1>1. GInv /\ [Next]_vars => [~freed /\ refused = 0 /\ BitmapAlone => Fresh]_vars
  <2> SUFFICES ASSUME GInv, ~freed, refused = 0, BitmapAlone,
                      NEW n \in Requests, pmm_allocate_zero(n),
                      NEW p \in PageRun(ret', n), p \in Owned
               PROVE  FALSE
    BY DEF Fresh
  <2>1. Candidates(n) # {} /\ ret' = FirstCandidate(n)
    BY DEF pmm_allocate_zero, Grant
  <2>2. /\ ret' \in Nat /\ n \in Nat
        /\ ret' \in Bits(bitmap) \ bitmap.set
    BY <2>1, FirstCandidateIsLowest, MapAssumption DEF GInv
  <2>3. PICK b \in held : p \in Pages(b)
    BY DEF Owned
  <2>4. b.addr \in Nat /\ b.pages \in Nat
    BY MapAssumption DEF GInv, TypeOK, Block
  <2>5. ret' < b.addr + b.pages
    BY <2>2, <2>3, <2>4 DEF Pages, PageRun
  <2> QED
    BY <2>2, <2>5 DEF GInv, Filled
<1> QED
  BY <1>1, GInvHolds, PTL DEF Spec, FreshUntilFree

-----------------------------------------------------------------------------
(* Requests of any size: how the code can leave the bitmap.                *)

\* The bitmap has the size that pmm_initialize computed from highest_page.
Sized == phase \in {"ready", "stray"} =>
             bitmap.size = AlignUp(highest_page \div ByteBits, PageSize)

EInv == GInv /\ Sized /\ StrayOnlyAtTheEdge

\* A bitmap of that size that does not cover the pages below highest_page is
\* the one of StrayOnlyAtTheEdge.
LEMMA UncoveredIsAtTheEdge ==
    ASSUME NEW h \in Nat, NEW bm \in [data : Nat, size : Nat, set : SUBSET Nat],
           bm.size = AlignUp(h \div ByteBits, PageSize),
           ~(PageRun(0, h) \subseteq Bits(bm))
    PROVE  h % ByteBits # 0 /\ (h \div ByteBits) % PageSize = 0
<1>1. ByteBits \in Nat \ {0} /\ PageSize \in Nat \ {0} /\ bm.size \in Nat
  BY MapAssumption
<1>2. PICK p \in PageRun(0, h) : p \notin Bits(bm)
  OBVIOUS
<1>3. bm.size * ByteBits < h
  BY <1>1, <1>2 DEF PageRun, Bits
<1> QED
  BY <1>1, <1>3, TooFewBits

\* Every step keeps it: pmm_initialize and a failing scan leave the bitmap
\* because it is too small, an allocation because of the block it hands out.
LEMMA EInvStep ==
    ASSUME EInv, [Next]_vars
    PROVE  EInv'
<1>1. GInv' /\ GInv
  BY TypeStep, BootingStep, FilledStep DEF GInv, EInv
<1>2. CASE pmm_initialize
  <2>1. /\ memmap \in MemoryMaps /\ BitmapEntry(memmap) # 0
        /\ highest_page' = HighestPage(memmap)
        /\ bitmap'.size = BitmapSize(memmap)
        /\ phase' = IF Usable(CutMap(memmap)) \subseteq PageRun(0, BitmapSize(memmap) * ByteBits)
                    THEN "ready" ELSE "stray"
    BY <1>1, <1>2 DEF GInv, Booting, pmm_initialize
  <2>2. Sized'
    BY <2>1 DEF Sized, BitmapSize
  <2>3. ASSUME phase' = "stray"
        PROVE  highest_page' % ByteBits # 0 /\ (highest_page' \div ByteBits) % PageSize = 0
    <3>1. Usable(CutMap(memmap)) \subseteq PageRun(0, highest_page')
      BY <2>1, CutMapTakesBitmap, UsableBelowHighest
    <3>2. ~(PageRun(0, highest_page') \subseteq Bits(bitmap'))
      BY <2>1, <2>3, <3>1 DEF Bits
    <3> QED
      BY <1>1, <2>2, <2>3, <3>2, UncoveredIsAtTheEdge DEF GInv, TypeOK, Sized
  <2> QED
    BY <1>1, <2>2, <2>3 DEF EInv, StrayOnlyAtTheEdge
<1>3. CASE InitializeFails
  BY <1>1, <1>3 DEF InitializeFails, EInv, Sized, StrayOnlyAtTheEdge
<1>4. ASSUME NEW n \in Requests, pmm_allocate_zero(n)
      PROVE  EInv'
  <2> DEFINE i == FirstCandidate(n)
             new == [addr |-> i, pages |-> n]
  <2>1. bitmap'.size = bitmap.size /\ Bits(bitmap') = Bits(bitmap)
    BY <1>1, <1>4, AllocateBits DEF GInv
  <2>2. /\ phase = "ready" /\ highest_page' = highest_page /\ new \in held'
        /\ phase' = IF PageRun(i, n) \subseteq Bits(bitmap) THEN "ready" ELSE "stray"
    BY <1>4 DEF pmm_allocate_zero, Grant
  <2>3. Sized'
    BY <2>1, <2>2 DEF EInv, Sized
  <2>4. Pages(new) = PageRun(i, n)
    BY DEF Pages
  <2> HIDE DEF i
  <2>5. StrayOnlyAtTheEdge'
    BY <2>1, <2>2, <2>4 DEF StrayOnlyAtTheEdge
  <2> QED
    BY <1>1, <2>3, <2>5 DEF EInv
<1>5. ASSUME NEW n \in Requests, AllocateFails(n)
      PROVE  EInv'
  <2>1. bitmap'.size = bitmap.size
    <3>1. ZeroedBits(bitmap, 0, n) \in SUBSET Nat
      BY <1>1 DEF GInv, TypeOK, ZeroedBits
    <3> QED
      BY <1>1, <1>5, <3>1, BitmapTyped DEF GInv, TypeOK, AllocateFails
  <2>2. phase = "ready" /\ highest_page' = highest_page
    BY <1>5 DEF AllocateFails
  <2>3. Sized'
    BY <2>1, <2>2 DEF EInv, Sized
  <2>4. ASSUME phase' = "stray"
        PROVE  highest_page' % ByteBits # 0 /\ (highest_page' \div ByteBits) % PageSize = 0
    <3>1. ~(PageRun(0, highest_page) \subseteq Bits(bitmap))
      BY <1>5, <2>4 DEF AllocateFails, ScanStrays
    <3> QED
      BY <1>1, <2>2, <3>1, UncoveredIsAtTheEdge DEF EInv, Sized, GInv, TypeOK
  <2> QED
    BY <1>1, <2>3, <2>4 DEF EInv, StrayOnlyAtTheEdge
<1>6. ASSUME NEW b \in held, pmm_free(b)
      PROVE  EInv'
  <2>1. bitmap'.size = bitmap.size
    <3>1. bitmap.set \ Pages(b) \in SUBSET Nat
      BY <1>1 DEF GInv, TypeOK
    <3> QED
      BY <1>1, <1>6, <3>1, BitmapTyped DEF GInv, TypeOK, pmm_free
  <2> QED
    BY <1>1, <1>6, <2>1 DEF EInv, Sized, StrayOnlyAtTheEdge, pmm_free
<1>7. ASSUME NEW b \in held, ClientWrites(b)
      PROVE  EInv'
  BY <1>1, <1>7 DEF EInv, Sized, StrayOnlyAtTheEdge, ClientWrites
<1>8. CASE UNCHANGED vars
  BY <1>1, <1>8 DEF vars, client, EInv, Sized, StrayOnlyAtTheEdge
<1> QED
  BY <1>2, <1>3, <1>4, <1>5, <1>6, <1>7, <1>8 DEF Next, Stopped

\* For requests of every size the code leaves the bitmap in two ways only: the
\* bitmap has too few bits because pmm_initialize rounded the number of its
\* bytes down, or a block reaches behind the last page that has a bit.
THEOREM LeavesTheBitmapOnlyAtTheEdge == Spec => []StrayOnlyAtTheEdge
<1>1. Init => EInv
  BY GInvInit DEF Init, EInv, Sized, StrayOnlyAtTheEdge
<1>2. EInv /\ [Next]_vars => EInv'
  BY EInvStep
<1>3. EInv => StrayOnlyAtTheEdge
  BY DEF EInv
<1> QED
  BY <1>1, <1>2, <1>3, PTL DEF Spec

-----------------------------------------------------------------------------
(* Requests of any size: the records until they are damaged.               *)

\* All usable memory has a bit and is scanned, and none of it holds bits.
Apart ==
    /\ Usable(memmap) \subseteq Bits(bitmap) \cap PageRun(0, highest_page)
    /\ \A k \in Bits(bitmap) : BitPage(bitmap, k) \notin Usable(memmap)

\* A clear bit means a usable page that nobody has, and nobody has a page that
\* is not usable or that somebody else has.
Exact ==
    /\ Owned \subseteq Usable(memmap)
    /\ OneOwner
    /\ Bits(bitmap) \ bitmap.set = Usable(memmap) \ Owned
    /\ usable_pages = Cardinality(Bits(bitmap) \ bitmap.set)

\* What the data that owners stored is worth after the refusals so far.
Kept == \A b \in written : Pages(b) \ PageRun(0, refused) \subseteq data

PInv ==
    /\ GInv
    /\ phase = "ready" => Apart
    /\ phase = "ready" /\ Undamaged => Exact /\ Kept

\* There are finitely many bits to count.
LEMMA BitsAreFinite ==
    ASSUME TypeOK
    PROVE  IsFiniteSet(Bits(bitmap) \ bitmap.set) /\ Bits(bitmap) \subseteq Nat
<1>1. bitmap.size * ByteBits \in Nat
  BY MapAssumption DEF TypeOK
<1>2. IsFiniteSet(Bits(bitmap)) /\ Bits(bitmap) \subseteq Nat
  BY <1>1, FS_Interval DEF Bits, PageRun
<1> QED
  BY <1>2, FS_Subset

\* A run of pages has as many pages as it says.
LEMMA RunSize ==
    ASSUME NEW a \in Nat, NEW n \in Nat \ {0}
    PROVE  IsFiniteSet(PageRun(a, n)) /\ Cardinality(PageRun(a, n)) = n
<1>1. a \in Int /\ a + n - 1 \in Int /\ ~(a > a + n - 1)
  OBVIOUS
<1>2. /\ IsFiniteSet(a..a + n - 1)
      /\ Cardinality(a..a + n - 1) = (a + n - 1) - a + 1
  BY <1>1, FS_Interval
<1> QED
  BY <1>2 DEF PageRun

\* Taking a part out of a set and putting a new part in.
LEMMA Counting ==
    ASSUME NEW C, IsFiniteSet(C), NEW R, IsFiniteSet(R)
    PROVE  /\ R \subseteq C => Cardinality(C \ R) = Cardinality(C) - Cardinality(R)
           /\ C \cap R = {} => Cardinality(C \cup R) = Cardinality(C) + Cardinality(R)
<1>1. Cardinality(C) \in Nat /\ Cardinality(R) \in Nat
  BY FS_CardinalityType
<1>2. ASSUME R \subseteq C
      PROVE  Cardinality(C \ R) = Cardinality(C) - Cardinality(R)
  <2>1. C \cap R = R
    BY <1>2
  <2> QED
    BY <2>1, FS_Difference
<1>3. ASSUME C \cap R = {}
      PROVE  Cardinality(C \cup R) = Cardinality(C) + Cardinality(R)
  <2>1. Cardinality(C \cup R) = Cardinality(C) + Cardinality(R) - Cardinality(C \cap R)
    BY FS_Union
  <2>2. Cardinality(C \cap R) = 0
    BY <1>3, FS_EmptySet
  <2> QED
    BY <1>1, <2>1, <2>2
<1> QED
  BY <1>2, <1>3

\* No bit lies in a page in front of the bitmap.
LEMMA BitsLieBehind ==
    ASSUME TypeOK, NEW k \in Bits(bitmap), NEW n \in Nat, n <= bitmap.data
    PROVE  BitPage(bitmap, k) \notin PageRun(0, n)
<1>1. bitmap.size \in Nat /\ bitmap.data \in Nat /\ ByteBits \in Nat \ {0} /\ PageSize \in Nat \ {0}
  BY MapAssumption DEF TypeOK
<1>2. k \in Nat
  BY <1>1 DEF Bits, PageRun
<1>3. k \div ByteBits \in Nat
  BY <1>1, <1>2, NaturalQuotient
<1>4. (k \div ByteBits) \div PageSize \in Nat
  BY <1>1, <1>3, NaturalQuotient
<1> QED
  BY <1>1, <1>4 DEF BitPage, PageRun

\* The blocks that callers have are runs of one page or more.
LEMMA HeldTyped ==
    ASSUME TypeOK, NEW b \in held
    PROVE  b.addr \in Nat /\ b.pages \in Nat \ {0} /\ Pages(b) = PageRun(b.addr, b.pages)
  BY MapAssumption DEF TypeOK, Block, Pages

\* pmm_initialize frees the usable memory and nothing else.
LEMMA InitializeSettles ==
    ASSUME GInv, pmm_initialize, phase' = "ready"
    PROVE  Apart' /\ Exact' /\ Kept'
<1> DEFINE e == BitmapEntry(memmap)
           m == BitmapSize(memmap) \div PageSize
           all == PageRun(0, BitmapSize(memmap) * ByteBits)
           free == Usable(CutMap(memmap))
<1>1. memmap \in MemoryMaps /\ e # 0 /\ held = {} /\ written = {}
  BY DEF GInv, Booting, pmm_initialize
<1>2. /\ memmap' = CutMap(memmap) /\ held' = {} /\ written' = {}
      /\ bitmap' = [data |-> memmap[e].base, size |-> BitmapSize(memmap), set |-> all \ free]
      /\ usable_pages' = Cardinality(free)
      /\ free \subseteq all
      /\ highest_page' = HighestPage(memmap)
  BY <1>1 DEF pmm_initialize, client
<1>3. /\ m \in Nat /\ BitmapSize(memmap) \in Nat /\ BitmapSize(memmap) = m * PageSize
      /\ free = Usable(memmap) \ PageRun(memmap[e].base, m)
  BY <1>1, BitmapHasWholePages, CutMapTakesBitmap
<1>4. free \subseteq PageRun(0, highest_page')
  BY <1>1, <1>2, <1>3, UsableBelowHighest
<1> HIDE DEF e, m, all, free
<1>5. /\ bitmap'.data = memmap[e].base /\ bitmap'.size = BitmapSize(memmap)
      /\ bitmap'.set = all \ free
      /\ Bits(bitmap') = all
  BY <1>2 DEF Bits, all
<1>6. bitmap' \in [data : Nat, size : Nat, set : SUBSET Nat]
  BY InitializeTyped DEF GInv, TypeOK
<1>7. \A k \in Bits(bitmap') : BitPage(bitmap', k) \in PageRun(memmap[e].base, m)
  BY <1>3, <1>5, <1>6, BitsLieInside
<1>8. Usable(memmap') = free /\ Owned' = {} /\ OneOwner'
  BY <1>2 DEF free, Owned, OneOwner
<1>9. Apart'
  BY <1>2, <1>3, <1>4, <1>5, <1>7, <1>8 DEF Apart
<1>10. Exact'
  <2>1. Bits(bitmap') \ bitmap'.set = free
    BY <1>2, <1>5
  <2> QED
    BY <1>2, <1>8, <2>1 DEF Exact
<1> QED
  BY <1>2, <1>9, <1>10 DEF Kept

\* An allocation that is placed over no set bit takes usable pages that nobody
\* has; clearing them clears neither bits nor data.
LEMMA AllocateExact ==
    ASSUME PInv, NEW n \in Requests, pmm_allocate_zero(n), phase' = "ready", Undamaged'
    PROVE  Exact' /\ Kept'
<1> DEFINE i == FirstCandidate(n)
           R == PageRun(i, n)
           C == Bits(bitmap) \ bitmap.set
           new == [addr |-> i, pages |-> n]
<1>1. /\ TypeOK /\ phase = "ready" /\ Candidates(n) # {} /\ n \in Nat \ {0}
      /\ memmap' = memmap /\ written' = written /\ refused' = refused
      /\ held' = held \cup {new}
      /\ usable_pages' = usable_pages - n
      /\ data' = data \ R
      /\ R \subseteq Bits(bitmap)
      /\ ~overrun /\ R \cap bitmap.set = {}
  BY MapAssumption DEF PInv, GInv, pmm_allocate_zero, Grant, Undamaged
<1>2. i \in Nat
  BY <1>1, FirstCandidateIsLowest
<1>3. /\ bitmap'.data = bitmap.data
      /\ Bits(bitmap') = Bits(bitmap)
      /\ bitmap'.set = {k \in (bitmap.set \cup R) \cap Bits(bitmap) :
                           BitPage(bitmap, k) \notin R}
  BY <1>1, AllocateBits
<1>4. Undamaged /\ Apart /\ Exact /\ Kept
  BY <1>1, <1>3 DEF PInv, Undamaged
<1>5. Pages(new) = R
  BY DEF Pages
<1> HIDE DEF i, R, new
<1>6. R \subseteq C /\ R \subseteq Usable(memmap) \ Owned
  BY <1>1, <1>4 DEF Exact
<1>7. Owned' = Owned \cup R
  BY <1>1, <1>5 DEF Owned
<1>8. Bits(bitmap') \ bitmap'.set = C \ R
  BY <1>3, <1>4, <1>6 DEF Apart
<1>9. Cardinality(C \ R) = Cardinality(C) - n
  <2>1. IsFiniteSet(C)
    BY <1>1, BitsAreFinite
  <2>2. IsFiniteSet(R) /\ Cardinality(R) = n
    BY <1>1, <1>2, RunSize DEF R
  <2> HIDE DEF C
  <2> QED
    BY <1>6, <2>1, <2>2, Counting
<1>10. OneOwner'
  <2>1. \A c \in held : Pages(c) \subseteq Owned
    BY DEF Owned
  <2>2. \A c \in held : Pages(c) \cap R = {}
    BY <1>6, <2>1
  <2> QED
    BY <1>1, <1>4, <1>5, <2>2 DEF Exact, OneOwner
<1>11. Exact'
  <2>1. usable_pages' = Cardinality(Bits(bitmap') \ bitmap'.set)
    BY <1>1, <1>4, <1>8, <1>9 DEF Exact
  <2>2. Bits(bitmap') \ bitmap'.set = Usable(memmap') \ Owned'
    BY <1>1, <1>4, <1>7, <1>8 DEF Exact
  <2>3. Owned' \subseteq Usable(memmap')
    BY <1>1, <1>4, <1>6, <1>7 DEF Exact
  <2> QED
    BY <1>10, <2>1, <2>2, <2>3 DEF Exact
<1>12. Kept'
  <2>1. \A b \in written : Pages(b) \cap R = {}
    BY <1>1, <1>6 DEF TypeOK, Owned
  <2> QED
    BY <1>1, <1>4, <2>1 DEF Kept
<1> QED
  BY <1>11, <1>12

\* A refused request that does not reach the bitmap clears no bit, and data only
\* in the pages below its size.
LEMMA AllocateFailsExact ==
    ASSUME PInv, NEW n \in Requests, AllocateFails(n), phase' = "ready", Undamaged'
    PROVE  Exact' /\ Kept'
<1>1. /\ TypeOK /\ phase = "ready" /\ n \in Nat /\ refused \in Nat
      /\ memmap' = memmap /\ held' = held /\ written' = written
      /\ usable_pages' = usable_pages /\ overrun' = overrun
      /\ data' = data \ PageRun(0, n)
      /\ bitmap' = [bitmap EXCEPT !.set = ZeroedBits(bitmap, 0, n)]
      /\ refused' \in Nat /\ refused <= refused' /\ n <= refused'
  BY MapAssumption DEF PInv, GInv, AllocateFails, TypeOK
<1>2. ZeroedBits(bitmap, 0, n) \in SUBSET Nat
  BY <1>1 DEF TypeOK, ZeroedBits
<1>3. /\ bitmap'.data = bitmap.data /\ bitmap'.size = bitmap.size
      /\ bitmap'.set = ZeroedBits(bitmap, 0, n) /\ bitmap.data \in Nat
  BY <1>1, <1>2, BitmapTyped DEF TypeOK
<1>4. Bits(bitmap') = Bits(bitmap)
  BY <1>3 DEF Bits
<1>5. n <= bitmap.data /\ refused <= bitmap.data
  BY <1>1, <1>3 DEF Undamaged
<1>6. Undamaged /\ Exact /\ Kept
  BY <1>1, <1>5 DEF PInv, Undamaged
<1>7. \A k \in Bits(bitmap) : BitPage(bitmap, k) \notin PageRun(0, n)
  BY <1>1, <1>5, BitsLieBehind
<1>8. Bits(bitmap') \ bitmap'.set = Bits(bitmap) \ bitmap.set
  BY <1>3, <1>4, <1>7 DEF ZeroedBits
<1>9. Exact'
  BY <1>1, <1>6, <1>8 DEF Exact, Owned, OneOwner
<1>10. Kept'
  <2>1. /\ PageRun(0, n) \subseteq PageRun(0, refused')
        /\ PageRun(0, refused) \subseteq PageRun(0, refused')
    BY <1>1 DEF PageRun
  <2> QED
    BY <1>1, <1>6, <2>1 DEF Kept
<1> QED
  BY <1>9, <1>10

\* A free gives the pages of the block back and touches no other block.
LEMMA FreeExact ==
    ASSUME PInv, NEW b \in held, pmm_free(b), Undamaged'
    PROVE  Exact' /\ Kept'
<1> DEFINE R == Pages(b)
           C == Bits(bitmap) \ bitmap.set
<1>1. /\ TypeOK /\ phase = "ready"
      /\ memmap' = memmap /\ held' = held \ {b} /\ written' = written \ {b}
      /\ usable_pages' = usable_pages + b.pages /\ data' = data
      /\ bitmap' = [bitmap EXCEPT !.set = @ \ R]
      /\ refused' = refused /\ overrun' = overrun
  BY DEF PInv, GInv, pmm_free
<1>2. /\ b.addr \in Nat /\ b.pages \in Nat \ {0} /\ R = PageRun(b.addr, b.pages)
  BY <1>1, HeldTyped
<1>3. bitmap.set \ R \in SUBSET Nat
  BY <1>1 DEF TypeOK
<1>4. /\ bitmap'.data = bitmap.data /\ bitmap'.size = bitmap.size
      /\ bitmap'.set = bitmap.set \ R
  BY <1>1, <1>3, BitmapTyped DEF TypeOK
<1>5. Bits(bitmap') = Bits(bitmap)
  BY <1>4 DEF Bits
<1>6. Undamaged /\ Apart /\ Exact /\ Kept
  BY <1>1, <1>4 DEF PInv, Undamaged
<1>7. R \subseteq Owned /\ Owned' = Owned \ R
  <2>1. \A p : p \in Owned <=> \E c \in held : p \in Pages(c)
    BY DEF Owned
  <2>2. \A p : p \in Owned' <=> \E c \in held \ {b} : p \in Pages(c)
    BY <1>1 DEF Owned
  <2>3. \A c \in held \ {b} : Pages(c) \cap R = {}
    BY <1>6 DEF Exact, OneOwner
  <2> QED
    BY <2>1, <2>2, <2>3
<1>8. R \subseteq Usable(memmap) /\ R \subseteq Bits(bitmap) /\ C \cap R = {}
  BY <1>6, <1>7 DEF Apart, Exact
<1>9. Bits(bitmap') \ bitmap'.set = C \cup R
  BY <1>4, <1>5, <1>8
<1>10. Cardinality(C \cup R) = Cardinality(C) + b.pages
  <2>1. IsFiniteSet(C)
    BY <1>1, BitsAreFinite
  <2>2. IsFiniteSet(R) /\ Cardinality(R) = b.pages
    BY <1>2, RunSize
  <2> HIDE DEF C, R
  <2> QED
    BY <1>8, <2>1, <2>2, Counting
<1>11. Exact'
  <2>1. usable_pages' = Cardinality(Bits(bitmap') \ bitmap'.set)
    BY <1>1, <1>6, <1>9, <1>10 DEF Exact
  <2>2. Bits(bitmap') \ bitmap'.set = Usable(memmap') \ Owned'
    BY <1>1, <1>6, <1>7, <1>8, <1>9 DEF Exact
  <2>3. Owned' \subseteq Usable(memmap')
    BY <1>1, <1>6, <1>7 DEF Exact
  <2>4. OneOwner'
    BY <1>1, <1>6 DEF Exact, OneOwner
  <2> QED
    BY <2>1, <2>2, <2>3, <2>4 DEF Exact
<1>12. Kept'
  BY <1>1, <1>6 DEF Kept
<1> QED
  BY <1>11, <1>12

\* Once the manager is ready, the table, the bitmap's place and its size stay.
LEMMA PlaceStays ==
    ASSUME TypeOK, phase = "ready", [Next]_vars
    PROVE  /\ memmap' = memmap /\ highest_page' = highest_page
           /\ bitmap'.data = bitmap.data /\ bitmap'.size = bitmap.size
<1>1. ASSUME NEW n \in Requests, pmm_allocate_zero(n)
      PROVE  /\ memmap' = memmap /\ highest_page' = highest_page
             /\ bitmap'.data = bitmap.data /\ bitmap'.size = bitmap.size
  BY <1>1, AllocateBits DEF pmm_allocate_zero, Grant
<1>2. ASSUME NEW n \in Requests, AllocateFails(n)
      PROVE  /\ memmap' = memmap /\ highest_page' = highest_page
             /\ bitmap'.data = bitmap.data /\ bitmap'.size = bitmap.size
  <2>1. ZeroedBits(bitmap, 0, n) \in SUBSET Nat
    BY DEF TypeOK, ZeroedBits
  <2> QED
    BY <1>2, <2>1, BitmapTyped DEF TypeOK, AllocateFails
<1>3. ASSUME NEW b \in held, pmm_free(b)
      PROVE  /\ memmap' = memmap /\ highest_page' = highest_page
             /\ bitmap'.data = bitmap.data /\ bitmap'.size = bitmap.size
  <2>1. bitmap.set \ Pages(b) \in SUBSET Nat
    BY DEF TypeOK
  <2> QED
    BY <1>3, <2>1, BitmapTyped DEF TypeOK, pmm_free
<1>4. ASSUME NEW b \in held, ClientWrites(b)
      PROVE  /\ memmap' = memmap /\ highest_page' = highest_page
             /\ bitmap'.data = bitmap.data /\ bitmap'.size = bitmap.size
  BY <1>4 DEF ClientWrites
<1>5. CASE UNCHANGED vars
  BY <1>5 DEF vars
<1>6. ~pmm_initialize /\ ~InitializeFails
  BY DEF pmm_initialize, InitializeFails
<1> QED
  BY <1>1, <1>2, <1>3, <1>4, <1>5, <1>6 DEF Next, Stopped

\* Every step keeps the invariant of the records.
LEMMA PInvStep ==
    ASSUME PInv, [Next]_vars
    PROVE  PInv'
<1>1. GInv' /\ GInv /\ TypeOK
  BY TypeStep, BootingStep, FilledStep DEF GInv, PInv
<1> SUFFICES ASSUME phase' = "ready"
             PROVE  Apart' /\ (Undamaged' => Exact' /\ Kept')
  BY <1>1 DEF PInv
<1>2. CASE pmm_initialize
  BY <1>1, <1>2, InitializeSettles
<1>3. ASSUME ~pmm_initialize
      PROVE  phase = "ready" /\ Apart'
  <2>1. phase = "ready"
    BY <1>3 DEF Next, InitializeFails, pmm_allocate_zero, AllocateFails, pmm_free,
                ClientWrites, Stopped, vars
  <2>2. Bits(bitmap') = Bits(bitmap) /\ \A k : BitPage(bitmap', k) = BitPage(bitmap, k)
    BY <1>1, <2>1, PlaceStays DEF Bits, BitPage
  <2> QED
    BY <1>1, <2>1, <2>2, PlaceStays DEF PInv, Apart
<1>4. ASSUME ~pmm_initialize, Undamaged'
      PROVE  Exact' /\ Kept'
  <2>1. CASE InitializeFails
    BY <2>1 DEF InitializeFails
  <2>2. CASE \E n \in Requests : pmm_allocate_zero(n)
    BY <1>4, <2>2, AllocateExact
  <2>3. CASE \E n \in Requests : AllocateFails(n)
    BY <1>4, <2>3, AllocateFailsExact
  <2>4. ASSUME NEW b \in held, pmm_free(b)
        PROVE  Exact' /\ Kept'
    BY <1>4, <2>4, FreeExact
  <2>5. ASSUME NEW b \in held, ClientWrites(b)
        PROVE  Exact' /\ Kept'
    <3>1. Undamaged /\ phase = "ready"
      BY <1>4, <2>5 DEF ClientWrites, Undamaged
    <3>2. Exact'
      BY <2>5, <3>1 DEF PInv, ClientWrites, Exact, Owned, OneOwner
    <3>3. Kept'
      BY <2>5, <3>1 DEF PInv, ClientWrites, Kept
    <3> QED
      BY <3>2, <3>3
  <2>6. CASE UNCHANGED vars
    BY <1>4, <2>6 DEF vars, client, PInv, Undamaged, Exact, Owned, OneOwner, Kept
  <2> QED
    BY <1>4, <2>1, <2>2, <2>3, <2>4, <2>5, <2>6 DEF Next, Stopped
<1> QED
  BY <1>2, <1>3, <1>4

\* The invariant of the records holds in every reachable state.
LEMMA PInvHolds == Spec => []PInv
<1>1. Init => PInv
  BY GInvInit DEF Init, PInv
<1>2. PInv /\ [Next]_vars => PInv'
  BY PInvStep
<1> QED
  BY <1>1, <1>2, PTL DEF Spec

\* For every mix of requests, frees and refusals: until a block is placed over a
\* set bit or a refusal reaches the bitmap, a bit is clear exactly when its page
\* is usable and nobody has it, and usable_pages counts those pages.
THEOREM BitmapIsExact == Spec => []BitsExact
<1>1. PInv => BitsExact
  BY DEF PInv, Exact, BitsExact
<1> QED
  BY <1>1, PInvHolds, PTL

\* Until then callers have usable pages outside the bitmap, and no page belongs
\* to two of them: testing every bit of a run would make the scan safe.
THEOREM OnlyUsablePagesAreHeld == Spec => []HeldAreUsable
<1>1. PInv => HeldAreUsable
  <2> SUFFICES ASSUME PInv, phase = "ready", Undamaged
               PROVE  Owned \subseteq Usable(memmap) /\ OneOwner /\ BitmapAlone
    BY DEF HeldAreUsable
  <2>1. \A b \in held : Pages(b) \subseteq Owned
    BY DEF Owned
  <2> QED
    BY <2>1 DEF PInv, Exact, Apart, BitmapAlone
<1> QED
  BY <1>1, PInvHolds, PTL

\* Until then no allocation clears what an owner stored, but for a refused one,
\* and that one only in the pages whose numbers are below its size.
THEOREM DataIsKept == Spec => []DataKept
<1>1. PInv => DataKept
  BY DEF PInv, Kept, DataKept
<1> QED
  BY <1>1, PInvHolds, PTL

\* Until then the scan overlooks no page: a request that is not too big is
\* refused only when callers have all usable memory.
THEOREM RefusedOnlyWhenNoneLeft == Spec => RefusedWhenNoneLeft
<1> DEFINE A == \A n \in Requests :
                   AllocateFails(n) /\ Undamaged /\ n <= bitmap.size =>
                       Usable(memmap) \subseteq Owned
<1>1. PInv /\ [Next]_vars => [A]_vars
  <2> SUFFICES ASSUME PInv, NEW n \in Requests, AllocateFails(n), Undamaged,
                      n <= bitmap.size
               PROVE  Usable(memmap) \subseteq Owned
    OBVIOUS
  <2>1. phase = "ready" /\ Candidates(n) = {} /\ TypeOK
    BY DEF AllocateFails, PInv, GInv
  <2>2. ~(n > bitmap.size)
    BY <2>1, MapAssumption DEF TypeOK
  <2>3. PageRun(0, highest_page) \cap Bits(bitmap) \subseteq bitmap.set
    BY <2>1, <2>2 DEF Candidates
  <2> QED
    BY <2>1, <2>3 DEF PInv, Apart, Exact
<1> QED
  BY <1>1, PInvHolds, PTL DEF Spec, RefusedWhenNoneLeft
=============================================================================
