-------------------------------- MODULE MCPmm -------------------------------
(* Instances of Pmm for TLC: a byte has 2 bits and a page 2 bytes, so one   *)
(* page of bitmap describes 4 pages.                                        *)
EXTENDS Pmm

E(b, n, t) == [base |-> b, length |-> n, type |-> t]

\* One region; a region that the bitmap fills; two regions with a gap.
OneRegion == <<E(0, 1, "reserved"), E(1, 6, "usable"), E(7, 1, "kernel")>>
FilledRegion == <<E(1, 2, "usable"), E(3, 1, "reclaimable"), E(4, 4, "usable")>>
Gap == <<E(1, 4, "usable"), E(5, 1, "reserved"), E(6, 1, "usable")>>

\* A region too small for the bitmap lies in front of the bitmap's; the second
\* time so far in front that a refusal of five pages does not reach the bitmap.
SmallFirst == <<E(1, 1, "usable"), E(2, 1, "reserved"), E(3, 5, "usable")>>
FarBitmap == <<E(1, 1, "usable"), E(2, 3, "reserved"), E(5, 3, "usable")>>

\* Nine pages need more than the eight bits that two pages of bitmap hold.
EdgeUsable == <<E(1, 8, "usable")>>
EdgeKernel == <<E(1, 5, "usable"), E(6, 3, "kernel")>>

\* No page at all, and no entry that the bitmap fits in.
Tiny == <<E(0, 1, "kernel")>>
NoRoom == <<E(1, 1, "usable"), E(2, 6, "kernel")>>

Regular == {OneRegion, FilledRegion, Gap, SmallFirst, FarBitmap}
AllMaps == Regular \cup {EdgeUsable, EdgeKernel, Tiny, NoRoom}

\* Bound: a behaviour is followed while the premise of one of the properties
\* holds, Undamaged or that of FreshUntilFree.
Followed == Undamaged \/ (~freed /\ refused = 0 /\ BitmapAlone)
=============================================================================
