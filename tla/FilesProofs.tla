---------------------------- MODULE FilesProofs ----------------------------
(* Proofs about the system calls on files, for every archive, every number  *)
(* of tasks, and all paths, flags, sizes and descriptors that they pass.    *)
EXTENDS Files, VfsProofs, VecProofs

-----------------------------------------------------------------------------
(* Reads and writes of one node.                                           *)

Halts == {"no", "fault", "junk", "freed", "overrun", "splice"}

\* The node u is f with other contents: its links, name and file system stay.
Touched(f, u) ==
    /\ u = [x \in FieldNames |-> u[x]]
    /\ \A x \in FieldNames \ {"cursor", "st_size", "room", "init", "freed", "junk"} :
          u[x] = f[x]
    /\ u.cursor \in Int /\ u.st_size \in Nat /\ u.room \in Nat
    /\ u.init \in BOOLEAN /\ u.freed \in BOOLEAN /\ u.junk \in SUBSET Fields

\* The buffer is the same, and what is known of its size.
SameBuffer(u, f) ==
    /\ u.mountpoint = f.mountpoint /\ u.freed = f.freed
    /\ u.room = f.room /\ u.st_size = f.st_size
    /\ "st_size" \in u.junk <=> "st_size" \in f.junk

\* A node is a touched copy of itself.
LEMMA TouchedSame ==
    ASSUME NEW m, NEW f \in Nodes(m)
    PROVE  Touched(f, f) /\ SameBuffer(f, f)
<1>1. IsNode(f, m)
  BY NodeTypes
<1> QED
  BY <1>1 DEF IsNode, Touched, SameBuffer

\* A touched node is a node with the links it had.
LEMMA TouchedNode ==
    ASSUME NEW m, NEW f \in Nodes(m), NEW u, Touched(f, u)
    PROVE  u \in Nodes(m) /\ SameLinks(u, f) /\ u.mountpoint = f.mountpoint
<1>1. IsNode(f, m)
  BY NodeTypes
<1>2. /\ u.type = f.type /\ u.name = f.name /\ u.parent = f.parent
      /\ u.points_to = f.points_to /\ u.children = f.children
      /\ u.mountpoint = f.mountpoint /\ u.append = f.append /\ u.archived = f.archived
  BY DEF Touched, FieldNames
<1>3. IsNode(u, m)
  BY <1>1, <1>2 DEF IsNode, Touched
<1> QED
  BY <1>2, <1>3, NodeTypes DEF SameLinks

\* Touching twice is touching.
LEMMA TouchedOn ==
    ASSUME NEW f, NEW g, NEW u, Touched(f, g), Touched(g, u)
    PROVE  Touched(f, u)
  BY DEF Touched

\* Assignments to the fields that may change.
WithCursor(f, c) == [f EXCEPT !.cursor = c]
WithInit(f, b) == [f EXCEPT !.init = b]
WithJunk(f, j) == [f EXCEPT !.junk = j]
WithFreed(f, b) == [f EXCEPT !.freed = b]
WithContents(f, c, r, s) == [f EXCEPT !.cursor = c, !.room = r, !.st_size = s]

\* node->cursor is assigned.
LEMMA CursorSet ==
    ASSUME NEW f, Touched(f, f), NEW c \in Int
    PROVE  /\ Touched(f, WithCursor(f, c)) /\ SameBuffer(WithCursor(f, c), f)
           /\ Touched(WithCursor(f, c), WithCursor(f, c))
<1> DEFINE u == [f EXCEPT !.cursor = c]
<1>1. u.cursor = c /\ \A x \in FieldNames \ {"cursor"} : u[x] = f[x]
  BY DEF Touched, FieldNames
<1>2. u = [x \in FieldNames |-> u[x]]
  BY DEF Touched, FieldNames
<1> HIDE DEF u
<1>3. Touched(f, u) /\ SameBuffer(u, f) /\ Touched(u, u)
  BY <1>1, <1>2 DEF Touched, SameBuffer, FieldNames
<1> QED
  BY <1>3 DEF u, WithCursor

\* node->init is assigned.
LEMMA InitSet ==
    ASSUME NEW f, Touched(f, f), NEW b \in BOOLEAN
    PROVE  /\ Touched(f, WithInit(f, b)) /\ SameBuffer(WithInit(f, b), f)
           /\ Touched(WithInit(f, b), WithInit(f, b))
<1> DEFINE u == [f EXCEPT !.init = b]
<1>1. u.init = b /\ \A x \in FieldNames \ {"init"} : u[x] = f[x]
  BY DEF Touched, FieldNames
<1>2. u = [x \in FieldNames |-> u[x]]
  BY DEF Touched, FieldNames
<1> HIDE DEF u
<1>3. Touched(f, u) /\ SameBuffer(u, f) /\ Touched(u, u)
  BY <1>1, <1>2 DEF Touched, SameBuffer, FieldNames
<1> QED
  BY <1>3 DEF u, WithInit

\* Fields of the node are written for the first time, or become unknown.
LEMMA JunkSet ==
    ASSUME NEW f, Touched(f, f), NEW j \in SUBSET Fields
    PROVE  /\ Touched(f, WithJunk(f, j)) /\ WithJunk(f, j).junk = j
           /\ ("st_size" \in j <=> "st_size" \in f.junk) => SameBuffer(WithJunk(f, j), f)
           /\ Touched(WithJunk(f, j), WithJunk(f, j))
<1> DEFINE u == [f EXCEPT !.junk = j]
<1>1. u.junk = j /\ \A x \in FieldNames \ {"junk"} : u[x] = f[x]
  BY DEF Touched, FieldNames
<1>2. u = [x \in FieldNames |-> u[x]]
  BY DEF Touched, FieldNames
<1> HIDE DEF u
<1>3. /\ Touched(f, u) /\ u.junk = j /\ Touched(u, u)
      /\ ("st_size" \in j <=> "st_size" \in f.junk) => SameBuffer(u, f)
  BY <1>1, <1>2 DEF Touched, SameBuffer, FieldNames
<1> QED
  BY <1>3 DEF u, WithJunk

\* The buffer of the node is freed.
LEMMA FreedSet ==
    ASSUME NEW f, Touched(f, f), NEW b \in BOOLEAN
    PROVE  /\ Touched(f, WithFreed(f, b)) /\ WithFreed(f, b).freed = b
           /\ WithFreed(f, b).room = f.room /\ WithFreed(f, b).st_size = f.st_size
           /\ WithFreed(f, b).junk = f.junk
<1> DEFINE u == [f EXCEPT !.freed = b]
<1>1. u.freed = b /\ \A x \in FieldNames \ {"freed"} : u[x] = f[x]
  BY DEF Touched, FieldNames
<1>2. u = [x \in FieldNames |-> u[x]]
  BY DEF Touched, FieldNames
<1> HIDE DEF u
<1>3. Touched(f, u) /\ u.freed = b /\ u.room = f.room /\ u.st_size = f.st_size /\ u.junk = f.junk
  BY <1>1, <1>2 DEF Touched, FieldNames
<1> QED
  BY <1>3 DEF u, WithFreed

\* The cursor, the buffer and the size of the node are assigned.
LEMMA ContentsSet ==
    ASSUME NEW f, Touched(f, f), NEW c \in Int, NEW r \in Nat, NEW s \in Nat
    PROVE  LET u == WithContents(f, c, r, s)
           IN  /\ Touched(f, u) /\ u.freed = f.freed /\ u.room = r /\ u.st_size = s
               /\ u.junk = f.junk
<1> DEFINE u == [f EXCEPT !.cursor = c, !.room = r, !.st_size = s]
<1>1. /\ u.cursor = c /\ u.room = r /\ u.st_size = s
      /\ \A x \in FieldNames \ {"cursor", "room", "st_size"} : u[x] = f[x]
  BY DEF Touched, FieldNames
<1>2. u = [x \in FieldNames |-> u[x]]
  BY DEF Touched, FieldNames
<1> HIDE DEF u
<1>3. Touched(f, u) /\ u.freed = f.freed /\ u.room = r /\ u.st_size = s /\ u.junk = f.junk
  BY <1>1, <1>2 DEF Touched, FieldNames
<1> QED
  BY <1>3 DEF u, WithContents

\* What comes out of a read or a write of f: a node, and why the kernel stops.
\* It stops because of freed memory only if f's buffer was freed.
IsOutcome(f, r) ==
    /\ r = [node |-> r.node, halt |-> r.halt, ret |-> r.ret]
    /\ Touched(f, r.node)
    /\ r.node.freed = f.freed
    /\ r.halt \in Halts \ {"splice"}
    /\ r.halt = "freed" => f.freed

\* An operation that ends normally.
LEMMA DoneOutcome ==
    ASSUME NEW f, NEW u, NEW ret, Touched(f, u), u.freed = f.freed
    PROVE  IsOutcome(f, Done(u, ret)) /\ Done(u, ret).node = u /\ Done(u, ret).halt = "no"
<1> DEFINE r == Done(u, ret)
<1>1. r = [node |-> u, halt |-> "no", ret |-> ret]
  BY DEF Done
<1> HIDE DEF r
<1>2. r.node = u /\ r.halt = "no" /\ r.ret = ret
  BY <1>1
<1>3. IsOutcome(f, r)
  BY <1>1, <1>2 DEF IsOutcome, Halts
<1> QED
  BY <1>2, <1>3 DEF r

\* An operation in which the kernel stops.
LEMMA StopOutcome ==
    ASSUME NEW f, NEW u, NEW why \in Halts \ {"splice"}, why = "freed" => f.freed, Touched(f, u),
           u.freed = f.freed
    PROVE  IsOutcome(f, StopIn(u, why)) /\ StopIn(u, why).node = u /\ StopIn(u, why).halt = why
<1> DEFINE r == StopIn(u, why)
<1>1. r = [node |-> u, halt |-> why, ret |-> -1]
  BY DEF StopIn
<1> HIDE DEF r
<1>2. r.node = u /\ r.halt = why /\ r.ret = -1
  BY <1>1
<1>3. IsOutcome(f, r)
  BY <1>1, <1>2 DEF IsOutcome
<1> QED
  BY <1>2, <1>3 DEF r

\* The first read of a file stops for one of four reasons.
LEMMA LoadOutcome ==
    ASSUME NEW f
    PROVE  LoadStops(f) \in Halts \ {"splice"} /\ (LoadStops(f) = "freed" => f.freed)
  BY DEF LoadStops, Halts

\* A read leaves the buffer as it is.
LEMMA ReadOutcome ==
    ASSUME NEW m, NEW f \in Nodes(m), NEW count \in Int, NEW buffer, NEW line
    PROVE  LET r == vfs_read(f, count, buffer, line)
           IN  IsOutcome(f, r) /\ SameBuffer(r.node, f)
<1> DEFINE r == vfs_read(f, count, buffer, line)
           g == WithInit(f, TRUE)
           k == WithCursor(g, g.cursor + count)
<1>1. Touched(f, f) /\ SameBuffer(f, f)
  BY TouchedSame
<1>2. Touched(f, g) /\ SameBuffer(g, f) /\ Touched(g, g)
  BY <1>1, InitSet
<1>3. g.cursor + count \in Int
  <2> HIDE DEF g
  <2> QED
    BY <1>2 DEF Touched
<1>4. Touched(g, k) /\ SameBuffer(k, g)
  BY <1>2, <1>3, CursorSet
<1>5. Touched(f, k) /\ SameBuffer(k, f)
  <2> HIDE DEF g, k
  <2>1. Touched(f, k)
    BY <1>2, <1>4, TouchedOn
  <2> QED
    BY <1>2, <1>4, <2>1 DEF SameBuffer
<1>6. \/ \E why \in Halts \ {"splice"} : /\ why = "freed" => f.freed
                                         /\ r = StopIn(f, why) \/ r = StopIn(g, why)
      \/ \E ret : r = Done(f, ret) \/ r = Done(g, ret) \/ r = Done(k, ret)
  <2> HIDE DEF g, k
  <2>1. {"junk", "fault", "overrun"} \subseteq Halts \ {"splice"}
    BY DEF Halts
  <2>2. CASE IsJunk(f, {"mountpoint"}) \/ f.mountpoint = "none"
    BY <2>1, <2>2 DEF vfs_read
  <2>3. CASE ~IsJunk(f, {"mountpoint"}) /\ f.mountpoint = "tmpfs"
    <3>1. r = tmpfs_read(f, count, buffer)
      BY <2>3 DEF vfs_read
    <3> HIDE DEF r
    <3>2. r = IF IsJunk(f, {"init"}) THEN StopIn(f, "junk")
              ELSE IF ~f.init /\ LoadStops(f) # "no" THEN StopIn(f, LoadStops(f))
              ELSE IF ~buffer THEN Done(g, -1)
              ELSE IF IsJunk(g, {"cursor"}) THEN StopIn(g, "junk")
              ELSE Done(k, count)
      BY <3>1, Zenon DEF tmpfs_read, g, k, WithInit, WithCursor
    <3> QED
      BY <2>1, <3>2, LoadOutcome, Zenon
  <2>4. CASE ~IsJunk(f, {"mountpoint"}) /\ f.mountpoint # "none" /\ f.mountpoint # "tmpfs"
    <3>1. r = devfs_read(f, count, buffer, line)
      BY <2>4 DEF vfs_read
    <3> HIDE DEF r
    <3>2. r = IF f.name # <<"tty">> THEN Done(f, -1)
              ELSE IF line + 1 > count THEN StopIn(f, "overrun")
              ELSE IF buffer THEN Done(f, line) ELSE StopIn(f, "fault")
      BY <3>1 DEF devfs_read
    <3> QED
      BY <2>1, <3>2, Zenon
  <2> QED
    BY <2>2, <2>3, <2>4
<1> HIDE DEF g, k, r
<1>7. f.freed = g.freed /\ k.freed = f.freed
  BY <1>2, <1>5 DEF SameBuffer
<1>8. CASE \E why \in Halts \ {"splice"} : /\ why = "freed" => f.freed
                                           /\ r = StopIn(f, why) \/ r = StopIn(g, why)
  BY <1>1, <1>2, <1>7, <1>8, StopOutcome DEF r
<1>9. CASE \E ret : r = Done(f, ret) \/ r = Done(g, ret) \/ r = Done(k, ret)
  BY <1>1, <1>2, <1>5, <1>7, <1>9, DoneOutcome DEF r
<1> QED
  BY <1>6, <1>8, <1>9

WithSize(f, c, s) == [f EXCEPT !.cursor = c, !.st_size = s]

\* The cursor and the size of the node are assigned.
LEMMA SizeSet ==
    ASSUME NEW f, Touched(f, f), NEW c \in Int, NEW s \in Nat
    PROVE  Touched(f, WithSize(f, c, s)) /\ WithSize(f, c, s).freed = f.freed
<1> DEFINE u == [f EXCEPT !.cursor = c, !.st_size = s]
<1>1. /\ u.cursor = c /\ u.st_size = s
      /\ \A x \in FieldNames \ {"cursor", "st_size"} : u[x] = f[x]
  BY DEF Touched, FieldNames
<1>2. u = [x \in FieldNames |-> u[x]]
  BY DEF Touched, FieldNames
<1> HIDE DEF u
<1>3. Touched(f, u) /\ u.freed = f.freed
  BY <1>1, <1>2 DEF Touched, FieldNames
<1> QED
  BY <1>3 DEF u, WithSize

\* A buffer of tmpfs has room for the file and one byte more.
Roomy(f) == f.mountpoint = "tmpfs" => Fits(f)

\* The file is written from its end on, if it is one of tmpfs.
WrittenAtEnd(f) == f.mountpoint = "tmpfs" /\ ~f.append => f.cursor = f.st_size

\* An append leaves the buffer large enough.
LEMMA AppendOutcome ==
    ASSUME NEW m, NEW f \in Nodes(m), NEW count \in Nat
    PROVE  LET r == tmpfs_append(f, count)
           IN  IsOutcome(f, r) /\ (Fits(f) => Fits(r.node))
<1> DEFINE r == tmpfs_append(f, count)
           j == f.junk \ {"cursor"}
           g == WithJunk(f, j)
           size == f.st_size
           k == WithContents(g, size, size + count + 1, g.st_size + count)
<1>1. Touched(f, f) /\ f.st_size \in Nat /\ f.junk \in SUBSET Fields
  BY TouchedSame DEF Touched
<1>2. j \in SUBSET Fields /\ ("st_size" \in j <=> "st_size" \in f.junk)
  BY <1>1
<1> HIDE DEF j
<1>3. Touched(f, g) /\ SameBuffer(g, f) /\ Touched(g, g)
  BY <1>1, <1>2, JunkSet
<1>4. r = IF IsJunk(f, {"st_size", "address"}) THEN StopIn(f, "junk")
          ELSE IF f.freed THEN StopIn(f, "freed") ELSE Done(k, 0)
  BY Zenon DEF tmpfs_append, Put, WithJunk, WithContents, j
<1> HIDE DEF r, g, size
<1>5. g.st_size = f.st_size /\ g.freed = f.freed /\ size = f.st_size
  BY <1>3 DEF SameBuffer, size
<1>6. size \in Int /\ size + count + 1 \in Nat /\ g.st_size + count \in Nat
      /\ g.st_size + count < size + count + 1
  BY <1>1, <1>5
<1>7. /\ Touched(g, k) /\ k.freed = g.freed /\ k.room = size + count + 1
      /\ k.st_size = g.st_size + count /\ k.junk = g.junk
  BY <1>3, <1>6, ContentsSet
<1> HIDE DEF k
<1>8. Touched(f, k) /\ k.freed = f.freed /\ Fits(k)
  <2>1. Touched(f, k)
    BY <1>3, <1>7, TouchedOn
  <2> QED
    BY <1>5, <1>6, <1>7, <2>1 DEF Fits
<1>9. CASE r = StopIn(f, "junk")
  BY <1>1, <1>9, StopOutcome DEF Halts, r
<1>10. CASE f.freed /\ r = StopIn(f, "freed")
  BY <1>1, <1>10, StopOutcome DEF Halts, r
<1>11. CASE r = Done(k, 0)
  BY <1>8, <1>11, DoneOutcome DEF r
<1> QED
  BY <1>4, <1>9, <1>10, <1>11

\* So does a write at the end of the file.
LEMMA TmpfsWriteOutcome ==
    ASSUME NEW m, NEW f \in Nodes(m), NEW count \in Nat
    PROVE  LET r == tmpfs_write(f, count)
           IN  /\ IsOutcome(f, r)
               /\ Fits(f) /\ (~f.append => f.cursor = f.st_size) => Fits(r.node)
<1> DEFINE r == tmpfs_write(f, count)
           room == IF f.cursor >= f.st_size THEN f.st_size + count + 1 ELSE f.room
           c == f.cursor + count
           size == f.st_size + count
           k == WithContents(f, c, room, size)
<1>1. /\ Touched(f, f) /\ f.st_size \in Nat /\ f.room \in Nat /\ f.cursor \in Int
  BY TouchedSame DEF Touched
<1>2. CASE f.append
  <2>1. r = tmpfs_append(f, count)
    BY <1>2 DEF tmpfs_write
  <2> QED
    BY <2>1, AppendOutcome
<1>3. CASE ~f.append
  <2>1. r = IF IsJunk(f, {"st_size", "address", "cursor"}) THEN StopIn(f, "junk")
            ELSE IF f.freed THEN StopIn(f, "freed")
            ELSE IF room = 0 THEN StopIn(f, "fault")
            ELSE IF f.cursor < 0 \/ f.cursor + count > room THEN StopIn(f, "overrun")
            ELSE Done(k, count)
    BY <1>3, Zenon DEF tmpfs_write, WithContents
  <2>2. /\ room \in Nat /\ c \in Int /\ size \in Nat
        /\ f.cursor = f.st_size => size < room
    BY <1>1
  <2> HIDE DEF r, room, c, size
  <2>3. /\ Touched(f, k) /\ k.freed = f.freed /\ k.room = room
        /\ k.st_size = size /\ k.junk = f.junk
    BY <1>1, <2>2, ContentsSet
  <2> HIDE DEF k
  <2>4. f.cursor = f.st_size => Fits(k)
    BY <2>2, <2>3 DEF Fits
  <2>5. CASE r \in {StopIn(f, "junk"), StopIn(f, "fault"), StopIn(f, "overrun")}
    BY <1>1, <2>5, StopOutcome DEF Halts, r
  <2>6. CASE f.freed /\ r = StopIn(f, "freed")
    BY <1>1, <2>6, StopOutcome DEF Halts, r
  <2>7. CASE r = Done(k, count)
    BY <1>3, <2>3, <2>4, <2>7, DoneOutcome DEF r
  <2> QED
    BY <2>1, <2>5, <2>6, <2>7
<1> QED
  BY <1>2, <1>3

\* A write to a device.
LEMMA DevfsWriteOutcome ==
    ASSUME NEW m, NEW f \in Nodes(m), NEW count \in Nat
    PROVE  IsOutcome(f, devfs_write(f, count))
<1> DEFINE r == devfs_write(f, count)
           k == WithSize(f, f.cursor + Advance(f, "cursor", count),
                            f.st_size + Advance(f, "st_size", count))
<1>1. /\ Touched(f, f) /\ f.st_size \in Nat /\ f.cursor \in Int
  BY TouchedSame DEF Touched
<1>2. r = IF f.name # <<"tty">> THEN Done(f, -1) ELSE Done(k, count)
  BY DEF devfs_write, WithSize
<1>3. /\ f.cursor + Advance(f, "cursor", count) \in Int
      /\ f.st_size + Advance(f, "st_size", count) \in Nat
  BY <1>1 DEF Advance
<1>4. Touched(f, k) /\ k.freed = f.freed
  BY <1>1, <1>3, SizeSet
<1> HIDE DEF k, r
<1>5. r = Done(f, -1) \/ r = Done(k, count)
  BY <1>2
<1> QED
  BY <1>1, <1>4, <1>5, DoneOutcome DEF r

\* A write leaves the buffer large enough if it was and the file is written
\* from its end on.
LEMMA WriteOutcome ==
    ASSUME NEW m, NEW f \in Nodes(m), NEW count \in Nat
    PROVE  LET r == vfs_write(f, count)
           IN  /\ IsOutcome(f, r)
               /\ Roomy(f) /\ WrittenAtEnd(f) => Roomy(r.node)
<1> DEFINE r == vfs_write(f, count)
           w == IF f.mountpoint = "tmpfs" THEN tmpfs_write(f, count) ELSE devfs_write(f, count)
           ret == IF w.ret = -1 THEN -1 ELSE count
           u == [w EXCEPT !.ret = ret]
<1>1. Touched(f, f)
  BY TouchedSame
<1>2. r = IF IsJunk(f, {"mountpoint"}) THEN StopIn(f, "junk")
          ELSE IF f.mountpoint = "none" THEN StopIn(f, "fault") ELSE u
  BY DEF vfs_write
<1>3. IsOutcome(f, w) /\ (Roomy(f) /\ WrittenAtEnd(f) => Roomy(w.node))
  <2>1. CASE f.mountpoint = "tmpfs"
    <3>1. w = tmpfs_write(f, count)
      BY <2>1
    <3> HIDE DEF w
    <3>2. IsOutcome(f, w) /\ (Fits(f) /\ (~f.append => f.cursor = f.st_size) => Fits(w.node))
      BY <3>1, TmpfsWriteOutcome
    <3> QED
      BY <2>1, <3>2 DEF Roomy, WrittenAtEnd
  <2>2. CASE f.mountpoint # "tmpfs"
    <3>1. w = devfs_write(f, count)
      BY <2>2
    <3> HIDE DEF w
    <3>2. IsOutcome(f, w)
      BY <3>1, DevfsWriteOutcome
    <3>3. w.node.mountpoint = f.mountpoint
      BY <3>2 DEF IsOutcome, Touched, FieldNames
    <3> QED
      BY <2>2, <3>2, <3>3 DEF Roomy
  <2> QED
    BY <2>1, <2>2
<1> HIDE DEF r, w, ret
<1>4. IsOutcome(f, u) /\ u.node = w.node
  <2>1. u = [node |-> w.node, halt |-> w.halt, ret |-> ret]
    BY <1>3 DEF IsOutcome
  <2> HIDE DEF u
  <2>2. u.node = w.node /\ u.halt = w.halt /\ u.ret = ret
    BY <2>1
  <2> QED
    BY <1>3, <2>1, <2>2 DEF IsOutcome
<1> HIDE DEF u
<1>5. CASE r = StopIn(f, "junk") \/ r = StopIn(f, "fault")
  BY <1>1, <1>5, StopOutcome DEF Halts, r
<1>6. CASE r = u
  BY <1>3, <1>4, <1>6 DEF r
<1> QED
  BY <1>2, <1>5, <1>6

-----------------------------------------------------------------------------
(* Descriptors.                                                            *)

\* The descriptors of a tree of n nodes, and a table of them: a slot that is in
\* use has been written.
Slots(n) == [fd : Nat, file : (0..n) \cup {Junk}]

Table(v, n) ==
    /\ WellFormed(v, Slots(n))
    /\ \A i \in 1..v.length : v.data[i] \in Slots(n)

\* A slot that was written is told apart from one that was not.
LEMMA SlotsApart ==
    ASSUME NEW n \in Nat
    PROVE  Junk \notin Slots(n)
<1>1. Junk \notin [fd : Nat, file : Int \cup {Junk}]
  BY FilesAssumption
<1> QED
  BY <1>1 DEF Slots

\* A table of descriptors of a tree is one of every larger tree.
LEMMA TableGrows ==
    ASSUME NEW n \in Nat, NEW k \in Nat, n <= k, NEW v, Table(v, n)
    PROVE  Table(v, k)
<1>1. Slots(n) \subseteq Slots(k)
  BY DEF Slots
<1>2. \A S, R : S \subseteq R => \A s : s \in Seq(S \cup {Junk}) => s \in Seq(R \cup {Junk})
  OBVIOUS
<1>3. /\ v = [data |-> v.data, length |-> v.length]
      /\ v.data \in Seq(Slots(n) \cup {Junk}) /\ v.length \in Nat
      /\ v.length <= Capacity(v)
  BY DEF Table, WellFormed, VecOf
<1>4. v.data \in Seq(Slots(k) \cup {Junk})
  BY <1>1, <1>2, <1>3, Zenon
<1>5. v \in VecOf(Slots(k))
  BY <1>3, <1>4 DEF VecOf
<1> QED
  BY <1>1, <1>3, <1>5 DEF Table, WellFormed

\* A new vector is a table.
LEMMA EmptyTable ==
    ASSUME NEW n \in Nat
    PROVE  Table(VecInit, n) /\ VecInit.length = 0
<1>1. \A S : <<>> \in Seq(S) /\ Len(<<>>) = 0
  OBVIOUS
<1>2. VecInit = [data |-> <<>>, length |-> 0] /\ VecInit.length = 0 /\ VecInit.data = <<>>
  BY DEF VecInit
<1>3. VecInit \in VecOf(Slots(n))
  BY <1>1, <1>2 DEF VecOf
<1> QED
  BY <1>1, <1>2, <1>3 DEF Table, WellFormed, Capacity

\* What get_fd finds, in use or not.
LEMMA FileFound ==
    ASSUME NEW n \in Nat, NEW v, Table(v, n), NEW fd \in Nat
    PROVE  /\ FileIn(v, fd) \in (0..n) \cup {Junk}
           /\ fd < v.length => FileIn(v, fd) = v.data[fd + 1].file
<1>1. /\ v.data \in Seq(Slots(n) \cup {Junk}) /\ v.length \in Nat
      /\ v.length <= Capacity(v) /\ Capacity(v) \in Nat /\ Capacity(v) = Len(v.data)
  BY DEF Table, WellFormed, VecOf, Capacity
<1>2. \A i \in 1..Capacity(v) : v.data[i] \in Slots(n) \cup {Junk}
  BY <1>1
<1>3. VecAt(v, fd) \in Slots(n) \cup {Junk}
  BY <1>1, <1>2 DEF VecAt
<1>4. FileIn(v, fd) = IF VecAt(v, fd) = Junk THEN Junk ELSE VecAt(v, fd).file
  BY DEF FileIn
<1>5. FileIn(v, fd) \in (0..n) \cup {Junk}
  BY <1>3, <1>4 DEF Slots
<1>6. ASSUME fd < v.length PROVE FileIn(v, fd) = v.data[fd + 1].file
  <2>1. VecAt(v, fd) = v.data[fd + 1] /\ fd + 1 \in 1..v.length
    BY <1>1, <1>6 DEF VecAt
  <2>2. VecAt(v, fd) \in Slots(n)
    BY <2>1 DEF Table
  <2> QED
    BY <1>4, <2>1, <2>2, SlotsApart
<1> QED
  BY <1>5, <1>6

\* vec_push of a descriptor: it comes behind the others, and they stay.
LEMMA TablePush ==
    ASSUME NEW n \in Nat, NEW v, Table(v, n), NEW x \in Slots(n)
    PROVE  /\ Table(vec_push(v, x), n)
           /\ vec_push(v, x).length = v.length + 1
           /\ vec_push(v, x).data[v.length + 1] = x
           /\ \A i \in 1..v.length : vec_push(v, x).data[i] = v.data[i]
<1> DEFINE w == vec_push(v, x)
<1>1. WellFormed(v, Slots(n)) /\ v.length \in Nat
  BY DEF Table, WellFormed, VecOf
<1>2. /\ WellFormed(w, Slots(n)) /\ w.length = v.length + 1
      /\ w.data[v.length + 1] = x
      /\ \A i \in 1..v.length : w.data[i] = v.data[i]
  BY <1>1, PushAppends
<1> HIDE DEF w
<1>3. \A i \in 1..w.length : w.data[i] \in Slots(n)
  BY <1>1, <1>2 DEF Table
<1> QED
  BY <1>2, <1>3 DEF Table, w

\* The hole is closed, and the slot that falls out of use keeps its content.
LEMMA TableSplice ==
    ASSUME NEW n \in Nat, NEW v, Table(v, n), NEW s \in 0..v.length - 1
    PROVE  LET w == vec_splice(v, s, 1)
           IN  /\ Table(w, n)
               /\ w.length = v.length - 1
               /\ \A i \in 1..s : w.data[i] = v.data[i]
               /\ FileIn(w, v.length - 1) = FileIn(v, v.length - 1)
<1> DEFINE w == vec_splice(v, s, 1)
<1>1. WellFormed(v, Slots(n)) /\ v.length \in Nat /\ v.length <= Capacity(v)
      /\ Capacity(v) \in Nat
  BY DEF Table, WellFormed, VecOf, Capacity
<1>2. /\ WellFormed(w, Slots(n)) /\ w.length = v.length - 1
      /\ \A i \in 1..v.length - 1 : w.data[i] = IF i <= s THEN v.data[i] ELSE v.data[i + 1]
      /\ Capacity(w) = Capacity(v)
  BY <1>1, SpliceCloses
<1>3. w.data[v.length] = v.data[v.length]
  BY <1>1 DEF vec_splice
<1> HIDE DEF w
<1>4. \A i \in 1..s : w.data[i] = v.data[i]
  BY <1>1, <1>2
<1>5. \A i \in 1..w.length : w.data[i] \in Slots(n)
  BY <1>1, <1>2 DEF Table
<1>6. VecAt(w, v.length - 1) = VecAt(v, v.length - 1)
  BY <1>1, <1>2, <1>3 DEF VecAt
<1>7. FileIn(w, v.length - 1) = FileIn(v, v.length - 1)
  BY <1>6 DEF FileIn
<1> QED
  BY <1>2, <1>4, <1>5, <1>7 DEF Table, w

-----------------------------------------------------------------------------
(* What the steps do to the tree.                                          *)

\* The tree keeps its links and its buffers, and new nodes are sound.
Keeps(t, u) ==
    /\ IsTree(u) /\ Len(t) <= Len(u)
    /\ WellLinked(t) => WellLinked(u)
    /\ \A i \in 1..Len(t) : SameBuffer(u[i], t[i])
    /\ \A i \in 1..Len(u) \ 1..Len(t) : ~u[i].freed /\ Fits(u[i])

\* What the operations of Vfs make of a tree keeps links and buffers.
LEMMA ExtendsKeeps ==
    ASSUME NEW t, NEW u, Extends(t, u)
    PROVE  Keeps(t, u)
<1>1. {"mountpoint", "freed", "room", "st_size", "junk"}
         \subseteq FieldNames \ {"children", "append"}
  BY DEF FieldNames
<1>2. \A i \in 1..Len(t) : SameBuffer(u[i], t[i])
  BY <1>1 DEF Extends, SameBuffer
<1> QED
  BY <1>2 DEF Keeps, Extends, LinksGrow

\* Two steps that keep links and buffers are one.
LEMMA KeepsOn ==
    ASSUME NEW t, NEW u, NEW v, IsTree(t), Keeps(t, u), Keeps(u, v)
    PROVE  Keeps(t, v)
<1>1. /\ Len(t) \in Nat /\ Len(u) \in Nat /\ Len(v) \in Nat
      /\ Len(t) <= Len(u) /\ Len(u) <= Len(v)
  BY TreeNodes DEF Keeps
<1>2. ASSUME NEW i \in 1..Len(t)
      PROVE  SameBuffer(v[i], t[i])
  <2>1. i \in 1..Len(u)
    BY <1>1
  <2>2. SameBuffer(v[i], u[i]) /\ SameBuffer(u[i], t[i])
    BY <2>1 DEF Keeps
  <2> QED
    BY <2>2 DEF SameBuffer
<1>3. ASSUME NEW i \in 1..Len(v) \ 1..Len(t)
      PROVE  ~v[i].freed /\ Fits(v[i])
  <2>1. CASE i \in 1..Len(u)
    <3>1. ~u[i].freed /\ Fits(u[i]) /\ SameBuffer(v[i], u[i])
      BY <1>3, <2>1 DEF Keeps
    <3> QED
      BY <3>1 DEF SameBuffer, Fits
  <2>2. CASE i \notin 1..Len(u)
    BY <1>3, <2>2 DEF Keeps
  <2> QED
    BY <2>1, <2>2
<1>4. IsTree(v) /\ (WellLinked(t) => WellLinked(v))
  BY DEF Keeps
<1> QED
  BY <1>1, <1>2, <1>3, <1>4 DEF Keeps

\* One node of the tree is written.
WithNode(t, k, n) == [t EXCEPT ![k] = n]

\* A touched node is written back: the rest of the tree and all links stay.
LEMMA NodeWritten ==
    ASSUME NEW t, IsTree(t), NEW k \in 1..Len(t), NEW n, Touched(t[k], n)
    PROVE  LET u == WithNode(t, k, n)
           IN  /\ IsTree(u) /\ Len(u) = Len(t) /\ u[k] = n
               /\ \A i \in 1..Len(t) : i # k => u[i] = t[i]
               /\ WellLinked(t) => WellLinked(u)
<1>1. t[k] \in Nodes(Len(t))
  BY TreeNodes
<1>2. n \in Nodes(Len(t)) /\ SameLinks(n, t[k])
  BY <1>1, TouchedNode
<1> DEFINE w == [t EXCEPT ![k] = n]
<1>3. /\ IsTree(w) /\ Len(w) = Len(t) /\ w[k] = n
      /\ \A i \in 1..Len(t) : i # k => w[i] = t[i]
      /\ \A i \in 1..Len(t) : SameLinks(w[i], t[i])
      /\ WellLinked(t) => WellLinked(w)
  BY <1>2, NodeSet, Zenon
<1>4. w = WithNode(t, k, n)
  BY DEF WithNode
<1> HIDE DEF w
<1> QED
  BY <1>3, <1>4, Zenon

\* If its buffer is the same, all buffers are.
LEMMA NodeKept ==
    ASSUME NEW t, IsTree(t), NEW k \in 1..Len(t), NEW n, Touched(t[k], n), SameBuffer(n, t[k])
    PROVE  Keeps(t, WithNode(t, k, n))
<1> DEFINE u == WithNode(t, k, n)
<1>1. /\ IsTree(u) /\ Len(u) = Len(t) /\ u[k] = n
      /\ \A i \in 1..Len(t) : i # k => u[i] = t[i]
      /\ WellLinked(t) => WellLinked(u)
  BY NodeWritten
<1> HIDE DEF u
<1>2. Len(t) \in Nat
  BY TreeNodes
<1>3. \A i \in 1..Len(t) : SameBuffer(u[i], t[i])
  BY <1>1 DEF SameBuffer
<1>4. Keeps(t, u)
  BY <1>1, <1>2, <1>3 DEF Keeps
<1> QED
  BY <1>4 DEF u

\* A buffer that was freed belongs to a file that was closed; and unless a file
\* was written elsewhere than at its end, its buffer has room for all of it.
Sound(t, shut, wild) ==
    /\ shut \subseteq 1..Len(t)
    /\ \A n \in 1..Len(t) : t[n].freed => n \in shut
    /\ \A n \in 1..Len(t) \ wild : Roomy(t[n])

\* A step that keeps links and buffers keeps Sound.
LEMMA KeepsSound ==
    ASSUME NEW t, NEW u, IsTree(t), Keeps(t, u), NEW shut, NEW wild, Sound(t, shut, wild)
    PROVE  Sound(u, shut, wild)
<1>1. /\ Len(t) \in Nat /\ Len(u) \in Nat /\ Len(t) <= Len(u)
  BY TreeNodes DEF Keeps
<1>2. shut \subseteq 1..Len(u)
  BY <1>1 DEF Sound
<1>3. ASSUME NEW n \in 1..Len(u)
      PROVE  (u[n].freed => n \in shut) /\ (n \notin wild => Roomy(u[n]))
  <2>1. CASE n \in 1..Len(t)
    <3>1. SameBuffer(u[n], t[n])
      BY <2>1 DEF Keeps
    <3>2. (t[n].freed => n \in shut) /\ (n \notin wild => Roomy(t[n]))
      BY <2>1 DEF Sound
    <3> QED
      BY <3>1, <3>2 DEF SameBuffer, Roomy, Fits
  <2>2. CASE n \notin 1..Len(t)
    <3>1. ~u[n].freed /\ Fits(u[n])
      BY <1>3, <2>2 DEF Keeps
    <3> QED
      BY <3>1 DEF Roomy
  <2> QED
    BY <2>1, <2>2
<1> QED
  BY <1>2, <1>3 DEF Sound

\* One node is written and its buffer with it.
LEMMA WrittenSound ==
    ASSUME NEW t, IsTree(t), NEW k \in 1..Len(t), NEW n, Touched(t[k], n),
           NEW shut, NEW wild, NEW shut2, NEW wild2, Sound(t, shut, wild),
           shut \subseteq shut2, shut2 \subseteq 1..Len(t), wild \subseteq wild2,
           n.freed => k \in shut2, k \notin wild2 => Roomy(n)
    PROVE  Sound(WithNode(t, k, n), shut2, wild2)
<1> DEFINE u == WithNode(t, k, n)
<1>1. /\ IsTree(u) /\ Len(u) = Len(t) /\ u[k] = n
      /\ \A i \in 1..Len(t) : i # k => u[i] = t[i]
      /\ WellLinked(t) => WellLinked(u)
  BY NodeWritten
<1> HIDE DEF u
<1>2. Sound(u, shut2, wild2)
  BY <1>1 DEF Sound
<1> QED
  BY <1>2 DEF u

-----------------------------------------------------------------------------
(* Tasks.                                                                  *)

TaskFields == {"state", "descriptors", "current_fd"}

\* A task in a tree of n nodes: the next number is the length of its table.
IsTask(task, n) ==
    /\ task = [x \in TaskFields |-> task[x]]
    /\ task.state \in {"unborn", "alive", "dead"}
    /\ Table(task.descriptors, n)
    /\ task.state # "dead" => task.current_fd = task.descriptors.length
    /\ task.state = "unborn" => task.descriptors.length = 0

WithTable(task, v, c) == [task EXCEPT !.descriptors = v, !.current_fd = c]

\* The table and the next number of a task are assigned together.
LEMMA TableSet ==
    ASSUME NEW n, NEW task, IsTask(task, n), task.state = "alive", NEW v, Table(v, n),
           NEW c, c = v.length
    PROVE  /\ IsTask(WithTable(task, v, c), n)
           /\ WithTable(task, v, c).state = task.state
           /\ WithTable(task, v, c).descriptors = v
<1> DEFINE u == WithTable(task, v, c)
<1>1. u = [x \in TaskFields |-> u[x]]
  BY DEF IsTask, WithTable, TaskFields
<1>2. u.state = task.state /\ u.descriptors = v /\ u.current_fd = c
  BY DEF IsTask, WithTable, TaskFields
<1> HIDE DEF u
<1> QED
  BY <1>1, <1>2 DEF IsTask, u

\* A task stays one when the tree grows.
LEMMA TaskGrows ==
    ASSUME NEW n \in Nat, NEW k \in Nat, n <= k, NEW task, IsTask(task, n)
    PROVE  IsTask(task, k)
  BY TableGrows DEF IsTask

\* A table that only grew: every descriptor that is in use leads where it led.
SameFiles(v, w) ==
    \A fd \in Nat : fd < v.length => fd < w.length /\ FileIn(w, fd) = FileIn(v, fd)

\* A descriptor is added behind the others.
LEMMA DescriptorAdded ==
    ASSUME NEW n \in Nat, NEW task, IsTask(task, n), task.state = "alive",
           NEW file \in (0..n) \cup {Junk}
    PROVE  LET u == AddDescriptor(task, file)
           IN  /\ IsTask(u, n) /\ u.state = task.state
               /\ u.descriptors.length = task.descriptors.length + 1
               /\ SameFiles(task.descriptors, u.descriptors)
               /\ FileIn(u.descriptors, task.descriptors.length) = file
<1> DEFINE v == task.descriptors
           x == [fd |-> task.current_fd, file |-> file]
           w == vec_push(v, x)
           c == task.current_fd + 1
           u == WithTable(task, w, c)
<1>1. Table(v, n) /\ v.length \in Nat /\ task.current_fd = v.length
  BY DEF IsTask, Table, WellFormed, VecOf
<1>2. x \in Slots(n) /\ x.file = file
  BY <1>1 DEF Slots
<1>3. AddDescriptor(task, file) = u
  BY DEF AddDescriptor, WithTable
<1> HIDE DEF v, x
<1>4. /\ Table(w, n) /\ w.length = v.length + 1 /\ w.data[v.length + 1] = x
      /\ \A i \in 1..v.length : w.data[i] = v.data[i]
  BY <1>1, <1>2, TablePush
<1> HIDE DEF w
<1>5. IsTask(u, n) /\ u.state = task.state /\ u.descriptors = w
  BY <1>1, <1>4, TableSet
<1>6. FileIn(w, v.length) = file
  <2>1. v.length < w.length
    BY <1>1, <1>4
  <2> QED
    BY <1>1, <1>2, <1>4, <2>1, FileFound
<1>7. ASSUME NEW fd \in Nat, fd < v.length
      PROVE  fd < w.length /\ FileIn(w, fd) = FileIn(v, fd)
  <2>1. fd < w.length /\ fd + 1 \in 1..v.length
    BY <1>1, <1>4, <1>7
  <2>2. FileIn(w, fd) = w.data[fd + 1].file /\ FileIn(v, fd) = v.data[fd + 1].file
    BY <1>1, <1>4, <1>7, <2>1, FileFound
  <2> QED
    BY <1>4, <2>1, <2>2
<1> HIDE DEF u
<1>8. SameFiles(v, w)
  BY <1>7 DEF SameFiles
<1> QED
  BY <1>3, <1>4, <1>5, <1>6, <1>8 DEF v

\* A slot is cut out; those in front of it stay.
LEMMA SlotClosed ==
    ASSUME NEW n \in Nat, NEW task, IsTask(task, n), task.state = "alive",
           NEW s \in 0..task.descriptors.length - 1
    PROVE  LET cut == vec_splice(task.descriptors, s, 1)
               u == CloseSlot(task, cut)
           IN  /\ IsTask(u, n) /\ u.state = task.state /\ u.descriptors = cut
               /\ Table(cut, n) /\ cut.length = task.descriptors.length - 1
               /\ \A fd \in Nat : fd < s => FileIn(cut, fd) = FileIn(task.descriptors, fd)
               /\ s = task.descriptors.length - 1
                     => FileIn(cut, s) = FileIn(task.descriptors, s)
<1> DEFINE v == task.descriptors
           w == vec_splice(v, s, 1)
           c == task.current_fd - 1
           u == WithTable(task, w, c)
<1>1. Table(v, n) /\ v.length \in Nat /\ task.current_fd = v.length /\ s \in 0..v.length - 1
  BY DEF IsTask, Table, WellFormed, VecOf
<1>2. CloseSlot(task, w) = u
  BY DEF CloseSlot, WithTable
<1> HIDE DEF v
<1>3. /\ Table(w, n) /\ w.length = v.length - 1
      /\ \A i \in 1..s : w.data[i] = v.data[i]
      /\ FileIn(w, v.length - 1) = FileIn(v, v.length - 1)
  BY <1>1, TableSplice
<1> HIDE DEF w
<1>4. IsTask(u, n) /\ u.state = task.state /\ u.descriptors = w
  BY <1>1, <1>3, TableSet
<1>5. ASSUME NEW fd \in Nat, fd < s
      PROVE  FileIn(w, fd) = FileIn(v, fd)
  <2>1. fd < w.length /\ fd < v.length /\ fd + 1 \in 1..s
    BY <1>1, <1>3, <1>5
  <2>2. FileIn(w, fd) = w.data[fd + 1].file /\ FileIn(v, fd) = v.data[fd + 1].file
    BY <1>1, <1>3, <2>1, FileFound
  <2> QED
    BY <1>3, <2>1, <2>2
<1> HIDE DEF u
<1> QED
  BY <1>2, <1>3, <1>4, <1>5 DEF v, w

\* A task that starts.
LEMMA NewTask ==
    ASSUME NEW n \in Nat, NEW state \in {"unborn", "alive", "dead"}
    PROVE  LET u == [NoDescriptors EXCEPT !.state = state]
           IN  IsTask(u, n) /\ u.state = state /\ u.descriptors.length = 0
<1> DEFINE u == [NoDescriptors EXCEPT !.state = state]
<1>1. u = [x \in TaskFields |-> u[x]]
  BY DEF NoDescriptors, TaskFields
<1>2. u.state = state /\ u.descriptors = VecInit /\ u.current_fd = 0
  BY DEF NoDescriptors
<1> HIDE DEF u
<1> QED
  BY <1>1, <1>2, EmptyTable DEF IsTask, u

-----------------------------------------------------------------------------
(* The descriptors that a process holds.                                   *)

\* Each of them is in use and leads to its file, and that was never closed.
Mine(v, held, shut) ==
    \A fd \in DOMAIN held :
        fd \in Nat /\ fd < v.length /\ FileIn(v, fd) = held[fd] /\ held[fd] \notin shut

\* A process that holds no descriptor.
LEMMA MineNone ==
    ASSUME NEW v, NEW shut
    PROVE  Mine(v, <<>>, shut)
  BY DEF Mine

\* A table that only grew.
LEMMA MineGrown ==
    ASSUME NEW v, NEW w, NEW held, NEW shut, Mine(v, held, shut), SameFiles(v, w)
    PROVE  Mine(w, held, shut)
  BY DEF Mine, SameFiles

\* A file is opened that was never closed.
LEMMA MineOpened ==
    ASSUME NEW w, NEW held, NEW shut, Mine(w, held, shut), NEW fd \in Nat, fd < w.length,
           NEW file, FileIn(w, fd) = file, file \notin shut
    PROVE  Mine(w, Holding(held, fd, file), shut)
  BY DEF Mine, Holding

\* The newest descriptor is closed, and its file is not open elsewhere.
LEMMA MineClosed ==
    ASSUME NEW v, NEW w, NEW held, NEW shut, Mine(v, held, shut), NEW s \in Nat,
           v.length = s + 1, w.length = s, NEW file,
           \A fd \in Nat : fd < s => FileIn(w, fd) = FileIn(v, fd),
           \A e \in DOMAIN held \ {s} : held[e] # file
    PROVE  Mine(w, Restrict(held, DOMAIN held \ {s}), shut \cup {file})
<1> DEFINE rest == Restrict(held, DOMAIN held \ {s})
<1>1. /\ DOMAIN rest = DOMAIN held \ {s}
      /\ \A e \in DOMAIN held \ {s} : rest[e] = held[e]
  BY DEF Restrict
<1> HIDE DEF rest
<1>2. ASSUME NEW e \in DOMAIN held \ {s}
      PROVE  e \in Nat /\ e < w.length /\ FileIn(w, e) = held[e] /\ held[e] \notin shut \cup {file}
  <2>1. e \in Nat /\ e < v.length /\ FileIn(v, e) = held[e] /\ held[e] \notin shut
    BY DEF Mine
  <2>2. e < s
    BY <2>1
  <2> QED
    BY <2>1, <2>2
<1> QED
  BY <1>1, <1>2 DEF Mine, rest

\* Another process closes a file that this one does not have open.
LEMMA MineStays ==
    ASSUME NEW v, NEW held, NEW shut, Mine(v, held, shut), NEW file,
           \A e \in DOMAIN held : held[e] # file
    PROVE  Mine(v, held, shut \cup {file})
  BY DEF Mine

-----------------------------------------------------------------------------
(* The inductive invariant.                                                *)

\* The state of the file systems and of every task.
FilesInv ==
    /\ BootInv
    /\ tasks = [p \in TaskIds |-> tasks[p]]
    /\ \A p \in TaskIds : IsTask(tasks[p], Len(tree))
    /\ gentle \in BOOLEAN
    /\ Sound(tree, closed, rewritten)

\* As long as no call was a careless one.
GentleInv ==
    /\ opened = [p \in TaskIds |-> opened[p]]
    /\ gentle =>
          /\ \A p \in TaskIds : Mine(tasks[p].descriptors, opened[p], closed)
          /\ last.op = "close" => last.file = last.meant
          /\ halted \notin {"freed", "splice"}

\* What the invariant says of the tree.
LEMMA Known ==
    ASSUME FilesInv
    PROVE  /\ IsTree(tree) /\ WellLinked(tree) /\ Len(tree) \in Nat
           /\ DOMAIN tree = 1..Len(tree)
           /\ phase = "up" => Len(tree) > 0 /\ Root \in 1..Len(tree)
  BY TreeNodes DEF FilesInv, BootInv, Root, IsTree

\* The invariant holds when kernel_main starts.
LEMMA InitInv == Init => FilesInv /\ GentleInv
<1> SUFFICES ASSUME Init PROVE FilesInv /\ GentleInv
  OBVIOUS
<1>1. BootInv /\ tree = <<>>
  BY BootStarts DEF Init, BootInit
<1>2. Len(tree) = 0
  BY <1>1
<1>3. IsTask(NoDescriptors, 0)
  <2>1. NoDescriptors = [x \in TaskFields |-> NoDescriptors[x]]
    BY DEF NoDescriptors, TaskFields
  <2>2. /\ NoDescriptors.state = "unborn" /\ NoDescriptors.descriptors = VecInit
        /\ NoDescriptors.current_fd = 0
    BY DEF NoDescriptors
  <2> QED
    BY <2>1, <2>2, EmptyTable DEF IsTask
<1>4. /\ tasks = [p \in TaskIds |-> tasks[p]]
      /\ \A p \in TaskIds : IsTask(tasks[p], Len(tree))
  BY <1>2, <1>3 DEF Init
<1>5. Sound(tree, closed, rewritten)
  BY <1>2 DEF Init, Sound
<1>6. FilesInv
  BY <1>1, <1>4, <1>5 DEF Init, FilesInv
<1>7. GentleInv
  <2>1. \A p \in TaskIds : Mine(tasks[p].descriptors, opened[p], closed)
    BY MineNone DEF Init
  <2>2. halted = "no" /\ last.op = "none"
    BY DEF Init, BootInit, NoCall
  <2> QED
    BY <2>1, <2>2 DEF GentleInv, Init
<1> QED
  BY <1>6, <1>7

\* What a step that is not one of the boot does to the tree and to one task.
LEMMA StepKept ==
    ASSUME FilesInv, archive' = archive, address' = address, phase' = phase, phase = "up",
           Keeps(tree, tree') \/ (IsTree(tree') /\ Len(tree') = Len(tree) /\ WellLinked(tree')),
           errno' \in {"none", "ENOENT", "EISDIR"}, halted' \in Halts, gentle' \in BOOLEAN,
           Sound(tree', closed', rewritten'),
           \/ tasks' = tasks
           \/ \E p \in TaskIds : \E task :
                 tasks' = [tasks EXCEPT ![p] = task] /\ IsTask(task, Len(tree'))
    PROVE  FilesInv'
<1>1. IsTree(tree) /\ WellLinked(tree) /\ Len(tree) \in Nat /\ Len(tree) > 0
  BY Known
<1>2. IsTree(tree') /\ WellLinked(tree') /\ Len(tree') \in Nat /\ Len(tree) <= Len(tree')
  <2>1. IsTree(tree') /\ WellLinked(tree') /\ Len(tree) <= Len(tree')
    BY <1>1 DEF Keeps
  <2> QED
    BY <2>1, TreeNodes
<1>3. BootInv'
  BY <1>1, <1>2 DEF FilesInv, BootInv, Halts
<1>4. \A p \in TaskIds : IsTask(tasks[p], Len(tree'))
  BY <1>1, <1>2, TaskGrows DEF FilesInv
<1>5. /\ tasks' = [p \in TaskIds |-> tasks'[p]]
      /\ \A p \in TaskIds : IsTask(tasks'[p], Len(tree'))
  <2>1. CASE tasks' = tasks
    BY <1>4, <2>1 DEF FilesInv
  <2>2. ASSUME NEW p \in TaskIds, NEW task, tasks' = [tasks EXCEPT ![p] = task],
               IsTask(task, Len(tree'))
        PROVE  /\ tasks' = [q \in TaskIds |-> tasks'[q]]
               /\ \A q \in TaskIds : IsTask(tasks'[q], Len(tree'))
    <3>1. /\ DOMAIN tasks = TaskIds
      BY DEF FilesInv
    <3>2. tasks' = [q \in TaskIds |-> IF q = p THEN task ELSE tasks[q]]
      BY <2>2, <3>1
    <3> QED
      BY <1>4, <2>2, <3>2
  <2> QED
    BY <2>1, <2>2
<1> QED
  BY <1>3, <1>5 DEF FilesInv

-----------------------------------------------------------------------------
(* The steps.                                                              *)

\* The paths that are opened are sequences of segments.
LEMMA PathsTyped ==
    /\ \A path \in Paths \cup {Program} \cup Interpreters : IsPath(path)
    /\ IsPath(<<"", "dev", "tty">>)
<1>1. \A S, R : S \subseteq R => \A s : s \in Seq(S) => s \in Seq(R)
  OBVIOUS
<1>2. STRING \subseteq Text
  BY DEF Text
<1>3. \A path \in Paths \cup {Program} \cup Interpreters :
         path \in Seq(STRING) /\ path # <<>>
  BY FilesAssumption
<1>4. \A path \in Paths \cup {Program} \cup Interpreters : path \in Seq(Text)
  BY <1>1, <1>2, <1>3, Zenon
<1> QED
  BY <1>3, <1>4, DevicePaths DEF IsPath

\* What openat makes of the tree, and what it yields.
OpenResult(t, parent, path, flags, dirty) ==
    IF parent \in Stops THEN Result(t, parent, "none")
    ELSE IF parent = NULL THEN Result(t, NULL, "ENOENT")
    ELSE vfs_open(t, parent, path, flags, dirty)

\* Whatever vfs_get_parent finds, openat leaves a tree that has grown.
LEMMA OpenResultYields ==
    ASSUME NEW t, IsTree(t), Len(t) > 0, NEW parent, NEW path, IsPath(path), NEW flags,
           NEW dirty \in BOOLEAN
    PROVE  Yields(t, OpenResult(t, parent, path, flags, dirty))
<1> DEFINE r == OpenResult(t, parent, path, flags, dirty)
<1>1. Extends(t, t) /\ Len(t) \in Nat
  BY ExtendsSame, TreeNodes
<1>2. CASE parent \in Stops
  <2>1. r = Result(t, parent, "none") /\ parent \in (0..Len(t)) \cup {Junk, Fault, Wild}
    BY <1>2 DEF OpenResult, Stops
  <2> QED
    BY <1>1, <2>1, ResultYields
<1>3. CASE parent \notin Stops /\ parent = NULL
  <2>1. r = Result(t, NULL, "ENOENT") /\ NULL \in (0..Len(t)) \cup {Junk, Fault, Wild}
    BY <1>1, <1>3 DEF OpenResult, NULL
  <2> QED
    BY <1>1, <2>1, ResultYields
<1>4. CASE parent \notin Stops /\ parent # NULL
  <2>1. r = vfs_open(t, parent, path, flags, dirty)
    BY <1>4, Zenon DEF OpenResult
  <2> QED
    BY <2>1, OpenYields
<1> QED
  BY <1>2, <1>3, <1>4

\* openat.  The descriptor is numbered by the slot that it gets.
LEMMA OpenSteps ==
    ASSUME FilesInv, NEW p \in TaskIds, NEW dirfd, NEW path \in Paths, NEW flags,
           sys_openat(p, dirfd, path, flags)
    PROVE  FilesInv' /\ (GentleInv => GentleInv')
<1>1. PICK dirty \in BOOLEAN :
         \E parent \in {vfs_get_parent(tree, StartOf(p, dirfd), path)} :
         \E r \in {OpenResult(tree, parent, path, flags, dirty)} :
          LET fd == tasks[p].current_fd
              pushed == parent # NULL /\ r.file \notin Stops
          IN  /\ Len(r.tree) <= MaxNodes
              /\ tree' = r.tree
              /\ halted' = StopOf(r.file)
              /\ tasks' = IF pushed THEN [tasks EXCEPT ![p] = AddDescriptor(@, r.file)] ELSE tasks
              /\ syscall_dispatch(Call("openat"), r.error, fd)
              /\ opened' = IF pushed /\ ~last'.failed
                           THEN [opened EXCEPT ![p] = Holding(@, fd, r.file)] ELSE opened
              /\ gentle' = (gentle /\ r.file \notin closed
                               /\ (dirfd = AT_FDCWD \/ ~Careless(p, dirfd)))
  BY DEF sys_openat, OpenResult, Malloced, CarelessOpen
<1>2. PICK parent, r :
          /\ r = OpenResult(tree, parent, path, flags, dirty)
          /\ tree' = r.tree
          /\ halted' = StopOf(r.file)
          /\ \/ tasks' = tasks /\ opened' = opened
             \/ /\ r.file \notin Stops
                /\ tasks' = [tasks EXCEPT ![p] = AddDescriptor(@, r.file)]
                /\ \/ opened' = opened
                   \/ opened' = [opened EXCEPT ![p] = Holding(@, tasks[p].current_fd, r.file)]
          /\ syscall_dispatch(Call("openat"), r.error, tasks[p].current_fd)
          /\ gentle' = (gentle /\ r.file \notin closed
                               /\ (dirfd = AT_FDCWD \/ ~Careless(p, dirfd)))
  BY <1>1
<1>3. /\ archive' = archive /\ address' = address /\ phase' = phase /\ phase = "up"
      /\ closed' = closed /\ rewritten' = rewritten
  BY DEF sys_openat, CanCall
<1>4. IsTree(tree) /\ Len(tree) > 0 /\ Len(tree) \in Nat
  BY <1>3, Known
<1>5. Yields(tree, r)
  BY <1>2, <1>4, PathsTyped, OpenResultYields
<1>6. Extends(tree, tree') /\ Keeps(tree, tree') /\ Len(tree') \in Nat /\ Len(tree) <= Len(tree')
  <2>1. Extends(tree, tree')
    BY <1>2, <1>5 DEF Yields
  <2>2. Keeps(tree, tree')
    BY <2>1, ExtendsKeeps
  <2> QED
    BY <2>1, <2>2, TreeNodes DEF Keeps
<1>7. Sound(tree', closed', rewritten')
  BY <1>3, <1>4, <1>6, KeepsSound DEF FilesInv
<1>8. errno' = "none" /\ halted' \in {"no", "fault", "junk"} /\ last'.op # "close"
  <2>1. last' = [Call("openat") EXCEPT !.error = r.error # "none",
                            !.failed = errno # "none" \/ r.error # "none" \/ tasks[p].current_fd = -1]
    BY <1>2 DEF syscall_dispatch
  <2>2. last'.op = "openat"
    BY <2>1 DEF Call, NoCall
  <2> QED
    BY <1>2, <2>2 DEF syscall_dispatch, StopOf
<1>9. gentle' \in BOOLEAN /\ (gentle' => gentle /\ r.file \notin closed)
  BY <1>2 DEF FilesInv
<1>10. /\ IsTask(tasks[p], Len(tree')) /\ DOMAIN tasks = TaskIds
       /\ tasks[p].state = "alive"
  BY <1>4, <1>6, TaskGrows DEF FilesInv, sys_openat, CanCall
<1>11. CASE tasks' = tasks /\ opened' = opened
  <2>1. FilesInv'
    BY <1>3, <1>6, <1>7, <1>8, <1>9, <1>11, StepKept DEF Halts
  <2>2. GentleInv => GentleInv'
    BY <1>3, <1>8, <1>9, <1>11 DEF GentleInv
  <2> QED
    BY <2>1, <2>2
<1>12. ASSUME r.file \notin Stops,
              tasks' = [tasks EXCEPT ![p] = AddDescriptor(@, r.file)],
              \/ opened' = opened
              \/ opened' = [opened EXCEPT ![p] = Holding(@, tasks[p].current_fd, r.file)]
       PROVE  FilesInv' /\ (GentleInv => GentleInv')
  <2> DEFINE u == AddDescriptor(tasks[p], r.file)
             v == tasks[p].descriptors
             held == opened[p]
             more == Holding(held, v.length, r.file)
  <2>1. r.file \in (0..Len(tree')) \cup {Junk}
    BY <1>2, <1>5, <1>12 DEF Yields, Stops
  <2>2. /\ IsTask(u, Len(tree')) /\ u.descriptors.length = v.length + 1
        /\ SameFiles(v, u.descriptors) /\ FileIn(u.descriptors, v.length) = r.file
    BY <1>6, <1>10, <2>1, DescriptorAdded
  <2>3. tasks' = [tasks EXCEPT ![p] = u] /\ tasks[p].current_fd = v.length
    BY <1>10, <1>12 DEF IsTask
  <2>4. v.length \in Nat
    BY <1>10 DEF IsTask, Table, WellFormed, VecOf
  <2> HIDE DEF u, v
  <2>5. FilesInv'
    BY <1>3, <1>6, <1>7, <1>8, <1>9, <2>2, <2>3, StepKept DEF Halts
  <2>6. ASSUME GentleInv PROVE GentleInv'
    <3>1. DOMAIN opened = TaskIds /\ opened = [q \in TaskIds |-> opened[q]]
      BY <2>6 DEF GentleInv
    <3>2. /\ opened' = [q \in TaskIds |-> opened'[q]]
          /\ \A q \in TaskIds : q # p => opened'[q] = opened[q]
          /\ opened'[p] = held \/ opened'[p] = more
      BY <1>12, <2>3, <3>1
    <3>3. tasks'[p] = u /\ \A q \in TaskIds : q # p => tasks'[q] = tasks[q]
      BY <1>10, <2>3
    <3>4. ASSUME gentle'
          PROVE  \A q \in TaskIds : Mine(tasks'[q].descriptors, opened'[q], closed')
      <4>1. \A q \in TaskIds : Mine(tasks[q].descriptors, opened[q], closed)
        BY <1>9, <2>6, <3>4 DEF GentleInv
      <4>2. Mine(u.descriptors, held, closed)
        BY <2>2, <4>1, MineGrown DEF v
      <4>3. Mine(u.descriptors, more, closed)
        <5>1. v.length < u.descriptors.length /\ r.file \notin closed
          BY <1>9, <2>2, <2>4, <3>4
        <5> QED
          BY <2>2, <2>4, <4>2, <5>1, MineOpened
      <4> QED
        BY <1>3, <3>2, <3>3, <4>1, <4>2, <4>3
    <3> QED
      BY <1>8, <3>2, <3>4 DEF GentleInv
  <2> QED
    BY <2>5, <2>6
<1> QED
  BY <1>2, <1>11, <1>12

\* What get_fd yields.
LEMMA GetFd ==
    ASSUME FilesInv, NEW p \in TaskIds, NEW fd \in Nat
    PROVE  /\ get_fd(p, fd) \in (0..Len(tree)) \cup {Junk}
           /\ DerefStops(get_fd(p, fd)) \in {"no", "fault", "junk"}
           /\ DerefStops(get_fd(p, fd)) = "no" => get_fd(p, fd) \in 1..Len(tree)
<1>1. Table(tasks[p].descriptors, Len(tree)) /\ Len(tree) \in Nat
  BY Known DEF FilesInv, IsTask
<1>2. get_fd(p, fd) \in (0..Len(tree)) \cup {Junk}
  BY <1>1, FileFound DEF get_fd
<1> QED
  BY <1>1, <1>2 DEF DerefStops, NULL

\* A descriptor that the process holds is not one of a file that was closed.
LEMMA HeldOpen ==
    ASSUME FilesInv, GentleInv, gentle, NEW p \in TaskIds, NEW fd, ~Careless(p, fd)
    PROVE  /\ fd \in Nat /\ fd < tasks[p].descriptors.length
           /\ get_fd(p, fd) = opened[p][fd] /\ get_fd(p, fd) \notin closed
           /\ get_fd(p, fd) \in 1..Len(tree) => ~tree[get_fd(p, fd)].freed
<1>1. Mine(tasks[p].descriptors, opened[p], closed) /\ fd \in DOMAIN opened[p]
  BY DEF GentleInv, Careless
<1>2. /\ fd \in Nat /\ fd < tasks[p].descriptors.length
      /\ get_fd(p, fd) = opened[p][fd] /\ get_fd(p, fd) \notin closed
  BY <1>1 DEF Mine, get_fd
<1> QED
  BY <1>2 DEF FilesInv, Sound

\* The outcome r of a call on the node f, after which wild holds the files that
\* were written elsewhere than at their end.
CallOutcome(file, f, r, wild) ==
    /\ Touched(f, r.node) /\ r.node.freed = f.freed
    /\ r.halt \in Halts \ {"splice"}
    /\ r.halt = "freed" => f.freed
    /\ file \notin wild /\ Roomy(f) => Roomy(r.node)

\* A call on the file of a descriptor.
LEMMA FileCallSteps ==
    ASSUME FilesInv, NEW p \in TaskIds, NEW fd \in Nat, NEW op, op # "close",
           NEW derefs \in BOOLEAN, NEW r, NEW error,
           FileCall(p, fd, op, derefs, r, error),
           rewritten \subseteq rewritten',
           ~derefs => r.halt = "no",
           DerefStops(get_fd(p, fd)) = "no" =>
              CallOutcome(get_fd(p, fd), tree[get_fd(p, fd)], r, rewritten')
    PROVE  FilesInv' /\ (GentleInv => GentleInv')
<1> DEFINE file == get_fd(p, fd)
           stops == IF derefs THEN DerefStops(file) ELSE "no"
           call == Call(op)
<1>1. /\ phase = "up"
      /\ halted' = IF stops # "no" THEN stops ELSE r.halt
      /\ tree' = IF derefs /\ stops = "no" THEN [tree EXCEPT ![file] = r.node] ELSE tree
      /\ syscall_dispatch(call, error, r.ret)
      /\ gentle' = (gentle /\ ~Careless(p, fd))
      /\ archive' = archive /\ address' = address /\ phase' = phase /\ tasks' = tasks
      /\ opened' = opened /\ closed' = closed
  BY DEF FileCall, CanCall
<1>2. errno' = "none" /\ last'.op # "close"
  <2>1. last' = [call EXCEPT !.error = error # "none",
                             !.failed = errno # "none" \/ error # "none" \/ r.ret = -1]
    BY <1>1 DEF syscall_dispatch
  <2>2. last'.op = op
    BY <2>1 DEF Call, NoCall
  <2> QED
    BY <1>1, <2>2 DEF syscall_dispatch
<1>3. /\ IsTree(tree) /\ WellLinked(tree) /\ Len(tree) \in Nat
      /\ DerefStops(file) \in {"no", "fault", "junk"}
      /\ DerefStops(file) = "no" => file \in 1..Len(tree)
  BY Known, GetFd
<1>4. gentle' \in BOOLEAN /\ (gentle' => gentle /\ ~Careless(p, fd))
  BY <1>1 DEF FilesInv
<1> HIDE DEF call
<1>5. CASE derefs /\ DerefStops(file) = "no"
  <2>1. halted' = r.halt /\ tree' = [tree EXCEPT ![file] = r.node]
    BY <1>1, <1>5
  <2>2. file \in 1..Len(tree) /\ CallOutcome(file, tree[file], r, rewritten')
    BY <1>3, <1>5
  <2> HIDE DEF file
  <2>3. tree' = WithNode(tree, file, r.node)
    BY <2>1 DEF WithNode
  <2>4. Touched(tree[file], r.node)
    BY <2>2 DEF CallOutcome
  <2>5. IsTree(tree') /\ Len(tree') = Len(tree) /\ WellLinked(tree')
    BY <1>3, <2>2, <2>3, <2>4, NodeWritten
  <2>6. Sound(tree', closed', rewritten')
    <3>1. /\ r.node.freed => file \in closed
          /\ file \notin rewritten' => Roomy(r.node)
          /\ closed \subseteq 1..Len(tree) /\ Sound(tree, closed, rewritten)
      BY <2>2 DEF CallOutcome, FilesInv, Sound
    <3> QED
      BY <1>1, <1>3, <2>2, <2>3, <2>4, <3>1, WrittenSound
  <2>7. FilesInv'
    BY <1>1, <1>2, <1>4, <2>1, <2>2, <2>5, <2>6, StepKept DEF CallOutcome
  <2>8. ASSUME GentleInv, gentle' PROVE halted' \notin {"freed", "splice"}
    <3>1. ~tree[file].freed
      BY <1>4, <2>2, <2>8, HeldOpen DEF file
    <3> QED
      BY <2>1, <2>2, <3>1 DEF CallOutcome
  <2> QED
    BY <1>1, <1>2, <1>4, <2>7, <2>8 DEF GentleInv
<1>6. CASE ~(derefs /\ DerefStops(file) = "no")
  <2>1. halted' \in {"no", "fault", "junk"} /\ tree' = tree
    BY <1>1, <1>3, <1>6
  <2>2. Sound(tree', closed', rewritten')
    BY <1>1, <2>1 DEF FilesInv, Sound
  <2>3. FilesInv'
    BY <1>1, <1>2, <1>3, <1>4, <2>1, <2>2, StepKept DEF Halts
  <2> QED
    BY <1>1, <1>2, <1>4, <2>1, <2>3 DEF GentleInv
<1> QED
  BY <1>5, <1>6

\* What is known of a touched node is known without its history.
LEMMA TouchedSelf ==
    ASSUME NEW f, NEW u, Touched(f, u)
    PROVE  Touched(u, u)
  BY DEF Touched

\* read.  Both cursors move, the buffer stays.
LEMMA ReadSteps ==
    ASSUME FilesInv, NEW p \in TaskIds, NEW fd \in Nat, NEW count \in Nat, NEW buffer, NEW line,
           sys_read(p, fd, count, buffer, line)
    PROVE  FilesInv' /\ (GentleInv => GentleInv')
<1> DEFINE n == NodeOf(p, fd)
           r == vfs_read(n, count, buffer, line)
           f == WithCursor(r.node, r.node.cursor + Advance(r.node, "cursor", count))
           w == [r EXCEPT !.node = f]
<1>1. FileCall(p, fd, "read", TRUE, w, "none") /\ rewritten' = rewritten
  BY DEF sys_read, WithCursor
<1> HIDE DEF w
<1>2. ASSUME DerefStops(get_fd(p, fd)) = "no"
      PROVE  CallOutcome(get_fd(p, fd), tree[get_fd(p, fd)], w, rewritten')
  <2>1. n = tree[get_fd(p, fd)] /\ n \in Nodes(Len(tree))
    BY <1>2, GetFd, Known, TreeNodes DEF NodeOf
  <2> HIDE DEF n
  <2>2. IsOutcome(n, r) /\ SameBuffer(r.node, n)
    BY <2>1, ReadOutcome
  <2> HIDE DEF r
  <2>3. /\ r = [node |-> r.node, halt |-> r.halt, ret |-> r.ret]
        /\ Touched(n, r.node) /\ Touched(r.node, r.node)
        /\ r.halt \in Halts \ {"splice"} /\ (r.halt = "freed" => n.freed)
    BY <2>2, TouchedSelf DEF IsOutcome
  <2>4. r.node.cursor + Advance(r.node, "cursor", count) \in Int
    BY <2>3 DEF Touched, Advance
  <2>5. Touched(r.node, f) /\ SameBuffer(f, r.node)
    BY <2>3, <2>4, CursorSet
  <2> HIDE DEF f
  <2>6. w.node = f /\ w.halt = r.halt
    BY <2>3 DEF w
  <2>7. Touched(n, f)
    BY <2>3, <2>5, TouchedOn
  <2>8. SameBuffer(f, n)
    BY <2>2, <2>5 DEF SameBuffer
  <2>9. f.freed = n.freed /\ (Roomy(n) => Roomy(f))
    BY <2>8 DEF SameBuffer, Roomy, Fits
  <2> QED
    BY <2>1, <2>3, <2>6, <2>7, <2>9 DEF CallOutcome
<1> QED
  BY <1>1, <1>2, FileCallSteps

\* write.  A write elsewhere than at the end is remembered in rewritten.
LEMMA WriteSteps ==
    ASSUME FilesInv, NEW p \in TaskIds, NEW fd \in Nat, NEW count \in Nat,
           sys_write(p, fd, count)
    PROVE  FilesInv' /\ (GentleInv => GentleInv')
<1> DEFINE n == NodeOf(p, fd)
           r == vfs_write(n, count)
<1>1. /\ FileCall(p, fd, "write", TRUE, r, "none")
      /\ rewritten' = IF n.mountpoint = "tmpfs" /\ ~n.append /\ n.cursor # n.st_size
                      THEN rewritten \cup {get_fd(p, fd)} ELSE rewritten
  BY DEF sys_write
<1>2. ASSUME DerefStops(get_fd(p, fd)) = "no"
      PROVE  CallOutcome(get_fd(p, fd), tree[get_fd(p, fd)], r, rewritten')
  <2>1. n = tree[get_fd(p, fd)] /\ n \in Nodes(Len(tree))
    BY <1>2, GetFd, Known, TreeNodes DEF NodeOf
  <2>2. get_fd(p, fd) \notin rewritten' => WrittenAtEnd(n)
    <3> HIDE DEF n
    <3> QED
      BY <1>1 DEF WrittenAtEnd
  <2> HIDE DEF n
  <2>3. IsOutcome(n, r) /\ (Roomy(n) /\ WrittenAtEnd(n) => Roomy(r.node))
    BY <2>1, WriteOutcome
  <2> QED
    BY <2>1, <2>2, <2>3 DEF CallOutcome, IsOutcome
<1>3. rewritten \subseteq rewritten'
  <2> HIDE DEF n
  <2> QED
    BY <1>1
<1> HIDE DEF r
<1> QED
  BY <1>1, <1>2, <1>3, FileCallSteps

\* seek.  Only the cursor is assigned.
LEMMA SeekSteps ==
    ASSUME FilesInv, NEW p \in TaskIds, NEW fd \in Nat, NEW whence, NEW offset \in Int,
           sys_seek(p, fd, whence, offset)
    PROVE  FilesInv' /\ (GentleInv => GentleInv')
<1> DEFINE f == NodeOf(p, fd)
           base == IF whence = "SEEK_SET" THEN offset
                   ELSE IF whence = "SEEK_CUR" THEN f.cursor + offset
                   ELSE IF whence = "SEEK_END" THEN f.st_size + offset
                   ELSE -1
           fromJunk == \/ whence = "SEEK_CUR" /\ IsJunk(f, {"cursor"})
                       \/ whence = "SEEK_END" /\ IsJunk(f, {"st_size"})
           known == whence \in {"SEEK_SET", "SEEK_CUR", "SEEK_END"}
           unset == WithJunk(f, f.junk \cup {"cursor"})
           put == WithJunk(f, f.junk \ {"cursor"})
           set == WithCursor(put, base)
           u == IF fromJunk THEN unset ELSE set
           r == Done(u, base)
           error == IF known THEN "none" ELSE "EINVAL"
<1>1. FileCall(p, fd, "seek", known, r, error) /\ rewritten' = rewritten
  BY DEF sys_seek, WithJunk, WithCursor, Put
<1>2. r.halt = "no" /\ r.node = u
  BY DEF Done
<1> HIDE DEF r
<1>3. ASSUME DerefStops(get_fd(p, fd)) = "no"
      PROVE  CallOutcome(get_fd(p, fd), tree[get_fd(p, fd)], r, rewritten')
  <2>1. f = tree[get_fd(p, fd)] /\ f \in Nodes(Len(tree))
    BY <1>3, GetFd, Known, TreeNodes DEF NodeOf
  <2> HIDE DEF f
  <2>2. Touched(f, f)
    BY <2>1, TouchedSame
  <2>3. base \in Int
    BY <2>2 DEF Touched
  <2> HIDE DEF base
  <2>4. /\ f.junk \cup {"cursor"} \in SUBSET Fields /\ f.junk \ {"cursor"} \in SUBSET Fields
        /\ "st_size" \in f.junk \cup {"cursor"} <=> "st_size" \in f.junk
        /\ "st_size" \in f.junk \ {"cursor"} <=> "st_size" \in f.junk
    BY <2>2 DEF Touched, Fields
  <2>5. Touched(f, unset) /\ SameBuffer(unset, f)
    BY <2>2, <2>4, JunkSet
  <2>6. Touched(f, put) /\ SameBuffer(put, f) /\ Touched(put, put)
    BY <2>2, <2>4, JunkSet
  <2> HIDE DEF put, unset
  <2>7. Touched(put, set) /\ SameBuffer(set, put)
    BY <2>3, <2>6, CursorSet
  <2> HIDE DEF set
  <2>8. Touched(f, set) /\ SameBuffer(set, f)
    <3>1. Touched(f, set)
      BY <2>6, <2>7, TouchedOn
    <3> QED
      BY <2>6, <2>7, <3>1 DEF SameBuffer
  <2> HIDE DEF fromJunk
  <2>9. Touched(f, u) /\ SameBuffer(u, f)
    BY <2>5, <2>8
  <2> HIDE DEF u
  <2>10. u.freed = f.freed /\ (Roomy(f) => Roomy(u))
    BY <2>9 DEF SameBuffer, Roomy, Fits
  <2> QED
    BY <1>2, <2>1, <2>9, <2>10 DEF CallOutcome, Halts
<1>4. known \in BOOLEAN
  OBVIOUS
<1> HIDE DEF known, error
<1> QED
  BY <1>1, <1>2, <1>3, <1>4, FileCallSteps

\* What sys_close writes to a node.
ClosedNode(f) ==
    [Put(f, {"init", "cursor"}) EXCEPT !.init = FALSE, !.cursor = 0, !.freed = f.room > 0]

\* Closing a file leaves its links and its size.
LEMMA ClosedNodeTouched ==
    ASSUME NEW m, NEW f \in Nodes(m)
    PROVE  Touched(f, ClosedNode(f)) /\ (Roomy(f) => Roomy(ClosedNode(f)))
<1> DEFINE j == f.junk \ {"init", "cursor"}
           a == WithJunk(f, j)
           b == WithInit(a, FALSE)
           c == WithCursor(b, 0)
           g == f.room > 0
           d == WithFreed(c, g)
<1>1. ClosedNode(f) = d
  BY DEF ClosedNode, Put, WithJunk, WithInit, WithCursor, WithFreed
<1>2. Touched(f, f)
  BY TouchedSame
<1>3. j \in SUBSET Fields /\ ("st_size" \in j <=> "st_size" \in f.junk) /\ g \in BOOLEAN
  BY <1>2 DEF Touched
<1> HIDE DEF j, g
<1>4. Touched(f, a) /\ SameBuffer(a, f) /\ Touched(a, a)
  BY <1>2, <1>3, JunkSet
<1> HIDE DEF a
<1>5. Touched(a, b) /\ SameBuffer(b, a) /\ Touched(b, b)
  BY <1>4, InitSet
<1> HIDE DEF b
<1>6. Touched(b, c) /\ SameBuffer(c, b) /\ Touched(c, c)
  BY <1>5, CursorSet
<1> HIDE DEF c
<1>7. /\ Touched(c, d) /\ d.room = c.room /\ d.st_size = c.st_size /\ d.junk = c.junk
  BY <1>3, <1>6, FreedSet
<1> HIDE DEF d
<1>8. Touched(f, d)
  <2>1. Touched(f, b)
    BY <1>4, <1>5, TouchedOn
  <2>2. Touched(f, c)
    BY <1>6, <2>1, TouchedOn
  <2> QED
    BY <1>7, <2>2, TouchedOn
<1>9. SameBuffer(c, f)
  BY <1>4, <1>5, <1>6 DEF SameBuffer
<1>10. d.mountpoint = f.mountpoint
  BY <1>8 DEF Touched, FieldNames
<1>11. Roomy(f) => Roomy(d)
  BY <1>7, <1>9, <1>10 DEF SameBuffer, Roomy, Fits
<1> QED
  BY <1>1, <1>8, <1>11

\* close.  The file is looked up in the table after its slot was cut out: if it
\* was the last one, its content is still there.
LEMMA CloseSteps ==
    ASSUME FilesInv, NEW p \in TaskIds, NEW fd \in Nat, sys_close(p, fd)
    PROVE  FilesInv' /\ (GentleInv => GentleInv')
<1> DEFINE v == tasks[p].descriptors
           cut == vec_splice(v, fd, 1)
           file == FileIn(cut, fd)
           f == tree[file]
           stops == IF IsInvalid(p, fd) THEN "splice"
                    ELSE IF DerefStops(file) # "no" THEN DerefStops(file)
                    ELSE IF IsJunk(f, {"address"}) THEN "junk"
                    ELSE IF f.freed THEN "freed"
                    ELSE "no"
           u == CloseSlot(tasks[p], cut)
           call == [Call("close") EXCEPT !.file = file, !.meant = get_fd(p, fd)]
           rest == Restrict(opened[p], DOMAIN opened[p] \ {fd})
<1>1. /\ phase = "up" /\ tasks[p].state = "alive" /\ halted' = stops
      /\ gentle' = (gentle /\ ~CarelessClose(p, fd))
      /\ archive' = archive /\ address' = address /\ phase' = phase /\ rewritten' = rewritten
      /\ stops # "no" => /\ tree' = tree /\ tasks' = tasks /\ opened' = opened
                         /\ closed' = closed /\ last' = last /\ errno' = errno
      /\ stops = "no" => /\ tree' = [tree EXCEPT ![file] = ClosedNode(f)]
                         /\ tasks' = [tasks EXCEPT ![p] = CloseSlot(@, cut)]
                         /\ syscall_dispatch(call, "none", 0)
                         /\ opened' = [opened EXCEPT ![p] = Restrict(@, DOMAIN @ \ {fd})]
                         /\ closed' = closed \cup {file}
  BY DEF sys_close, CanCall, ClosedFile, ClosedNode
<1>2. /\ IsTree(tree) /\ WellLinked(tree) /\ Len(tree) \in Nat
      /\ IsTask(tasks[p], Len(tree)) /\ DOMAIN tasks = TaskIds
      /\ v.length \in Nat /\ Sound(tree, closed, rewritten)
  BY Known DEF FilesInv, IsTask, Table, WellFormed, VecOf
<1>3. ~IsInvalid(p, fd) => fd \in 0..v.length - 1
  BY <1>2 DEF IsInvalid
<1>4. ASSUME fd \in 0..v.length - 1
      PROVE  /\ IsTask(u, Len(tree)) /\ u.descriptors = cut
             /\ Table(cut, Len(tree)) /\ cut.length = v.length - 1
             /\ \A e \in Nat : e < fd => FileIn(cut, e) = FileIn(v, e)
             /\ fd = v.length - 1 => file = FileIn(v, fd)
  BY <1>1, <1>2, <1>4, SlotClosed
<1> HIDE DEF cut
<1>5. ~IsInvalid(p, fd) => file \in (0..Len(tree)) \cup {Junk}
  BY <1>2, <1>3, <1>4, FileFound
<1>6. /\ stops \in Halts
      /\ stops = "no" => /\ ~IsInvalid(p, fd) /\ file \in 1..Len(tree)
      /\ stops = "splice" => IsInvalid(p, fd)
      /\ stops = "freed" => ~IsInvalid(p, fd) /\ file \in 1..Len(tree) /\ f.freed
  <2> HIDE DEF file, f
  <2> QED
    BY <1>2, <1>5 DEF Halts, DerefStops, NULL
<1>7. gentle' \in BOOLEAN /\ (gentle' => gentle /\ ~CarelessClose(p, fd))
  BY <1>1 DEF FilesInv
<1>8. ASSUME GentleInv, gentle'
      PROVE  /\ ~IsInvalid(p, fd) /\ fd = v.length - 1 /\ file = get_fd(p, fd)
             /\ file \notin closed /\ ~OpenElsewhere(p, fd, file)
  <2>1. gentle /\ ~CarelessClose(p, fd)
    BY <1>7, <1>8
  <2>2. fd < v.length /\ get_fd(p, fd) = opened[p][fd]
    BY <1>8, <2>1, HeldOpen DEF CarelessClose
  <2>3. fd = v.length - 1 /\ opened[p][fd] \notin closed /\ ~OpenElsewhere(p, fd, opened[p][fd])
    BY <2>1 DEF CarelessClose
  <2>4. file = get_fd(p, fd)
    BY <1>2, <1>4, <2>2, <2>3 DEF get_fd
  <2> QED
    BY <1>2, <2>2, <2>3, <2>4 DEF IsInvalid
<1> HIDE DEF stops, call
<1>9. CASE stops # "no"
  <2>1. FilesInv'
    <3>1. errno \in {"none", "ENOENT", "EISDIR"}
      BY DEF FilesInv, BootInv
    <3> QED
      BY <1>1, <1>2, <1>6, <1>7, <1>9, <3>1, StepKept
  <2>2. ASSUME GentleInv, gentle' PROVE halted' \notin {"freed", "splice"}
    BY <1>1, <1>2, <1>6, <1>8, <2>2 DEF Sound
  <2> QED
    BY <1>1, <1>7, <1>9, <2>1, <2>2 DEF GentleInv
<1>10. CASE stops = "no"
  <2>1. /\ ~IsInvalid(p, fd) /\ fd \in 0..v.length - 1 /\ file \in 1..Len(tree)
    BY <1>3, <1>6, <1>10
  <2>2. /\ IsTask(u, Len(tree)) /\ u.descriptors = cut /\ cut.length = v.length - 1
        /\ \A e \in Nat : e < fd => FileIn(cut, e) = FileIn(v, e)
    BY <1>4, <2>1
  <2>3. f \in Nodes(Len(tree))
    BY <1>2, <2>1, TreeNodes
  <2> DEFINE n == ClosedNode(f)
  <2>4. Touched(f, n) /\ (Roomy(f) => Roomy(n))
    BY <2>3, ClosedNodeTouched
  <2>5. tree' = WithNode(tree, file, n)
    BY <1>1, <1>10 DEF WithNode
  <2> HIDE DEF n, file
  <2>6. IsTree(tree') /\ Len(tree') = Len(tree) /\ WellLinked(tree')
    BY <1>2, <2>1, <2>4, <2>5, NodeWritten
  <2>7. Sound(tree', closed', rewritten')
    <3>1. /\ file \notin rewritten => Roomy(n)
          /\ closed \subseteq 1..Len(tree)
      BY <1>2, <2>1, <2>4 DEF Sound
    <3>2. closed' = closed \cup {file} /\ closed' \subseteq 1..Len(tree)
      BY <1>1, <1>10, <2>1, <3>1
    <3> QED
      BY <1>1, <1>2, <2>1, <2>4, <2>5, <3>1, <3>2, WrittenSound
  <2>8. tasks' = [tasks EXCEPT ![p] = u]
    BY <1>1, <1>10
  <2>9. errno' = "none" /\ last'.op = "close" /\ last'.file = file /\ last'.meant = get_fd(p, fd)
    <3>1. /\ errno' = "none"
          /\ last' = [call EXCEPT !.error = "none" # "none",
                                  !.failed = errno # "none" \/ "none" # "none" \/ 0 = -1]
      BY <1>1, <1>10 DEF syscall_dispatch
    <3> QED
      BY <3>1 DEF call, Call, NoCall
  <2>10. FilesInv'
    <3> HIDE DEF u
    <3> QED
      BY <1>1, <1>6, <1>7, <2>2, <2>6, <2>7, <2>8, <2>9, StepKept
  <2>11. ASSUME GentleInv PROVE GentleInv'
    <3>1. DOMAIN opened = TaskIds /\ opened = [q \in TaskIds |-> opened[q]]
      BY <2>11 DEF GentleInv
    <3>2. opened' = [opened EXCEPT ![p] = rest]
      BY <1>1, <1>10
    <3> HIDE DEF rest, u
    <3>3. /\ opened' = [q \in TaskIds |-> opened'[q]]
          /\ \A q \in TaskIds : q # p => opened'[q] = opened[q]
          /\ opened'[p] = rest
      BY <3>1, <3>2
    <3>4. tasks'[p] = u /\ \A q \in TaskIds : q # p => tasks'[q] = tasks[q]
      BY <1>2, <2>8
    <3>5. ASSUME gentle'
          PROVE  /\ \A q \in TaskIds : Mine(tasks'[q].descriptors, opened'[q], closed')
                 /\ file = get_fd(p, fd)
      <4>1. \A q \in TaskIds : Mine(tasks[q].descriptors, opened[q], closed)
        BY <1>7, <2>11, <3>5 DEF GentleInv
      <4>2. fd = v.length - 1 /\ file = get_fd(p, fd) /\ ~OpenElsewhere(p, fd, file)
        BY <1>8, <2>11, <3>5
      <4>3. /\ \A e \in DOMAIN opened[p] \ {fd} : opened[p][e] # file
            /\ \A q \in TaskIds : q # p => \A e \in DOMAIN opened[q] : opened[q][e] # file
        BY <4>2 DEF OpenElsewhere
      <4>4. Mine(cut, rest, closed \cup {file})
        <5>1. v.length = fd + 1 /\ cut.length = fd
          BY <1>2, <2>2, <4>2
        <5>2. Mine(v, opened[p], closed)
          BY <4>1
        <5> HIDE DEF v
        <5> QED
          BY <2>2, <4>3, <5>1, <5>2, MineClosed DEF rest
      <4>5. ASSUME NEW q \in TaskIds, q # p
            PROVE  Mine(tasks[q].descriptors, opened[q], closed \cup {file})
        BY <4>1, <4>3, <4>5, MineStays
      <4>6. closed' = closed \cup {file}
        BY <1>1, <1>10
      <4> QED
        BY <2>2, <3>3, <3>4, <4>2, <4>4, <4>5, <4>6
    <3>6. halted' = "no"
      BY <1>1, <1>10
    <3> QED
      BY <2>9, <3>3, <3>5, <3>6 DEF GentleInv
  <2> QED
    BY <2>10, <2>11
<1> QED
  BY <1>9, <1>10

\* What exit leaves of a task.
LEMMA ExitedTask ==
    ASSUME NEW n \in Nat, NEW task, IsTask(task, n)
    PROVE  IsTask(Exited(task), n) /\ Exited(task).state = "dead"
<1> DEFINE u == Exited(task)
<1>1. task = [x \in TaskFields |-> task[x]]
  BY DEF IsTask
<1>2. u = [x \in TaskFields |-> u[x]] /\ u.state = "dead" /\ u.descriptors = VecInit
  BY <1>1 DEF Exited, TaskFields
<1> HIDE DEF u
<1>3. IsTask(u, n)
  BY <1>2, EmptyTable DEF IsTask
<1> QED
  BY <1>2, <1>3 DEF u

\* exit.
LEMMA ExitSteps ==
    ASSUME FilesInv, NEW p \in TaskIds, sys_exit(p)
    PROVE  FilesInv' /\ (GentleInv => GentleInv')
<1> DEFINE u == Exited(tasks[p])
<1>1. /\ phase = "up" /\ tasks' = [tasks EXCEPT ![p] = u]
      /\ opened' = [opened EXCEPT ![p] = <<>>] /\ last' = NoCall
      /\ archive' = archive /\ address' = address /\ phase' = phase /\ tree' = tree
      /\ errno' = errno /\ halted' = halted /\ closed' = closed /\ gentle' = gentle
      /\ rewritten' = rewritten
  BY DEF sys_exit, CanCall, bootVars
<1>2. IsTree(tree) /\ WellLinked(tree) /\ Len(tree) \in Nat /\ DOMAIN tasks = TaskIds
  BY Known DEF FilesInv
<1>3. IsTask(u, Len(tree))
  BY <1>2, ExitedTask DEF FilesInv
<1> HIDE DEF u
<1>4. FilesInv'
  <2>1. /\ errno \in {"none", "ENOENT", "EISDIR"} /\ halted \in Halts /\ gentle \in BOOLEAN
        /\ Sound(tree, closed, rewritten)
    BY DEF FilesInv, BootInv, Halts
  <2> QED
    BY <1>1, <1>2, <1>3, <2>1, StepKept
<1>5. ASSUME GentleInv PROVE GentleInv'
  <2>1. DOMAIN opened = TaskIds /\ opened = [q \in TaskIds |-> opened[q]]
    BY <1>5 DEF GentleInv
  <2>2. /\ opened' = [q \in TaskIds |-> opened'[q]]
        /\ opened'[p] = <<>>
        /\ \A q \in TaskIds : q # p => opened'[q] = opened[q] /\ tasks'[q] = tasks[q]
    BY <1>1, <1>2, <2>1
  <2>3. last'.op = "none"
    BY <1>1 DEF NoCall
  <2>4. gentle' => \A q \in TaskIds : Mine(tasks'[q].descriptors, opened'[q], closed')
    BY <1>1, <1>5, <2>2, MineNone DEF GentleInv
  <2> QED
    BY <1>1, <1>5, <2>2, <2>3, <2>4 DEF GentleInv
<1> QED
  BY <1>4, <1>5

\* What sched_new_elf_process makes of the tree when it reads the program.
LEMMA ProgramLoaded ==
    ASSUME NEW t, IsTree(t), NEW elf, Yields(t, elf)
    PROVE  LET r == ReadAll(elf.file, elf.tree[elf.file])
           IN  /\ r.halt \in Halts \ {"splice"}
               /\ r.halt = "freed" => elf.file \in 1..Len(elf.tree) /\ elf.tree[elf.file].freed
               /\ r.halt = "no" => Keeps(t, WithNode(elf.tree, elf.file, r.node))
<1> DEFINE f == elf.tree[elf.file]
           r == ReadAll(elf.file, f)
<1>1. /\ Extends(t, elf.tree) /\ Keeps(t, elf.tree) /\ IsTree(elf.tree) /\ Len(elf.tree) \in Nat
      /\ elf.file \in (0..Len(elf.tree)) \cup {Junk, Fault, Wild}
  BY ExtendsKeeps, TreeNodes DEF Yields, Extends
<1>2. CASE elf.file \in {NULL, Fault, Wild, Junk}
  <2>1. r.halt \in {"fault", "junk"}
    BY <1>2 DEF ReadAll, StopIn
  <2> QED
    BY <2>1 DEF Halts
<1>3. CASE elf.file \notin {NULL, Fault, Wild, Junk}
  <2>1. elf.file \in 1..Len(elf.tree)
    BY <1>1, <1>3 DEF NULL
  <2>2. f \in Nodes(Len(elf.tree)) /\ Touched(f, f) /\ SameBuffer(f, f) /\ f.st_size \in Int
    <3>1. f \in Nodes(Len(elf.tree))
      BY <1>1, <2>1, TreeNodes
    <3>2. Touched(f, f) /\ SameBuffer(f, f)
      BY <3>1, TouchedSame
    <3> QED
      BY <3>1, <3>2 DEF Touched
  <2>3. \/ r = StopIn(f, "junk")
        \/ r = vfs_read(f, f.st_size, TRUE, f.st_size)
    BY <1>3 DEF ReadAll
  <2> HIDE DEF f
  <2>4. IsOutcome(f, r) /\ SameBuffer(r.node, f)
    <3>1. CASE r = StopIn(f, "junk")
      <4>1. "junk" \in Halts \ {"splice"} /\ "junk" # "freed"
        BY DEF Halts
      <4>2. IsOutcome(f, StopIn(f, "junk")) /\ StopIn(f, "junk").node = f
        BY <2>2, <4>1, StopOutcome
      <4> QED
        BY <2>2, <3>1, <4>2
    <3>2. CASE r = vfs_read(f, f.st_size, TRUE, f.st_size)
      BY <2>2, <3>2, ReadOutcome
    <3> QED
      BY <2>3, <3>1, <3>2
  <2> HIDE DEF r
  <2>5. Touched(f, r.node) /\ r.halt \in Halts \ {"splice"} /\ (r.halt = "freed" => f.freed)
    BY <2>4 DEF IsOutcome
  <2>6. Keeps(elf.tree, WithNode(elf.tree, elf.file, r.node))
    BY <1>1, <2>1, <2>4, <2>5, NodeKept DEF f
  <2>7. Keeps(t, WithNode(elf.tree, elf.file, r.node))
    BY <1>1, <2>6, KeepsOn
  <2> QED
    BY <2>1, <2>5, <2>7 DEF f, r
<1> QED
  BY <1>2, <1>3

\* A file is opened and read as a whole.
LEMMA LoadKeeps ==
    ASSUME NEW t, IsTree(t), Len(t) > 0, NEW path, IsPath(path),
           NEW shut, NEW wild, Sound(t, shut, wild)
    PROVE  LET l == LoadProgram(vfs_open(t, Root, path, {}, FALSE))
           IN  /\ Keeps(t, l.tree) /\ Sound(l.tree, shut, wild)
               /\ IsTree(l.tree) /\ Len(l.tree) \in Nat /\ Len(l.tree) > 0
               /\ l.halt \in Halts \ {"splice"} /\ (l.halt = "freed" => l.file \in shut)
<1> DEFINE o == vfs_open(t, Root, path, {}, FALSE)
           r == ReadAll(o.file, o.tree[o.file])
           l == Loaded(o, r)
<1>1. Yields(t, o)
  BY OpenYields
<1> HIDE DEF o
<1>2. Keeps(t, o.tree)
  BY <1>1, ExtendsKeeps DEF Yields
<1>3. /\ r.halt \in Halts \ {"splice"}
      /\ r.halt = "freed" => o.file \in 1..Len(o.tree) /\ o.tree[o.file].freed
      /\ r.halt = "no" => Keeps(t, WithNode(o.tree, o.file, r.node))
  BY <1>1, ProgramLoaded
<1> HIDE DEF r
<1>4. /\ l.halt = r.halt /\ l.file = o.file
      /\ l.tree = IF r.halt = "no" THEN WithNode(o.tree, o.file, r.node) ELSE o.tree
  BY DEF Loaded, WithNode
<1> HIDE DEF l
<1>5. Keeps(t, l.tree)
  BY <1>2, <1>3, <1>4
<1>6. IsTree(l.tree) /\ Len(l.tree) \in Nat /\ Len(l.tree) > 0 /\ Len(t) \in Nat
  BY <1>5, TreeNodes DEF Keeps
<1>7. Sound(l.tree, shut, wild) /\ Sound(o.tree, shut, wild)
  BY <1>2, <1>5, KeepsSound
<1>8. l.halt = "freed" => l.file \in shut
  BY <1>3, <1>4, <1>7 DEF Sound
<1> QED
  BY <1>3, <1>4, <1>5, <1>6, <1>7, <1>8 DEF LoadProgram, l, r, o

\* The three descriptors of the terminal.
LEMMA StandardDescriptors ==
    ASSUME NEW n \in Nat, NEW file \in (0..n) \cup {Junk}, NEW shut, file \notin shut
    PROVE  LET new == [NoDescriptors EXCEPT !.state = "alive"]
               std == AddDescriptor(AddDescriptor(AddDescriptor(new, file), file), file)
           IN  IsTask(std, n) /\ Mine(std.descriptors, [fd \in 0..2 |-> file], shut)
<1> DEFINE a == [NoDescriptors EXCEPT !.state = "alive"]
           b == AddDescriptor(a, file)
           c == AddDescriptor(b, file)
           d == AddDescriptor(c, file)
<1>1. IsTask(a, n) /\ a.descriptors.length = 0 /\ a.state = "alive"
  BY NewTask
<1> HIDE DEF a
<1>2. /\ IsTask(b, n) /\ b.state = "alive" /\ b.descriptors.length = 1 /\ FileIn(b.descriptors, 0) = file
  BY <1>1, DescriptorAdded
<1> HIDE DEF b
<1>3. /\ IsTask(c, n) /\ c.state = "alive" /\ c.descriptors.length = 2 /\ FileIn(c.descriptors, 1) = file
      /\ SameFiles(b.descriptors, c.descriptors)
  BY <1>2, DescriptorAdded
<1> HIDE DEF c
<1>4. /\ IsTask(d, n) /\ d.descriptors.length = 3 /\ FileIn(d.descriptors, 2) = file
      /\ SameFiles(c.descriptors, d.descriptors)
  BY <1>3, DescriptorAdded
<1> HIDE DEF d
<1>5. FileIn(c.descriptors, 0) = file
  BY <1>2, <1>3 DEF SameFiles
<1>6. FileIn(d.descriptors, 0) = file /\ FileIn(d.descriptors, 1) = file
  BY <1>3, <1>4, <1>5 DEF SameFiles
<1>7. ASSUME NEW fd \in 0..2
      PROVE  fd \in Nat /\ fd < d.descriptors.length /\ FileIn(d.descriptors, fd) = file
  <2>1. fd = 0 \/ fd = 1 \/ fd = 2
    OBVIOUS
  <2> QED
    BY <1>4, <1>6, <2>1
<1>8. Mine(d.descriptors, [fd \in 0..2 |-> file], shut)
  BY <1>7 DEF Mine
<1> QED
  BY <1>4, <1>8 DEF a, b, c, d

\* sched_new_elf_process, for kernel_main and for execve.
LEMMA ExecSteps ==
    ASSUME FilesInv, NEW q \in TaskIds, NEW stdio \in BOOLEAN, phase = "up",
           sched_new_elf_process(q, stdio),
           stdio \/ errno' \in {"none", "ENOENT", "EISDIR"}, last' = last \/ last'.op # "close"
    PROVE  FilesInv' /\ (GentleInv => GentleInv')
<1> DEFINE new == [NoDescriptors EXCEPT !.state = "alive"]
           std(file) == AddDescriptor(AddDescriptor(AddDescriptor(new, file), file), file)
           Terminal(t) == IF stdio THEN vfs_open(t, Root, <<"", "dev", "tty">>, {}, FALSE)
                          ELSE Result(t, NULL, "none")
           Loaders(t) == {NoInterpreter(t)} \cup
                {LoadProgram(vfs_open(t, Root, path, {}, FALSE)) : path \in Interpreters}
           Effect(elf, tty, ld) ==
             LET stops == IF elf.halt # "no" THEN elf.halt
                          ELSE IF StopOf(tty.file) # "no" THEN StopOf(tty.file) ELSE ld.halt
             IN  /\ \A n \in DOMAIN tree : ld.tree[n].cursor <= MaxSize
                 /\ halted' = stops
                 /\ tree' = ld.tree
                 /\ stdio => errno' = IF tty.error = "none" THEN errno ELSE tty.error
                 /\ tasks' = IF stops # "no" THEN tasks
                             ELSE [tasks EXCEPT ![q] = IF stdio THEN std(tty.file) ELSE new]
                 /\ opened' = IF stops # "no" \/ ~stdio THEN opened
                              ELSE [opened EXCEPT ![q] = [fd \in 0..2 |-> tty.file]]
                 /\ gentle' = (gentle /\ ~\E r \in {elf, tty, ld} : CarelessOpen(r.file))
<1>12. \E elf \in {LoadProgram(vfs_open(tree, Root, Program, {}, FALSE))} :
          \E tty \in {Terminal(elf.tree)} : \E ld \in Loaders(tty.tree) : Effect(elf, tty, ld)
  BY Zenon DEF sched_new_elf_process
<1>13. PICK elf, tty, ld :
          /\ elf = LoadProgram(vfs_open(tree, Root, Program, {}, FALSE))
          /\ tty = Terminal(elf.tree) /\ ld \in Loaders(tty.tree) /\ Effect(elf, tty, ld)
  <2> HIDE DEF Terminal, Loaders, Effect
  <2> QED
    BY <1>12, Zenon
<1>0. /\ elf = LoadProgram(vfs_open(tree, Root, Program, {}, FALSE))
      /\ tty = IF stdio THEN vfs_open(elf.tree, Root, <<"", "dev", "tty">>, {}, FALSE)
               ELSE Result(elf.tree, NULL, "none")
      /\ \/ ld = NoInterpreter(tty.tree)
         \/ \E path \in Interpreters : ld = LoadProgram(vfs_open(tty.tree, Root, path, {}, FALSE))
      /\ Effect(elf, tty, ld)
  <2> HIDE DEF Effect
  <2> QED
    BY <1>13
<1> DEFINE stops == IF elf.halt # "no" THEN elf.halt
                    ELSE IF StopOf(tty.file) # "no" THEN StopOf(tty.file) ELSE ld.halt
           u == IF stdio THEN std(tty.file) ELSE new
           held == [fd \in 0..2 |-> tty.file]
<1>1. /\ halted' = stops /\ tree' = ld.tree
      /\ tasks' = IF stops # "no" THEN tasks ELSE [tasks EXCEPT ![q] = u]
      /\ opened' = IF stops # "no" \/ ~stdio THEN opened ELSE [opened EXCEPT ![q] = held]
      /\ archive' = archive /\ address' = address /\ phase' = phase
      /\ closed' = closed /\ rewritten' = rewritten
  <2>1. /\ archive' = archive /\ address' = address /\ phase' = phase
        /\ closed' = closed /\ rewritten' = rewritten
    BY DEF sched_new_elf_process
  <2> QED
    BY <1>0, <2>1, Zenon
<1>2. /\ IsTree(tree) /\ WellLinked(tree) /\ Len(tree) \in Nat /\ Len(tree) > 0
      /\ DOMAIN tasks = TaskIds /\ Sound(tree, closed, rewritten)
  BY Known DEF FilesInv
<1>3. /\ Keeps(tree, elf.tree) /\ Sound(elf.tree, closed, rewritten)
      /\ IsTree(elf.tree) /\ Len(elf.tree) \in Nat /\ Len(elf.tree) > 0
      /\ elf.halt \in Halts \ {"splice"} /\ (elf.halt = "freed" => elf.file \in closed)
  BY <1>0, <1>2, PathsTyped, LoadKeeps
<1>4. Yields(elf.tree, tty)
  <2>1. CASE stdio
    BY <1>0, <1>3, <2>1, PathsTyped, OpenYields
  <2>2. CASE ~stdio
    <3>1. Extends(elf.tree, elf.tree) /\ NULL \in (0..Len(elf.tree)) \cup {Junk, Fault, Wild}
      BY <1>3, ExtendsSame DEF NULL
    <3>2. tty = Result(elf.tree, NULL, "none")
      BY <1>0, <2>2
    <3> QED
      BY <3>1, <3>2, ResultYields
  <2> QED
    BY <2>1, <2>2
<1>5. /\ Keeps(elf.tree, tty.tree) /\ Sound(tty.tree, closed, rewritten)
      /\ IsTree(tty.tree) /\ Len(tty.tree) \in Nat /\ Len(tty.tree) > 0
  <2>1. Keeps(elf.tree, tty.tree)
    BY <1>4, ExtendsKeeps DEF Yields
  <2>2. IsTree(tty.tree) /\ Len(elf.tree) <= Len(tty.tree)
    BY <2>1 DEF Keeps
  <2> QED
    BY <1>3, <2>1, <2>2, KeepsSound, TreeNodes
<1>6. /\ Keeps(tty.tree, ld.tree) /\ Sound(ld.tree, closed, rewritten)
      /\ Len(ld.tree) \in Nat /\ Len(tty.tree) <= Len(ld.tree)
      /\ ld.halt \in Halts \ {"splice"} /\ (ld.halt = "freed" => ld.file \in closed)
  <2>1. CASE ld = NoInterpreter(tty.tree)
    <3>1. ld.tree = tty.tree /\ ld.halt = "no"
      BY <2>1 DEF NoInterpreter
    <3>2. Keeps(tty.tree, tty.tree)
      BY <1>5, ExtendsSame, ExtendsKeeps
    <3> QED
      BY <1>5, <3>1, <3>2 DEF Halts
  <2>2. ASSUME NEW path \in Interpreters,
               ld = LoadProgram(vfs_open(tty.tree, Root, path, {}, FALSE))
        PROVE  /\ Keeps(tty.tree, ld.tree) /\ Sound(ld.tree, closed, rewritten)
               /\ Len(ld.tree) \in Nat /\ Len(tty.tree) <= Len(ld.tree)
               /\ ld.halt \in Halts \ {"splice"} /\ (ld.halt = "freed" => ld.file \in closed)
    <3>1. IsPath(path)
      BY PathsTyped
    <3> QED
      BY <1>5, <2>2, <3>1, LoadKeeps DEF Keeps
  <2> QED
    BY <1>0, <2>1, <2>2
<1>7. errno' \in {"none", "ENOENT", "EISDIR"}
  <2>1. errno \in {"none", "ENOENT", "EISDIR"} /\ tty.error \in {"none", "ENOENT", "EISDIR"}
    BY <1>4 DEF FilesInv, BootInv, Yields
  <2> QED
    BY <1>0, <2>1
<1>9. /\ Keeps(tree, tree') /\ Sound(tree', closed', rewritten') /\ Len(tree') \in Nat
  BY <1>1, <1>2, <1>3, <1>5, <1>6, KeepsOn
<1>10. /\ stops \in Halts \ {"splice"}
       /\ stops = "freed" => elf.file \in closed \/ ld.file \in closed
       /\ stops = "no" => tty.file \in (0..Len(tree')) \cup {Junk}
  <2>1. StopOf(tty.file) \in {"no", "fault", "junk"}
    BY DEF StopOf
  <2>2. StopOf(tty.file) = "no" => tty.file \in (0..Len(tty.tree)) \cup {Junk}
    BY <1>4 DEF StopOf, Yields
  <2>3. {"no", "fault", "junk"} \subseteq Halts \ {"splice"}
    BY DEF Halts
  <2>4. 0..Len(tty.tree) \subseteq 0..Len(tree')
    BY <1>1, <1>5, <1>6
  <2>5. stops \in Halts \ {"splice"} /\ (stops = "freed" => elf.file \in closed \/ ld.file \in closed)
    BY <1>3, <1>6, <2>1, <2>3
  <2> QED
    BY <2>2, <2>4, <2>5
<1> HIDE DEF stops
<1>11. /\ gentle' \in BOOLEAN
       /\ gentle' => gentle /\ elf.file \notin closed /\ tty.file \notin closed /\ ld.file \notin closed
  BY <1>0 DEF FilesInv, CarelessOpen
<1>14. CASE stops # "no"
  <2>1. tasks' = tasks /\ opened' = opened
    BY <1>1, <1>14
  <2>2. FilesInv'
    BY <1>1, <1>7, <1>9, <1>10, <1>11, <2>1, StepKept
  <2> QED
    BY <1>1, <1>10, <1>11, <2>1, <2>2 DEF GentleInv
<1>15. CASE stops = "no"
  <2>1. IsTask(new, Len(tree'))
    BY <1>9, NewTask
  <2>2. IsTask(u, Len(tree'))
    <3>1. tty.file \notin {}
      OBVIOUS
    <3>2. IsTask(std(tty.file), Len(tree'))
      BY <1>9, <1>10, <1>15, <3>1, StandardDescriptors
    <3> HIDE DEF std, new
    <3> QED
      BY <2>1, <3>2
  <2>3. stdio /\ tty.file \notin closed => Mine(u.descriptors, held, closed)
    <3>1. SUFFICES ASSUME stdio, tty.file \notin closed
                   PROVE  Mine(std(tty.file).descriptors, held, closed)
      BY <3>1
    <3> QED
      BY <1>9, <1>10, <1>15, <3>1, StandardDescriptors
  <2> HIDE DEF u, held
  <2>5. tasks' = [tasks EXCEPT ![q] = u]
    BY <1>1, <1>15
  <2>6. FilesInv'
    BY <1>1, <1>7, <1>9, <1>10, <1>11, <2>2, <2>5, StepKept
  <2>7. ASSUME GentleInv PROVE GentleInv'
    <3>1. DOMAIN opened = TaskIds /\ opened = [k \in TaskIds |-> opened[k]]
      BY <2>7 DEF GentleInv
    <3>2. /\ tasks'[q] = u /\ \A k \in TaskIds : k # q => tasks'[k] = tasks[k]
      BY <1>2, <2>5
    <3>3. /\ opened' = [k \in TaskIds |-> opened'[k]]
          /\ \A k \in TaskIds : k # q => opened'[k] = opened[k]
          /\ IF stdio THEN opened'[q] = held ELSE opened'[q] = opened[q]
      BY <1>1, <1>15, <3>1
    <3>4. ASSUME gentle'
          PROVE  \A k \in TaskIds : Mine(tasks'[k].descriptors, opened'[k], closed')
      <4>1. \A k \in TaskIds : Mine(tasks[k].descriptors, opened[k], closed)
        BY <1>11, <2>7, <3>4 DEF GentleInv
      <4>2. tasks[q].descriptors.length = 0
        BY DEF sched_new_elf_process, FilesInv, IsTask
      <4>3. DOMAIN opened[q] = {}
        <5>1. \A fd \in DOMAIN opened[q] : fd \in Nat /\ fd < 0
          BY <4>1, <4>2 DEF Mine
        <5> QED
          BY <5>1
      <4>4. Mine(u.descriptors, opened'[q], closed)
        BY <1>11, <2>3, <3>3, <3>4, <4>3 DEF Mine
      <4> QED
        BY <1>1, <3>2, <3>3, <4>1, <4>4
    <3>5. halted' = "no"
      BY <1>1, <1>15
    <3> QED
      BY <1>11, <2>7, <3>3, <3>4, <3>5 DEF GentleInv
  <2> QED
    BY <2>6, <2>7
<1> QED
  BY <1>14, <1>15

\* The boot.
LEMMA BootHalts ==
    ASSUME BootNext
    PROVE  halted' \in {"no", "fault", "junk", halted}
<1>1. \A r : Outcome(r) => halted' \in {"no", "fault", "junk"}
  BY DEF Outcome, StopOf
<1>2. CASE MountRoot
  <2>1. \E r : Outcome(r)
    BY <1>2, Zenon DEF MountRoot
  <2> QED
    BY <1>1, <2>1
<1>3. CASE ReadHeader
  <2>1. halted' = halted \/ halted' = "junk" \/ \E r : Outcome(r)
    BY <1>3, Zenon DEF ReadHeader
  <2> QED
    BY <1>1, <2>1
<1>5. CASE devfs_init
  <2>1. \E r : Outcome(r)
    BY <1>5, Zenon DEF devfs_init
  <2> QED
    BY <1>1, <2>1
<1> QED
  BY <1>2, <1>3, <1>5 DEF BootNext

\* The boot makes nodes and touches no task.
LEMMA BootKept ==
    ASSUME FilesInv, Boot
    PROVE  FilesInv' /\ (GentleInv => GentleInv')
<1>1. /\ BootNext /\ tasks' = tasks /\ opened' = opened /\ closed' = closed
      /\ gentle' = gentle /\ rewritten' = rewritten /\ last' = last
  BY DEF Boot
<1>2. BootInv' /\ Extends(tree, tree')
  BY <1>1, BootSteps DEF FilesInv
<1>3. Keeps(tree, tree') /\ Len(tree') \in Nat /\ Len(tree) <= Len(tree')
  <2>1. Keeps(tree, tree')
    BY <1>2, ExtendsKeeps
  <2> QED
    BY <2>1, TreeNodes DEF Keeps
<1>4. IsTree(tree) /\ Len(tree) \in Nat
  BY Known
<1>5. Sound(tree', closed', rewritten')
  BY <1>1, <1>3, <1>4, KeepsSound DEF FilesInv
<1>6. \A p \in TaskIds : IsTask(tasks[p], Len(tree'))
  BY <1>3, <1>4, TaskGrows DEF FilesInv
<1>7. FilesInv'
  BY <1>1, <1>2, <1>5, <1>6 DEF FilesInv
<1>8. GentleInv => GentleInv'
  BY <1>1, BootHalts DEF GentleInv
<1> QED
  BY <1>7, <1>8

\* Every step keeps the invariant.
LEMMA NextInv ==
    ASSUME FilesInv, [Next]_vars
    PROVE  FilesInv' /\ (GentleInv => GentleInv')
<1>1. CASE UNCHANGED vars
  <2>1. /\ archive' = archive /\ address' = address /\ phase' = phase /\ tree' = tree
        /\ errno' = errno /\ halted' = halted /\ tasks' = tasks /\ opened' = opened
        /\ closed' = closed /\ gentle' = gentle /\ rewritten' = rewritten /\ last' = last
    BY <1>1 DEF vars, bootVars
  <2>2. BootInv => BootInv'
    BY <2>1 DEF BootInv
  <2> QED
    BY <2>1, <2>2 DEF FilesInv, GentleInv
<1>2. CASE Boot
  BY <1>2, BootKept
<1>3. CASE StartFirstTask
  <2>1. phase = "up" /\ sched_new_elf_process(FirstTask, TRUE) /\ last' = last
    BY <1>3 DEF StartFirstTask
  <2>2. FirstTask \in TaskIds
    BY FilesAssumption
  <2> QED
    BY <2>1, <2>2, ExecSteps
<1>4. CASE OpenAt
  BY <1>4, OpenSteps DEF OpenAt
<1>5. CASE Read
  BY <1>5, FilesAssumption, ReadSteps DEF Read
<1>6. CASE Write
  BY <1>6, FilesAssumption, WriteSteps DEF Write
<1>7. CASE Seek
  <2>1. PICK p \in TaskIds, fd \in Fds, s \in Seeks : sys_seek(p, fd, s[1], s[2])
    BY <1>7 DEF Seek
  <2>2. fd \in Nat /\ s[2] \in Int
    BY FilesAssumption
  <2> QED
    BY <2>1, <2>2, SeekSteps
<1>8. CASE Close
  BY <1>8, FilesAssumption, CloseSteps DEF Close
<1>9. CASE Exit
  BY <1>9, ExitSteps DEF Exit
<1>10. CASE Execve
  <2>1. PICK p \in TaskIds, q \in TaskIds : sys_execve(p, q)
    BY <1>10 DEF Execve
  <2>2. /\ phase = "up" /\ sched_new_elf_process(q, FALSE)
        /\ syscall_dispatch(Call("execve"), "none", 0)
    BY <2>1 DEF sys_execve, CanCall
  <2>3. errno' = "none" /\ last'.op # "close"
    <3>1. last' = [Call("execve") EXCEPT !.error = "none" # "none",
                             !.failed = errno # "none" \/ "none" # "none" \/ 0 = -1]
      BY <2>2 DEF syscall_dispatch
    <3>2. last'.op = "execve"
      BY <3>1 DEF Call, NoCall
    <3> QED
      BY <2>2, <3>2 DEF syscall_dispatch
  <2> QED
    BY <2>2, <2>3, ExecSteps
<1>11. CASE Idle
  BY <1>1, <1>11 DEF Idle
<1> QED
  BY <1>1, <1>2, <1>3, <1>4, <1>5, <1>6, <1>7, <1>8, <1>9, <1>10, <1>11 DEF Next

-----------------------------------------------------------------------------
(* The theorems.                                                           *)

\* The two invariants hold in every state.
LEMMA Invariants == Spec => [](FilesInv /\ GentleInv)
<1>1. FilesInv /\ GentleInv /\ [Next]_vars => (FilesInv /\ GentleInv)'
  BY NextInv
<1> QED
  BY <1>1, InitInv, PTL DEF Spec

\* The invariant implies what the runs check of the tree.
LEMMA TreeFollows == FilesInv => TreeExact
<1> SUFFICES ASSUME FilesInv PROVE TreeExact
  OBVIOUS
<1>1. IsTree(tree) /\ WellLinked(tree) /\ Len(tree) \in Nat /\ DOMAIN tree = 1..Len(tree)
  BY Known
<1>2. Linked
  BY <1>1 DEF Linked, WellLinked, LinkedAt
<1>3. ASSUME NEW n \in DOMAIN tree
      PROVE  /\ tree[n].parent \in 0..Len(tree)
             /\ tree[n].points_to \in 0..Len(tree) \cup {Junk}
             /\ tree[n].mountpoint \in {"none", "tmpfs", "devfs"}
             /\ tree[n].junk \subseteq Fields
             /\ tree[n].room \in Nat /\ tree[n].st_size \in Nat
  <2>1. IsNode(tree[n], Len(tree))
    BY <1>1, TreeNodes
  <2> QED
    BY <2>1 DEF IsNode, FsNames
<1>4. ASSUME NEW p \in TaskIds
      PROVE  /\ tasks[p].state \in {"unborn", "alive", "dead"}
             /\ Elements(tasks[p].descriptors) \subseteq [fd : Nat, file : 0..Len(tree) \cup {Junk}]
  BY DEF FilesInv, IsTask, Table, Elements, Slots
<1>5. gentle \in BOOLEAN /\ closed \subseteq DOMAIN tree
  BY <1>1 DEF FilesInv, Sound
<1>6. TypeOK
  BY <1>3, <1>4, <1>5 DEF TypeOK, FilesInv, BootInv
<1> QED
  BY <1>2, <1>6 DEF TreeExact

\* Every node that vfs_mkdir, tmpfs_create_file, vfs_open and devfs_init made has
\* the fields that lookups read and stands in one list of children, that of its
\* parent, whatever the archive holds and whatever processes open, write and
\* close.
THEOREM TreeStaysExact == Spec => []TreeExact
  BY Invariants, TreeFollows, PTL

\* create_tmpfs_files is at a header or at the end of the archive in every round:
\* the step over the data is right for every size of a file.
THEOREM ReadsHeaders == Spec => []AtHeader
<1>1. FilesInv => AtHeader
  BY BootAtHeader DEF FilesInv
<1> QED
  BY <1>1, Invariants, PTL

\* current_fd is the length of the table: the number that sys_openat returns is
\* the slot of the descriptor it pushed, after failed opens, closes in any order
\* and the standard descriptors of sched_new_elf_process.
THEOREM NumbersAreSlots == Spec => []NumberIsSlot
<1>1. FilesInv => NumberIsSlot
  BY DEF FilesInv, IsTask, NumberIsSlot
<1> QED
  BY <1>1, Invariants, PTL

\* A file of tmpfs that was only ever written at its end has a buffer with room
\* for all of it and one byte more, through tmpfs_create_file, O_CREAT, appends,
\* reads, seeks and closes.
THEOREM BuffersHaveRoom == Spec => []RoomForAll
<1>1. FilesInv => RoomForAll
  <2> SUFFICES ASSUME FilesInv, NEW n \in DOMAIN tree \ rewritten,
                      tree[n].mountpoint = "tmpfs", tree[n].room > 0,
                      ~IsJunk(tree[n], {"st_size"})
               PROVE  tree[n].st_size < tree[n].room
    BY DEF RoomForAll
  <2>1. Roomy(tree[n])
    BY Known DEF FilesInv, Sound
  <2> QED
    BY <2>1 DEF Roomy, Fits, IsJunk
<1> QED
  BY <1>1, Invariants, PTL

\* As long as processes use only descriptors that they have, close the newest one
\* first and no file while it is open elsewhere, and close, open or execute no
\* file again that was closed: get_fd leads each descriptor to the file it was
\* opened on, and sys_close deals with the file it was meant for although it
\* looks it up after the slot is cut out.
THEOREM GentleCallsAreRight == Spec => []GentleIsRight
<1>1. FilesInv /\ GentleInv => GentleIsRight
  <2> SUFFICES ASSUME FilesInv, GentleInv, gentle
               PROVE  /\ \A p \in TaskIds : \A fd \in DOMAIN opened[p] :
                            /\ ~IsInvalid(p, fd)
                            /\ get_fd(p, fd) = opened[p][fd]
                      /\ last.op = "close" => last.file = last.meant
    BY DEF GentleIsRight
  <2>1. ASSUME NEW p \in TaskIds, NEW fd \in DOMAIN opened[p]
        PROVE  ~IsInvalid(p, fd) /\ get_fd(p, fd) = opened[p][fd]
    <3>1. ~Careless(p, fd)
      BY DEF Careless
    <3>2. /\ fd \in Nat /\ fd < tasks[p].descriptors.length /\ get_fd(p, fd) = opened[p][fd]
      BY <3>1, HeldOpen
    <3>3. tasks[p].descriptors.length \in Nat
      BY DEF FilesInv, IsTask, Table, WellFormed, VecOf
    <3> QED
      BY <3>2, <3>3 DEF IsInvalid
  <2> QED
    BY <2>1 DEF GentleInv
<1> QED
  BY <1>1, Invariants, PTL

\* Under the same discipline, no second open of a closed file included,
\* tmpfs_read, tmpfs_write, sys_close and sched_new_elf_process use no buffer that
\* was freed, and vec_splice moves no negative number of bytes.
THEOREM GentleCallsAreSafe == Spec => []GentleIsSafe
<1>1. GentleInv => GentleIsSafe
  BY DEF GentleInv, GentleIsSafe
<1> QED
  BY <1>1, Invariants, PTL

-----------------------------------------------------------------------------
(* Errors.                                                                 *)

\* The boot has left no error behind.  (create_tmpfs_files may: a directory whose
\* parent is missing in the archive leaves ENOENT; so may the open of the
\* terminal for the first task.  The first system call then reports it.)
CleanBoot == phase = "up" /\ last.op = "none" => errno = "none"

\* From the first call on, no error is left between two calls.
ErrorsInv ==
    /\ last.op # "none" => phase = "up" /\ errno = "none"
    /\ tasks[FirstTask].state = "unborn" =>
          last.op = "none" /\ \A p \in TaskIds : tasks[p].state = "unborn"
    /\ OwnErrors

\* What the end of syscall_dispatch leaves behind.
LEMMA Dispatched ==
    ASSUME errno = "none", NEW call, DOMAIN call = DOMAIN NoCall, NEW error, NEW ret,
           syscall_dispatch(call, error, ret),
           call.op \in {"openat", "close", "execve"} => ret # -1
    PROVE  errno' = "none" /\ OwnErrors'
<1>1. /\ errno' = "none"
      /\ last' = [call EXCEPT !.error = error # "none",
                              !.failed = errno # "none" \/ error # "none" \/ ret = -1]
  BY DEF syscall_dispatch
<1>2. DOMAIN call = {"op", "error", "failed", "file", "meant"}
  BY DEF NoCall
<1>3. /\ last'.op = call.op /\ last'.error = (error # "none")
      /\ last'.failed = (errno # "none" \/ error # "none" \/ ret = -1)
  BY <1>1, <1>2
<1> QED
  BY <1>1, <1>3 DEF OwnErrors

\* The record of a call, before dispatch fills in its result.
LEMMA CallRecords ==
    /\ \A op : DOMAIN Call(op) = DOMAIN NoCall /\ Call(op).op = op
    /\ \A op, file, meant : LET c == [Call(op) EXCEPT !.file = file, !.meant = meant]
                            IN  DOMAIN c = DOMAIN NoCall /\ c.op = op
  BY DEF Call, NoCall

\* A call of a task that runs.
LEMMA CallKeepsErrors ==
    ASSUME ErrorsInv, NEW p \in TaskIds, CanCall(p), phase' = phase, errno' = "none", OwnErrors',
           \A k \in TaskIds : tasks'[k].state = "unborn" => tasks[k].state = "unborn"
    PROVE  ErrorsInv'
<1>1. phase = "up" /\ tasks[p].state # "unborn"
  BY DEF CanCall
<1>2. tasks'[FirstTask].state # "unborn"
  BY <1>1, FilesAssumption DEF ErrorsInv
<1> QED
  BY <1>1, <1>2 DEF ErrorsInv

\* The state of a task whose table changes.
LEMMA StateStays ==
    ASSUME NEW n, NEW task, IsTask(task, n)
    PROVE  /\ \A file : AddDescriptor(task, file).state = task.state
           /\ \A cut : CloseSlot(task, cut).state = task.state
<1>1. \A v, c : WithTable(task, v, c).state = task.state
  BY DEF IsTask, TaskFields, WithTable
<1> QED
  BY <1>1 DEF AddDescriptor, CloseSlot, WithTable

\* Every step keeps errors apart.
LEMMA ErrorsStep ==
    ASSUME FilesInv, CleanBoot, ErrorsInv, [Next]_vars
    PROVE  ErrorsInv'
<1>0. /\ DOMAIN tasks = TaskIds /\ FirstTask \in TaskIds
      /\ \A p \in TaskIds : IsTask(tasks[p], Len(tree))
      /\ \A p \in TaskIds : CanCall(p) => errno = "none"
  BY FilesAssumption DEF FilesInv, ErrorsInv, CanCall, CleanBoot
<1>1. CASE UNCHANGED vars
  BY <1>1 DEF vars, bootVars, ErrorsInv, OwnErrors
<1>2. CASE Boot
  <2>1. phase # "up" /\ tasks' = tasks /\ last' = last
    BY <1>2, Zenon DEF Boot, BootNext, MountRoot, ReadHeader, devfs_init
  <2> QED
    BY <2>1 DEF ErrorsInv, OwnErrors
<1>3. CASE StartFirstTask
  <2>1. /\ last' = last /\ tasks[FirstTask].state = "unborn"
        /\ tasks' = tasks \/ \E u : tasks' = [tasks EXCEPT ![FirstTask] = u] /\ u.state = "alive"
    <3>1. sched_new_elf_process(FirstTask, TRUE) /\ last' = last
      BY <1>3 DEF StartFirstTask
    <3>2. PICK file : \/ tasks' = tasks
                      \/ tasks' = [tasks EXCEPT ![FirstTask] =
                            AddDescriptor(AddDescriptor(AddDescriptor(
                                [NoDescriptors EXCEPT !.state = "alive"], file), file), file)]
      BY <3>1 DEF sched_new_elf_process
    <3>3. AddDescriptor(AddDescriptor(AddDescriptor(
             [NoDescriptors EXCEPT !.state = "alive"], file), file), file).state = "alive"
      BY DEF AddDescriptor, NoDescriptors
    <3> QED
      BY <3>1, <3>2, <3>3 DEF sched_new_elf_process
  <2>2. last.op = "none" /\ \A p \in TaskIds : tasks[p].state = "unborn"
    BY <2>1 DEF ErrorsInv
  <2>3. OwnErrors'
    BY <2>1 DEF ErrorsInv, OwnErrors
  <2>4. tasks'[FirstTask].state = "unborn" => tasks' = tasks
    BY <1>0, <2>1
  <2> QED
    BY <1>0, <2>1, <2>2, <2>3, <2>4 DEF ErrorsInv
<1>4. CASE OpenAt
  <2>1. PICK p \in TaskIds, path \in Paths, flags \in FlagSets, dirfd \in {AT_FDCWD} \cup Fds :
           sys_openat(p, dirfd, path, flags)
    BY <1>4 DEF OpenAt
  <2>2. PICK file, error : /\ \/ tasks' = tasks
                              \/ tasks' = [tasks EXCEPT ![p] = AddDescriptor(@, file)]
                           /\ syscall_dispatch(Call("openat"), error, tasks[p].current_fd)
    BY <2>1 DEF sys_openat
  <2>3. CanCall(p) /\ phase' = phase
    BY <2>1 DEF sys_openat
  <2>4. tasks[p].current_fd \in Nat
    BY <1>0, <2>3 DEF CanCall, IsTask, Table, WellFormed, VecOf
  <2>5. errno' = "none" /\ OwnErrors'
    <3>1. tasks[p].current_fd # -1
      BY <2>4
    <3> QED
      BY <1>0, <2>2, <2>3, <3>1, CallRecords, Dispatched
  <2>6. \A k \in TaskIds : tasks'[k].state = tasks[k].state
    BY <1>0, <2>2, StateStays
  <2> QED
    BY <2>3, <2>5, <2>6, CallKeepsErrors
<1>5. ASSUME NEW p \in TaskIds, NEW fd, NEW op \in {"read", "write", "seek"}, NEW derefs, NEW r,
             NEW error, FileCall(p, fd, op, derefs, r, error)
      PROVE  ErrorsInv'
  <2>1. /\ CanCall(p) /\ phase' = phase /\ tasks' = tasks
        /\ syscall_dispatch(Call(op), error, r.ret)
    BY <1>5 DEF FileCall
  <2>2. errno' = "none" /\ OwnErrors'
    BY <1>0, <2>1, CallRecords, Dispatched
  <2> QED
    BY <2>1, <2>2, CallKeepsErrors
<1>6. CASE Read
  <2>1. \E p \in TaskIds, fd \in Fds : \E r : FileCall(p, fd, "read", TRUE, r, "none")
    <3>1. PICK p \in TaskIds, fd \in Fds, n \in Counts, b \in BOOLEAN, l \in Lines :
             sys_read(p, fd, n, b, l)
      BY <1>6 DEF Read
    <3>2. \E r : FileCall(p, fd, "read", TRUE, r, "none")
      BY <3>1 DEF sys_read
    <3> QED
      BY <3>2
  <2> QED
    BY <1>5, <2>1
<1>7. CASE Write
  <2>1. \E p \in TaskIds, fd \in Fds : \E r : FileCall(p, fd, "write", TRUE, r, "none")
    BY <1>7, Zenon DEF Write, sys_write
  <2> QED
    BY <1>5, <2>1
<1>8. CASE Seek
  <2>1. \E p \in TaskIds, fd \in Fds : \E derefs, r, error :
           FileCall(p, fd, "seek", derefs, r, error)
    <3>1. PICK p \in TaskIds, fd \in Fds, s \in Seeks : sys_seek(p, fd, s[1], s[2])
      BY <1>8 DEF Seek
    <3>2. \E derefs, r, error : FileCall(p, fd, "seek", derefs, r, error)
      BY <3>1 DEF sys_seek
    <3> QED
      BY <3>2
  <2> QED
    BY <1>5, <2>1
<1>9. CASE Close
  <2>1. PICK p \in TaskIds, fd \in Fds : sys_close(p, fd)
    BY <1>9 DEF Close
  <2>2. /\ CanCall(p) /\ phase' = phase
        /\ \/ tasks' = tasks /\ errno' = errno /\ last' = last
           \/ \E cut, file, meant :
                 /\ tasks' = [tasks EXCEPT ![p] = CloseSlot(@, cut)]
                 /\ syscall_dispatch([Call("close") EXCEPT !.file = file, !.meant = meant], "none", 0)
    BY <2>1 DEF sys_close
  <2>3. CASE tasks' = tasks /\ errno' = errno /\ last' = last
    <3>1. OwnErrors'
      BY <2>3 DEF ErrorsInv, OwnErrors
    <3> QED
      BY <1>0, <2>2, <2>3, <3>1, CallKeepsErrors
  <2>4. ASSUME NEW cut, NEW file, NEW meant,
               tasks' = [tasks EXCEPT ![p] = CloseSlot(@, cut)],
               syscall_dispatch([Call("close") EXCEPT !.file = file, !.meant = meant], "none", 0)
        PROVE  ErrorsInv'
    <3> DEFINE c == [Call("close") EXCEPT !.file = file, !.meant = meant]
    <3>1. DOMAIN c = DOMAIN NoCall /\ c.op = "close" /\ syscall_dispatch(c, "none", 0)
      BY <2>4, CallRecords
    <3> HIDE DEF c
    <3>2. errno' = "none" /\ OwnErrors'
      <4>1. 0 # -1
        OBVIOUS
      <4> QED
        BY <1>0, <2>2, <3>1, <4>1, Dispatched, Zenon
    <3>3. \A k \in TaskIds : tasks'[k].state = tasks[k].state
      BY <1>0, <2>4, StateStays
    <3> QED
      BY <2>2, <3>2, <3>3, CallKeepsErrors
  <2> QED
    BY <2>2, <2>3, <2>4
<1>10. CASE Exit
  <2>1. PICK p \in TaskIds : sys_exit(p)
    BY <1>10 DEF Exit
  <2>2. /\ CanCall(p) /\ phase' = phase /\ errno' = errno /\ last' = NoCall
        /\ tasks' = [tasks EXCEPT ![p] = Exited(tasks[p])]
    BY <2>1 DEF sys_exit, bootVars
  <2>3. OwnErrors'
    BY <2>2 DEF OwnErrors, NoCall
  <2>4. Exited(tasks[p]).state = "dead"
    BY <1>0, Known, ExitedTask
  <2>5. \A k \in TaskIds : tasks'[k].state = "unborn" => tasks[k].state = "unborn"
    BY <1>0, <2>2, <2>4
  <2> QED
    BY <1>0, <2>2, <2>3, <2>5, CallKeepsErrors
<1>11. CASE Execve
  <2>1. PICK p \in TaskIds, q \in TaskIds : sys_execve(p, q)
    BY <1>11 DEF Execve
  <2>2. /\ CanCall(p) /\ sched_new_elf_process(q, FALSE)
        /\ syscall_dispatch(Call("execve"), "none", 0)
    BY <2>1 DEF sys_execve
  <2>3. errno' = "none" /\ OwnErrors'
    BY <1>0, <2>2, CallRecords, Dispatched
  <2>4. /\ phase' = phase
        /\ \/ tasks' = tasks
           \/ tasks' = [tasks EXCEPT ![q] = [NoDescriptors EXCEPT !.state = "alive"]]
    BY <2>2 DEF sched_new_elf_process
  <2>5. [NoDescriptors EXCEPT !.state = "alive"].state = "alive"
    BY DEF NoDescriptors
  <2>6. \A k \in TaskIds : tasks'[k].state = "unborn" => tasks[k].state = "unborn"
    BY <1>0, <2>4, <2>5
  <2> QED
    BY <2>2, <2>3, <2>4, <2>6, CallKeepsErrors
<1>12. CASE Idle
  BY <1>1, <1>12 DEF Idle
<1> QED
  BY <1>1, <1>2, <1>3, <1>4, <1>6, <1>7, <1>8, <1>9, <1>10, <1>11, <1>12 DEF Next

\* If the boot has left no error, a call reports an error if and only if it made
\* one: syscall_dispatch clears errno on every path.
THEOREM ErrorsAreOwn == Spec /\ []CleanBoot => []OwnErrors
<1>1. Init => ErrorsInv
  BY FilesAssumption DEF Init, ErrorsInv, OwnErrors, NoDescriptors, NoCall
<1>2. FilesInv /\ CleanBoot /\ ErrorsInv /\ [Next]_vars => ErrorsInv'
  BY ErrorsStep
<1>3. Spec => []FilesInv
  BY Invariants, PTL
<1>4. ErrorsInv => OwnErrors
  BY DEF ErrorsInv
<1> QED
  BY <1>1, <1>2, <1>3, <1>4, PTL DEF Spec
=============================================================================
