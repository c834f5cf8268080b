----------------------------- MODULE ExecProofs -----------------------------
(* Proofs about Exec, for every list of arguments, every program and every   *)
(* size of memory: the stack pointer of a process is aligned, the physical   *)
(* pages of the processes stay apart (Exec implements AddressSpaces), the    *)
(* kernel's half is the same under every page map, and the regions of mmap   *)
(* stay fresh.                                                               *)
(*                                                                           *)
(* The tables are a forest in the physical pages: in every state there are   *)
(* an owner and a level for each page that fit what the tables hold.  own[f] *)
(* is the kernel, a process or Nobody, and lvl[f] is 4 for a page map, 3 to  *)
(* 1 for the tables below it and 0 for memory.                               *)
EXTENDS Exec, FiniteSetTheorems, WellFoundedInduction, TLAPS

AllArgs == {c.args : c \in Calls} \cup {InitArgs}

-----------------------------------------------------------------------------
(* The layout of the argument stack.                                        *)

\* The rounding of sched.c:216 leads to a multiple of 16.
LEMMA AlignedDistance ==
    ASSUME NEW d \in Nat
    PROVE  Align16(d) \in Nat /\ Align16(d) % 16 = 0
  <1>1. /\ (-d) % 16 \in 0..15
        /\ (d + ((-d) % 16)) % 16 = 0
    BY SMT
  <1> QED  BY <1>1, SMT DEF Align16

\* The padding of sched.c:223 makes the words end on a multiple of 16.
LEMMA AlignedWords ==
    ASSUME NEW args, nargs(args) \in Nat, nenv(args) \in Nat
    PROVE  /\ Pad(args) + 8 * WordCount(args) \in Nat
           /\ (Pad(args) + 8 * WordCount(args)) % 16 = 0
  <1> DEFINE n == nargs(args) + nenv(args)
  <1>1. n \in Nat  OBVIOUS
  <1>2. CASE n % 2 = 0
    <2>1. Pad(args) = 8  BY <1>1, <1>2, SMT DEF Pad
    <2> QED  BY <1>1, <1>2, <2>1, SMT DEF WordCount
  <1>3. CASE n % 2 = 1
    <2>1. Pad(args) = 0  BY <1>1, <1>3, SMT DEF Pad
    <2> QED  BY <1>1, <1>3, <2>1, SMT DEF WordCount
  <1> HIDE DEF n
  <1> QED  BY <1>1, <1>2, <1>3, SMT

\* The distance that sched.c:257 subtracts from rsp is a multiple of 16.
LEMMA AlignedSkip ==
    ASSUME NEW args \in AllArgs
    PROVE  Skip(args) \in Nat /\ Skip(args) % 16 = 0
  <1>1. nargs(args) \in Nat /\ nenv(args) \in Nat /\ StringBytes(args) \in Nat
    BY ArgsAssumption DEF AllArgs
  <1> DEFINE a == Align16(StringBytes(args))
             w == Pad(args) + 8 * WordCount(args)
  <1>2. a \in Nat /\ a % 16 = 0  BY <1>1, AlignedDistance
  <1>3. w \in Nat /\ w % 16 = 0  BY <1>1, AlignedWords
  <1>4. Pad(args) \in Nat /\ WordCount(args) \in Nat
    BY <1>1 DEF Pad, WordCount
  <1>5. Skip(args) = a + w
    BY <1>2, <1>4, SMT DEF Skip, WordsFrom
  <1> HIDE DEF a, w
  <1> QED  BY <1>2, <1>3, <1>5, SMT

-----------------------------------------------------------------------------
(* The stack pointer.                                                       *)

\* The inductive invariant: rsp is aligned from task_init on, not only when
\* the process is on the list, and the arguments are some exec's.
AlignInv ==
    /\ user_rsp \in [Task -> Int]
    /\ given \in [Task -> AllArgs]
    /\ \A t \in Task : user_rsp[t] % 16 = 0

\* Stacks end at a multiple of 16.
LEMMA AlignedTop == StackTop * PageSize \in Int /\ (StackTop * PageSize) % 16 = 0
  <1>1. PICK k \in Int : PageSize = 16 * k
    BY SizesAssumption, SMT
  <1>2. StackTop \in Int /\ StackTop * k \in Int
    BY LayoutAssumption, SMT
  <1>3. StackTop * PageSize = 16 * (StackTop * k)
    BY <1>1, <1>2, SMT
  <1> QED  BY <1>2, <1>3, SMT

\* task_init starts a stack at a page, which is aligned.
LEMMA TaskInitAligned ==
    ASSUME AlignInv, NEW path, NEW args \in AllArgs, NEW pages,
           TaskInit(path, args, pages)
    PROVE  AlignInv'
  <1>1. /\ user_rsp' = [user_rsp EXCEPT ![NextPid] = StackTop * PageSize]
        /\ given' = [given EXCEPT ![NextPid] = args]
    BY DEF TaskInit
  <1> QED  BY <1>1, AlignedTop DEF AlignInv

\* The strings and what comes below them keep the stack aligned.
LEMMA FillStackAligned ==
    ASSUME AlignInv, FillStack
    PROVE  AlignInv'
  <1> DEFINE t == job.new
  <1>1. given' = given
    BY DEF FillStack
  <1>2. CASE user_rsp' = user_rsp
    BY <1>1, <1>2 DEF AlignInv
  <1>3. CASE user_rsp' = [user_rsp EXCEPT ![t] = @ - Skip(given[t])]
    <2>1. CASE t \in Task
      <3>1. Skip(given[t]) \in Nat /\ Skip(given[t]) % 16 = 0
        BY <2>1, AlignedSkip DEF AlignInv
      <3>2. user_rsp[t] \in Int /\ user_rsp[t] % 16 = 0
        BY <2>1 DEF AlignInv
      <3>3. /\ user_rsp[t] - Skip(given[t]) \in Int
            /\ (user_rsp[t] - Skip(given[t])) % 16 = 0
        BY <3>1, <3>2, SMT
      <3> HIDE DEF t
      <3> QED  BY <1>1, <1>3, <2>1, <3>3 DEF AlignInv
    <2>2. CASE t \notin Task
      BY <1>1, <1>3, <2>2 DEF AlignInv
    <2> QED  BY <2>1, <2>2
  <1> QED  BY <1>2, <1>3, Zenon DEF FillStack

\* Every step keeps the stack pointers aligned; only TaskInit and FillStack
\* set one.
LEMMA StepAligned ==
    ASSUME AlignInv, [Next]_vars
    PROVE  AlignInv'
  <1>1. CASE UNCHANGED stacks
    BY <1>1 DEF AlignInv, stacks
  <1>2. ASSUME NEW pages \in JunkPages, FirstProcess(pages)
        PROVE  AlignInv'
    BY <1>2, TaskInitAligned DEF FirstProcess, AllArgs
  <1>3. ASSUME NEW pages \in JunkPages, NEW c \in Calls,
               SysExecve(c.path, c.args, pages)
        PROVE  AlignInv'
    <2>1. TaskInit(c.path, c.args, pages)  BY <1>3 DEF SysExecve
    <2>2. c.args \in AllArgs  BY DEF AllArgs
    <2> QED  BY <2>1, <2>2, TaskInitAligned
  <1>4. CASE Load
    <2>1. CASE FillStack  BY <2>1, FillStackAligned
    <2>2. CASE ~FillStack
      BY <1>1, <1>4, <2>2, Zenon
      DEF Load, OpenFile, LoadSegment, InterpreterHeader, PhdrHeader, OtherHeader,
          EndLoad, Push
    <2> QED  BY <2>1, <2>2
  <1>5. ASSUME NEW t \in Task,
               \/ \E virt, n, fixed : Mmap(t, virt, n, fixed)
               \/ CallUnfinished(t)
               \/ \E freed : SysExit(t, freed)
               \/ Switch(t)
        PROVE  AlignInv'
    BY <1>1, <1>5, Zenon DEF Mmap, CallUnfinished, SysExit, Switch
  <1>6. CASE \/ NewKernelPagemap \/ MapWindows \/ NextWindow \/ LoadPagemap
             \/ SwitchToDead \/ NoProcess \/ MmapAstray
    BY <1>1, <1>6, Zenon
    DEF NewKernelPagemap, MapWindows, NextWindow, LoadPagemap, SwitchToDead, NoProcess,
        MmapAstray
  <1>7. CASE UNCHANGED vars
    BY <1>1, <1>7 DEF vars
  <1> QED
    BY <1>2, <1>3, <1>4, <1>5, <1>6, <1>7, Zenon
    DEF Next, SysMmap, SysMmapFixed, Idle

\* The comment of sched.c:218, for every program, every list of arguments and
\* every interleaving: a process starts with rsp a multiple of 16.
THEOREM StacksAreAligned == Spec => []StackAligned
  <1>1. Init => AlignInv
    BY SMT DEF Init, AlignInv, AllArgs
  <1>2. AlignInv /\ [Next]_vars => AlignInv'
    BY StepAligned
  <1>3. AlignInv => StackAligned
    BY DEF AlignInv, StackAligned
  <1> QED  BY <1>1, <1>2, <1>3, PTL DEF Spec
-----------------------------------------------------------------------------
(* Who owns a physical page.  The proofs about address spaces carry two      *)
(* functions that the program does not have: own names the process that a    *)
(* physical page was given to, Kern for the tables of vmm_initialize, and    *)
(* lvl is 4 for a page map, 3 to 1 for the tables below it and 0 for memory. *)

Kern == -1
Nobody == -2

Owner == Task \cup {Kern, Nobody}
IsGhost(own, lvl) == own \in [Frame -> Owner] /\ lvl \in [Frame -> 0..4]

Rights(t) == IF t = Kern THEN KernelFlags ELSE UserFlags

\* An entry that leads to a page of the same owner.  The last level of the
\* kernel's tables leads anywhere, and the upper half of the page map of a
\* process to the kernel's tables.
Slot(own, lvl, f, i) ==
    /\ own[f] # Nobody
    /\ lvl[f] # 0
    /\ own[f] = Kern => lvl[f] # 1
    /\ own[f] # Kern /\ lvl[f] = 4 => i < Fan \div 2

Edge(mem1, own, lvl, f, i) == Slot(own, lvl, f, i) /\ Present(mem1[f][i])

\* Tables form trees: an entry leads one level down, and no other leads there.
Tree(mem1, own, lvl) ==
    \A f \in Frame, i \in Index :
        Edge(mem1, own, lvl, f, i) =>
            /\ mem1[f][i].flags = Rights(own[f])
            /\ own[mem1[f][i].frame] = own[f]
            /\ lvl[mem1[f][i].frame] = lvl[f] - 1

Lone(mem1, own, lvl) ==
    \A f, g \in Frame, i, j \in Index :
        /\ Edge(mem1, own, lvl, f, i) /\ Edge(mem1, own, lvl, g, j)
        /\ mem1[f][i].frame = mem1[g][j].frame
        => f = g /\ i = j

\* No entry leads to the page.
Orphan(mem1, own, lvl, c) ==
    \A f \in Frame, i \in Index :
        Edge(mem1, own, lvl, f, i) => mem1[f][i].frame # c

IsMemory(mem1) == mem1 \in [Frame -> [Index -> Entry]]

Put(mem1, f, i, e) == [mem1 EXCEPT ![f][i] = e]

Zeroed(mem1, G) == [f \in Frame |-> IF f \in G THEN ZeroTable ELSE mem1[f]]

\* The pages of G get an owner and a level.
Named(own, G, t) == [f \in Frame |-> IF f \in G THEN t ELSE own[f]]

\* Present entries are the ones with rights.
LEMMA Flags ==
    /\ ~Present(NoEntry)
    /\ \A e \in Entry : Present(e) <=> e.flags # 0
    /\ NoEntry \in Entry
    /\ \A c \in Frame : \A t : [frame |-> c, flags |-> Rights(t)] \in Entry
  <1>1. 0 % 2 = 0 /\ 3 % 2 = 1 /\ 7 % 2 = 1
    BY SMT
  <1>2. 0 \in Frame
    BY SizesAssumption DEF Frame
  <1> QED
    BY <1>1, <1>2 DEF Present, NoEntry, Entry, KernelFlags, UserFlags, Rights

\* What an update writes.
LEMMA PutEntry ==
    ASSUME NEW mem1, IsMemory(mem1), NEW f \in Frame, NEW i \in Index, NEW e \in Entry
    PROVE  /\ IsMemory(Put(mem1, f, i, e))
           /\ Put(mem1, f, i, e)[f][i] = e
           /\ \A g \in Frame, j \in Index :
                 g # f \/ j # i => Put(mem1, f, i, e)[g][j] = mem1[g][j]
           /\ \A g \in Frame : g # f => Put(mem1, f, i, e)[g] = mem1[g]
  BY DEF IsMemory, Put

\* What the memset of pmm_allocate_zero writes.
LEMMA ZeroedEntries ==
    ASSUME NEW mem1, IsMemory(mem1), NEW G \in SUBSET Frame
    PROVE  /\ IsMemory(Zeroed(mem1, G))
           /\ \A g \in Frame \ G : Zeroed(mem1, G)[g] = mem1[g]
           /\ \A g \in G, j \in Index : Zeroed(mem1, G)[g][j] = NoEntry
  BY Flags DEF IsMemory, Zeroed, ZeroTable

\* Pages that nobody owns can be given to anybody.
LEMMA ZeroedTrees ==
    ASSUME NEW mem1, IsMemory(mem1), NEW own, NEW lvl, IsGhost(own, lvl),
           Tree(mem1, own, lvl), Lone(mem1, own, lvl),
           NEW G \in SUBSET Frame, \A g \in G : own[g] = Nobody,
           NEW t \in Owner \ {Nobody}, NEW k \in 0..4
    PROVE  LET mem2 == Zeroed(mem1, G)
               own2 == Named(own, G, t)
               lvl2 == Named(lvl, G, k)
           IN  /\ IsGhost(own2, lvl2)
               /\ Tree(mem2, own2, lvl2) /\ Lone(mem2, own2, lvl2)
               /\ \A g \in G : /\ own2[g] = t /\ lvl2[g] = k
                               /\ Orphan(mem2, own2, lvl2, g)
               /\ \A g \in Frame \ G : own2[g] = own[g] /\ lvl2[g] = lvl[g]
               /\ \A c \in Frame : Orphan(mem1, own, lvl, c) => Orphan(mem2, own2, lvl2, c)
<1> DEFINE mem2 == Zeroed(mem1, G)
           own2 == Named(own, G, t)
           lvl2 == Named(lvl, G, k)
<1>1. IsGhost(own2, lvl2)
  BY DEF IsGhost, Named
<1>2. /\ \A g \in G : own2[g] = t /\ lvl2[g] = k
      /\ \A g \in Frame \ G : own2[g] = own[g] /\ lvl2[g] = lvl[g]
  BY DEF Named
<1>3. /\ IsMemory(mem2)
      /\ \A g \in Frame \ G : mem2[g] = mem1[g]
      /\ \A g \in G, j \in Index : mem2[g][j] = NoEntry
  BY ZeroedEntries
<1> HIDE DEF mem2, own2, lvl2
<1>4. ASSUME NEW f \in Frame, NEW i \in Index, Edge(mem2, own2, lvl2, f, i)
      PROVE  f \notin G /\ mem2[f] = mem1[f] /\ Edge(mem1, own, lvl, f, i)
  <2>1. f \notin G
    BY <1>3, <1>4, Flags DEF Edge
  <2> QED
    BY <1>2, <1>3, <1>4, <2>1 DEF Edge, Slot
<1>5. \A f \in Frame, i \in Index : mem1[f][i] \in Entry /\ mem1[f][i].frame \in Frame
  BY DEF IsMemory, Entry
<1>6. ASSUME NEW f \in Frame, NEW i \in Index, Edge(mem2, own2, lvl2, f, i)
      PROVE  mem2[f][i].frame \in Frame \ G
  <2>1. Edge(mem1, own, lvl, f, i) /\ mem2[f][i] = mem1[f][i]
    BY <1>4, <1>6
  <2>2. own[mem1[f][i].frame] # Nobody
    BY <2>1 DEF Tree, Edge, Slot
  <2> QED
    BY <1>5, <2>1, <2>2
<1>7. Tree(mem2, own2, lvl2)
  BY <1>2, <1>4, <1>6 DEF Tree
<1>8. Lone(mem2, own2, lvl2)
  BY <1>4 DEF Lone
<1>9. \A g \in G : Orphan(mem2, own2, lvl2, g)
  BY <1>6 DEF Orphan
<1>10. \A c \in Frame : Orphan(mem1, own, lvl, c) => Orphan(mem2, own2, lvl2, c)
  BY <1>4 DEF Orphan
<1> QED
  BY <1>1, <1>2, <1>7, <1>8, <1>9, <1>10 DEF mem2, own2, lvl2

\* An entry may lead to a page of the same owner that no other entry leads to.
LEMMA PutTrees ==
    ASSUME NEW mem1, IsMemory(mem1), NEW own, NEW lvl, IsGhost(own, lvl),
           Tree(mem1, own, lvl), Lone(mem1, own, lvl),
           NEW f \in Frame, NEW i \in Index, Slot(own, lvl, f, i),
           NEW c \in Frame, own[c] = own[f], lvl[c] = lvl[f] - 1,
           Orphan(mem1, own, lvl, c)
    PROVE  LET mem2 == Put(mem1, f, i, [frame |-> c, flags |-> Rights(own[f])])
           IN  /\ IsMemory(mem2) /\ Tree(mem2, own, lvl) /\ Lone(mem2, own, lvl)
               /\ \A d \in Frame \ {c} :
                     Orphan(mem1, own, lvl, d) => Orphan(mem2, own, lvl, d)
<1> DEFINE e == [frame |-> c, flags |-> Rights(own[f])]
           mem2 == Put(mem1, f, i, e)
<1>1. e \in Entry /\ e.frame = c /\ e.flags = Rights(own[f])
  BY Flags
<1> HIDE DEF e
<1>2. /\ IsMemory(mem2) /\ mem2[f][i] = e
      /\ \A g \in Frame, j \in Index : g # f \/ j # i => mem2[g][j] = mem1[g][j]
  BY <1>1, PutEntry
<1> HIDE DEF mem2
<1>3. ASSUME NEW g \in Frame, NEW j \in Index, g # f \/ j # i, Edge(mem2, own, lvl, g, j)
      PROVE  Edge(mem1, own, lvl, g, j) /\ mem2[g][j] = mem1[g][j]
  BY <1>2, <1>3 DEF Edge
<1>4. Tree(mem2, own, lvl)
  BY <1>1, <1>2, <1>3 DEF Tree
<1>5. ASSUME NEW g \in Frame, NEW j \in Index, g # f \/ j # i, Edge(mem2, own, lvl, g, j)
      PROVE  mem2[g][j].frame # c
  BY <1>3, <1>5 DEF Orphan
<1>6. Lone(mem2, own, lvl)
  BY <1>1, <1>2, <1>3, <1>5 DEF Lone
<1>7. ASSUME NEW d \in Frame \ {c}, Orphan(mem1, own, lvl, d)
      PROVE  Orphan(mem2, own, lvl, d)
  BY <1>1, <1>2, <1>3, <1>7 DEF Orphan
<1> QED
  BY <1>2, <1>4, <1>6, <1>7 DEF mem2, e

\* An entry that leads to no page of the owner changes no tree.
LEMMA PutOutside ==
    ASSUME NEW mem1, IsMemory(mem1), NEW own, NEW lvl, IsGhost(own, lvl),
           Tree(mem1, own, lvl), Lone(mem1, own, lvl),
           NEW mem2, IsMemory(mem2),
           \A g \in Frame, j \in Index : Slot(own, lvl, g, j) => mem2[g][j] = mem1[g][j]
    PROVE  /\ Tree(mem2, own, lvl) /\ Lone(mem2, own, lvl)
           /\ \A d \in Frame : Orphan(mem1, own, lvl, d) => Orphan(mem2, own, lvl, d)
<1>1. \A g \in Frame, j \in Index :
         Edge(mem2, own, lvl, g, j) => Edge(mem1, own, lvl, g, j) /\ mem2[g][j] = mem1[g][j]
  BY DEF Edge
<1> QED
  BY <1>1 DEF Tree, Lone, Orphan

-----------------------------------------------------------------------------
(* The machine that the operators of PageTables pass on.                     *)

MachineFields == {"mem", "bytes", "used", "cr3", "table", "halt"}

IsMachine(m) ==
    /\ m = [x \in MachineFields |-> m[x]]
    /\ IsMemory(m.mem)
    /\ DOMAIN m.bytes \subseteq BytesOf(Frame)
    /\ m.used \subseteq Frame
    /\ m.cr3 \in Frame \cup {Loader}
    /\ m.table \in Frame
    /\ m.halt \in HaltReason

\* Pages with an owner are marked in the bitmap, and they form trees.
Held(m, own, lvl) ==
    /\ IsMachine(m)
    /\ IsGhost(own, lvl)
    /\ \A f \in Frame : own[f] # Nobody => f \in m.used
    /\ Tree(m.mem, own, lvl)
    /\ Lone(m.mem, own, lvl)

\* Pages keep their owners, and new ones are t's: they were free.
Kept(own, lvl, own2, lvl2) ==
    \A f \in Frame : own[f] # Nobody => own2[f] = own[f] /\ lvl2[f] = lvl[f]

NewFor(m, own, m2, own2, t) ==
    \A f \in Frame : own[f] = Nobody /\ own2[f] # Nobody =>
        own2[f] = t /\ f \notin m.used /\ BytesOf({f}) \cap DOMAIN m2.bytes = {}

\* Only tables of t change, and in them the entries of the user half.
OthersSame(mem1, own, mem2, t) ==
    \A f \in Frame : own[f] \notin {Nobody, t} => mem2[f] = mem1[f]

UpperSame(mem1, own, lvl, mem2, t) ==
    t # Kern => \A f \in Frame, i \in Index :
        own[f] = t /\ ~Slot(own, lvl, f, i) => mem2[f][i] = mem1[f][i]

\* What is present stays, above the last level as it is.
Stays(mem1, own, lvl, mem2, t) ==
    \A f \in Frame, i \in Index : own[f] = t /\ Present(mem1[f][i]) =>
        /\ Present(mem2[f][i])
        /\ lvl[f] # 1 => mem2[f][i] = mem1[f][i]

\* New pages of t lie on physical pages outside U.
FreshLeaves(mem1, own, lvl, mem2, own2, lvl2, t, U) ==
    t # Kern => \A f \in Frame, i \in Index :
        own2[f] = t /\ lvl2[f] = 1 /\ Present(mem2[f][i]) =>
            \/ own[f] = t /\ lvl[f] = 1 /\ mem2[f][i] = mem1[f][i]
            \/ mem2[f][i].frame \notin U

\* What an operation of the kernel on behalf of t may do to the machine.
Grew(m, own, lvl, m2, own2, lvl2, t, U) ==
    /\ Held(m2, own2, lvl2)
    /\ m.used \subseteq m2.used
    /\ DOMAIN m2.bytes \subseteq DOMAIN m.bytes
    /\ m2.cr3 = m.cr3
    /\ m2.halt = "none" => m.halt = "none"
    /\ Kept(own, lvl, own2, lvl2)
    /\ NewFor(m, own, m2, own2, t)
    /\ OthersSame(m.mem, own, m2.mem, t)
    /\ UpperSame(m.mem, own, lvl, m2.mem, t)
    /\ Stays(m.mem, own, lvl, m2.mem, t)
    /\ FreshLeaves(m.mem, own, lvl, m2.mem, own2, lvl2, t, U)

\* A step that leaves the memory and the owners alone.
LEMMA GrewSame ==
    ASSUME NEW m, NEW own, NEW lvl, Held(m, own, lvl), NEW m2, IsMachine(m2),
           m2.mem = m.mem, m2.used = m.used, m2.bytes = m.bytes, m2.cr3 = m.cr3,
           m2.halt = "none" => m.halt = "none", NEW t, NEW U
    PROVE  Grew(m, own, lvl, m2, own, lvl, t, U)
<1>1. Held(m2, own, lvl)
  BY DEF Held
<1>2. Kept(own, lvl, own, lvl) /\ NewFor(m, own, m2, own, t)
  BY DEF Kept, NewFor
<1>3. /\ OthersSame(m.mem, own, m2.mem, t)
      /\ UpperSame(m.mem, own, lvl, m2.mem, t)
      /\ Stays(m.mem, own, lvl, m2.mem, t)
      /\ FreshLeaves(m.mem, own, lvl, m2.mem, own, lvl, t, U)
  BY DEF OthersSame, UpperSame, Stays, FreshLeaves
<1> QED
  BY <1>1, <1>2, <1>3 DEF Grew

\* One operation after the other.
LEMMA GrewThen ==
    ASSUME NEW m, NEW own, NEW lvl, Held(m, own, lvl),
           NEW m2, NEW own2, NEW lvl2, NEW m3, NEW own3, NEW lvl3,
           NEW t \in Owner \ {Nobody}, NEW U, U \subseteq m.used,
           Grew(m, own, lvl, m2, own2, lvl2, t, U),
           Grew(m2, own2, lvl2, m3, own3, lvl3, t, U)
    PROVE  Grew(m, own, lvl, m3, own3, lvl3, t, U)
<1>1. Held(m2, own2, lvl2) /\ Held(m3, own3, lvl3)
  BY DEF Grew
<1>2. /\ Kept(own, lvl, own2, lvl2) /\ Kept(own2, lvl2, own3, lvl3)
      /\ NewFor(m, own, m2, own2, t) /\ NewFor(m2, own2, m3, own3, t)
      /\ m.used \subseteq m2.used /\ m2.used \subseteq m3.used
      /\ DOMAIN m2.bytes \subseteq DOMAIN m.bytes
      /\ DOMAIN m3.bytes \subseteq DOMAIN m2.bytes
      /\ m3.cr3 = m.cr3 /\ (m3.halt = "none" => m.halt = "none")
  BY DEF Grew
<1>3. Kept(own, lvl, own3, lvl3)
  BY <1>2 DEF Kept
<1>4. NewFor(m, own, m3, own3, t)
  <2> SUFFICES ASSUME NEW f \in Frame, own[f] = Nobody, own3[f] # Nobody
               PROVE  own3[f] = t /\ f \notin m.used /\ BytesOf({f}) \cap DOMAIN m3.bytes = {}
    BY DEF NewFor
  <2>1. CASE own2[f] = Nobody
    BY <1>2, <2>1 DEF NewFor
  <2>2. CASE own2[f] # Nobody
    BY <1>2, <2>2 DEF NewFor, Kept
  <2> QED
    BY <2>1, <2>2
<1>5. OthersSame(m.mem, own, m3.mem, t)
  <2>1. OthersSame(m.mem, own, m2.mem, t) /\ OthersSame(m2.mem, own2, m3.mem, t)
    BY DEF Grew
  <2> QED
    BY <1>2, <2>1 DEF OthersSame, Kept
<1>6. UpperSame(m.mem, own, lvl, m3.mem, t)
  <2>1. UpperSame(m.mem, own, lvl, m2.mem, t) /\ UpperSame(m2.mem, own2, lvl2, m3.mem, t)
    BY DEF Grew
  <2>2. \A f \in Frame, i \in Index :
           own[f] = t => own2[f] = t /\ (Slot(own, lvl, f, i) <=> Slot(own2, lvl2, f, i))
    BY <1>2 DEF Kept, Slot
  <2> QED
    BY <2>1, <2>2 DEF UpperSame
<1>7. Stays(m.mem, own, lvl, m3.mem, t)
  <2>1. Stays(m.mem, own, lvl, m2.mem, t) /\ Stays(m2.mem, own2, lvl2, m3.mem, t)
    BY DEF Grew
  <2>2. \A f \in Frame : own[f] = t => own2[f] = t /\ lvl2[f] = lvl[f]
    BY <1>2 DEF Kept
  <2> QED
    BY <2>1, <2>2 DEF Stays
<1>8. FreshLeaves(m.mem, own, lvl, m3.mem, own3, lvl3, t, U)
  <2>1. /\ FreshLeaves(m.mem, own, lvl, m2.mem, own2, lvl2, t, U)
        /\ FreshLeaves(m2.mem, own2, lvl2, m3.mem, own3, lvl3, t, U)
    BY DEF Grew
  <2> QED
    BY <2>1 DEF FreshLeaves
<1> QED
  BY <1>1, <1>2, <1>3, <1>4, <1>5, <1>6, <1>7, <1>8 DEF Grew

-----------------------------------------------------------------------------
(* The operations of pmm.c and vmm.c.                                        *)

\* The machine stops and nothing else happens.
LEMMA StopMachine ==
    ASSUME NEW m, IsMachine(m), NEW why \in HaltReason
    PROVE  /\ IsMachine(Stop(m, why)) /\ Stop(m, why).halt = why
           /\ Stop(m, why).mem = m.mem /\ Stop(m, why).used = m.used
           /\ Stop(m, why).bytes = m.bytes /\ Stop(m, why).cr3 = m.cr3
  BY DEF IsMachine, MachineFields, Stop

\* Another table is looked at.
LEMMA EnterMachine ==
    ASSUME NEW m, IsMachine(m), NEW f \in Frame
    PROVE  /\ IsMachine(Enter(m, f)) /\ Enter(m, f).table = f
           /\ Enter(m, f).mem = m.mem /\ Enter(m, f).used = m.used
           /\ Enter(m, f).bytes = m.bytes /\ Enter(m, f).cr3 = m.cr3
           /\ Enter(m, f).halt = m.halt
  BY DEF IsMachine, MachineFields, Enter

\* A halted machine, in the relation of the operations.
LEMMA GrewStop ==
    ASSUME NEW m, NEW own, NEW lvl, Held(m, own, lvl),
           NEW why \in HaltReason \ {"none"}, NEW t, NEW U
    PROVE  Grew(m, own, lvl, Stop(m, why), own, lvl, t, U) /\ Stop(m, why).halt # "none"
<1> DEFINE m2 == Stop(m, why)
<1>1. /\ IsMachine(m2) /\ m2.halt = why /\ m2.mem = m.mem /\ m2.used = m.used
      /\ m2.bytes = m.bytes /\ m2.cr3 = m.cr3
  BY StopMachine DEF Held
<1> HIDE DEF m2
<1>2. m2.halt # "none"
  BY <1>1
<1>3. Grew(m, own, lvl, m2, own, lvl, t, U)
  BY <1>1, <1>2, GrewSame
<1> QED
  BY <1>2, <1>3 DEF m2

\* A set of natural numbers that is not empty has a least element.
LEMMA LeastNumber ==
    ASSUME NEW S \in SUBSET Nat, S # {}
    PROVE  \E n \in S : \A k \in S : n <= k
<1>1. \E n \in S : \A k \in S : <<k, n>> \notin OpToRel(<, Nat)
  BY NatLessThanWellFounded, WFMin
<1>2. \A n, k \in Nat : <<k, n>> \notin OpToRel(<, Nat) => n <= k
  BY DEF OpToRel
<1> QED
  BY <1>1, <1>2, Zenon

\* pmm_allocate finds a free page if there is one.
LEMMA FirstFreeFree ==
    ASSUME NEW m, Free(m) # {}
    PROVE  FirstFree(m) \in Free(m) /\ FirstFree(m) \in Frame
<1>1. Free(m) \subseteq Frame /\ Free(m) \in SUBSET Nat
  BY DEF Free, Frame
<1>2. \E f \in Free(m) : \A g \in Free(m) : f <= g
  BY <1>1, LeastNumber
<1> QED
  BY <1>1, <1>2 DEF FirstFree

\* The machine with more pages given out.
LEMMA GiveMachine ==
    ASSUME NEW m, IsMachine(m), NEW G \in SUBSET Frame
    PROVE  /\ IsMachine(Give(m, G))
           /\ Give(m, G).mem = Zeroed(m.mem, G)
           /\ Give(m, G).used = m.used \cup G
           /\ DOMAIN Give(m, G).bytes = DOMAIN m.bytes \ BytesOf(G)
           /\ Give(m, G).cr3 = m.cr3 /\ Give(m, G).table = m.table
           /\ Give(m, G).halt = m.halt
<1> DEFINE m2 == Give(m, G)
<1>1. /\ m2 = [x \in MachineFields |-> m2[x]]
      /\ m2.mem = Zeroed(m.mem, G) /\ m2.used = m.used \cup G
      /\ m2.bytes = Clear(m.bytes, BytesOf(G))
      /\ m2.cr3 = m.cr3 /\ m2.table = m.table /\ m2.halt = m.halt
  BY DEF Give, IsMachine, MachineFields, Zeroed
<1>2. DOMAIN m2.bytes = DOMAIN m.bytes \ BytesOf(G)
  BY <1>1 DEF Clear
<1>3. IsMemory(m2.mem)
  BY <1>1, ZeroedEntries DEF IsMachine
<1> HIDE DEF m2
<1>4. IsMachine(m2)
  BY <1>1, <1>2, <1>3 DEF IsMachine
<1> QED
  BY <1>1, <1>2, <1>4 DEF m2

\* The tables that somebody owns are as they were.
SameTables(m, own, m2) == \A f \in Frame : own[f] # Nobody => m2.mem[f] = m.mem[f]

\* Giving free pages to t.
LEMMA GiveGrew ==
    ASSUME NEW m, NEW own, NEW lvl, Held(m, own, lvl),
           NEW G \in SUBSET Free(m), NEW t \in Owner \ {Nobody}, NEW k \in 0..4, NEW U
    PROVE  LET own2 == Named(own, G, t)
               lvl2 == Named(lvl, G, k)
               m2 == Give(m, G)
           IN  /\ Grew(m, own, lvl, m2, own2, lvl2, t, U)
               /\ \A g \in G : /\ own2[g] = t /\ lvl2[g] = k
                               /\ Orphan(m2.mem, own2, lvl2, g)
               /\ \A c \in Frame : Orphan(m.mem, own, lvl, c) => Orphan(m2.mem, own2, lvl2, c)
               /\ SameTables(m, own, m2)
<1> DEFINE own2 == Named(own, G, t)
           lvl2 == Named(lvl, G, k)
           m2 == Give(m, G)
<1>1. /\ IsMachine(m) /\ IsMemory(m.mem) /\ IsGhost(own, lvl)
      /\ Tree(m.mem, own, lvl) /\ Lone(m.mem, own, lvl)
      /\ \A f \in Frame : own[f] # Nobody => f \in m.used
  BY DEF Held, IsMachine
<1>2. G \in SUBSET Frame /\ \A g \in G : g \notin m.used /\ own[g] = Nobody
  BY <1>1 DEF Free
<1>3. /\ IsMachine(m2) /\ m2.mem = Zeroed(m.mem, G) /\ m2.used = m.used \cup G
      /\ DOMAIN m2.bytes = DOMAIN m.bytes \ BytesOf(G)
      /\ m2.cr3 = m.cr3 /\ m2.halt = m.halt
  BY <1>1, <1>2, GiveMachine
<1>4. /\ IsGhost(own2, lvl2)
      /\ Tree(m2.mem, own2, lvl2) /\ Lone(m2.mem, own2, lvl2)
      /\ \A g \in G : /\ own2[g] = t /\ lvl2[g] = k
                      /\ Orphan(m2.mem, own2, lvl2, g)
      /\ \A g \in Frame \ G : own2[g] = own[g] /\ lvl2[g] = lvl[g]
      /\ \A c \in Frame : Orphan(m.mem, own, lvl, c) => Orphan(m2.mem, own2, lvl2, c)
  BY <1>1, <1>2, <1>3, ZeroedTrees
<1>5. /\ \A g \in Frame \ G : m2.mem[g] = m.mem[g]
      /\ \A g \in G, j \in Index : m2.mem[g][j] = NoEntry
  BY <1>1, <1>2, <1>3, ZeroedEntries
<1> HIDE DEF own2, lvl2, m2
<1>6. Held(m2, own2, lvl2)
  BY <1>1, <1>3, <1>4 DEF Held
<1>7. Kept(own, lvl, own2, lvl2)
  BY <1>2, <1>4 DEF Kept
<1>8. NewFor(m, own, m2, own2, t)
  <2>1. \A f \in G : BytesOf({f}) \subseteq BytesOf(G)
    BY DEF BytesOf
  <2> QED
    BY <1>2, <1>3, <1>4, <2>1 DEF NewFor
<1>9. /\ OthersSame(m.mem, own, m2.mem, t)
      /\ UpperSame(m.mem, own, lvl, m2.mem, t)
      /\ Stays(m.mem, own, lvl, m2.mem, t)
      /\ SameTables(m, own, m2)
  <2>1. \A f \in Frame : own[f] # Nobody => m2.mem[f] = m.mem[f]
    BY <1>2, <1>5
  <2>2. t # Nobody
    OBVIOUS
  <2> QED
    BY <2>1, <2>2 DEF OthersSame, UpperSame, Stays, SameTables
<1>10. FreshLeaves(m.mem, own, lvl, m2.mem, own2, lvl2, t, U)
  BY <1>4, <1>5, Flags DEF FreshLeaves
<1>11. Grew(m, own, lvl, m2, own2, lvl2, t, U)
  BY <1>3, <1>6, <1>7, <1>8, <1>9, <1>10 DEF Grew
<1> QED
  BY <1>4, <1>9, <1>11 DEF own2, lvl2, m2

\* The pages g of t at level k, just given out.
Given(m2, own2, lvl2, G, t, k) ==
    \A g \in G : /\ g \in Frame /\ own2[g] = t /\ lvl2[g] = k
                 /\ Orphan(m2.mem, own2, lvl2, g)

\* Pages to which no entry leads stay so.
Orphans(m, own, lvl, m2, own2, lvl2, c) ==
    \A d \in Frame \ {c} :
        own[d] # Nobody /\ Orphan(m.mem, own, lvl, d) => Orphan(m2.mem, own2, lvl2, d)

\* pmm_allocate_zero on behalf of t.
LEMMA AllocateGrew ==
    ASSUME NEW m, NEW own, NEW lvl, Held(m, own, lvl), NEW n \in Nat,
           NEW t \in Owner \ {Nobody}, NEW k \in 0..4, NEW U, NEW c
    PROVE  \E own2, lvl2 :
              LET m2 == pmm_allocate_zero(m, n)
              IN  /\ Grew(m, own, lvl, m2, own2, lvl2, t, U)
                  /\ Orphans(m, own, lvl, m2, own2, lvl2, c)
                  /\ SameTables(m, own, m2)
                  /\ m2.halt = "none" =>
                        /\ Given(m2, own2, lvl2, Granted(m, n), t, k)
                        /\ Granted(m, n) \subseteq Free(m)
                        /\ m2.table = m.table
                        /\ FirstFree(m) \in Free(m)
<1> DEFINE m2 == pmm_allocate_zero(m, n)
<1>1. CASE m.halt # "none"
  <2>1. m2 = m
    BY <1>1 DEF pmm_allocate_zero
  <2>2. Grew(m, own, lvl, m2, own, lvl, t, U)
    BY <2>1, GrewSame DEF Held
  <2>3. Orphans(m, own, lvl, m2, own, lvl, c) /\ SameTables(m, own, m2)
    BY <2>1 DEF Orphans, SameTables
  <2> QED
    BY <1>1, <2>1, <2>2, <2>3
<1>2. ASSUME NEW why \in HaltReason \ {"none"}, m2 = Stop(m, why)
      PROVE  Grew(m, own, lvl, m2, own, lvl, t, U) /\ Orphans(m, own, lvl, m2, own, lvl, c)
             /\ m2.halt # "none" /\ SameTables(m, own, m2)
  <2>1. m2.mem = m.mem
    BY <1>2, StopMachine DEF Held
  <2>2. Grew(m, own, lvl, m2, own, lvl, t, U) /\ m2.halt # "none"
    BY <1>2, GrewStop
  <2> QED
    BY <2>1, <2>2 DEF Orphans, SameTables
<1>3. CASE m.halt = "none" /\ Free(m) # {} /\ Granted(m, n) \subseteq Free(m)
           /\ m2 = Give(m, Granted(m, n))
  <2> DEFINE G == Granted(m, n)
             own2 == Named(own, G, t)
             lvl2 == Named(lvl, G, k)
  <2>1. G \in SUBSET Free(m) /\ G \in SUBSET Frame /\ FirstFree(m) \in Free(m)
    BY <1>3, FirstFreeFree DEF Free
  <2> HIDE DEF G
  <2>2. /\ Grew(m, own, lvl, m2, own2, lvl2, t, U)
        /\ \A g \in G : /\ own2[g] = t /\ lvl2[g] = k
                        /\ Orphan(m2.mem, own2, lvl2, g)
        /\ \A d \in Frame : Orphan(m.mem, own, lvl, d) => Orphan(m2.mem, own2, lvl2, d)
        /\ SameTables(m, own, m2)
    <3>1. m2 = Give(m, G)
      BY <1>3 DEF G
    <3> HIDE DEF m2
    <3> QED
      BY <2>1, <3>1, GiveGrew
  <2>3. m2.table = m.table
    BY <1>3, <2>1, GiveMachine DEF Held, G
  <2> HIDE DEF own2, lvl2, m2
  <2>4. Given(m2, own2, lvl2, G, t, k) /\ Orphans(m, own, lvl, m2, own2, lvl2, c)
    BY <2>1, <2>2 DEF Given, Orphans
  <2>5. G \subseteq Free(m) /\ Grew(m, own, lvl, m2, own2, lvl2, t, U) /\ SameTables(m, own, m2)
    BY <2>1, <2>2
  <2> QED
    BY <2>1, <2>3, <2>4, <2>5 DEF G, m2
<1>4. \/ m.halt # "none"
      \/ \E why \in HaltReason \ {"none"} : m2 = Stop(m, why)
      \/ /\ m.halt = "none" /\ Free(m) # {} /\ Granted(m, n) \subseteq Free(m)
         /\ m2 = Give(m, Granted(m, n))
  BY DEF pmm_allocate_zero, HaltReason
<1> HIDE DEF m2
<1>5. CASE \E why \in HaltReason \ {"none"} : m2 = Stop(m, why)
  BY <1>2, <1>5 DEF m2
<1> QED
  BY <1>1, <1>3, <1>4, <1>5 DEF m2

\* One entry is written.
Written(mem1, mem2, f, i, e) ==
    /\ mem2[f][i] = e
    /\ \A g \in Frame, j \in Index : g # f \/ j # i => mem2[g][j] = mem1[g][j]
    /\ \A g \in Frame : g # f => mem2[g] = mem1[g]

\* The fields of the machine after it.
LEMMA SetMachine ==
    ASSUME NEW m, IsMachine(m), NEW i \in Index, NEW c \in Frame, NEW t
    PROVE  LET m2 == SetEntry(m, i, c, Rights(t))
               e == [frame |-> c, flags |-> Rights(t)]
           IN  /\ IsMachine(m2)
               /\ m2.mem = Put(m.mem, m.table, i, e)
               /\ Written(m.mem, m2.mem, m.table, i, e)
               /\ m2.used = m.used /\ m2.bytes = m.bytes /\ m2.cr3 = m.cr3
               /\ m2.table = m.table /\ m2.halt = m.halt
<1> DEFINE e == [frame |-> c, flags |-> Rights(t)]
           m2 == SetEntry(m, i, c, Rights(t))
           mem2 == Put(m.mem, m.table, i, e)
<1>1. e \in Entry /\ m.table \in Frame /\ IsMemory(m.mem)
  BY Flags DEF IsMachine
<1>2. m2 = [m EXCEPT !.mem = mem2]
  BY DEF SetEntry, Put, IsMachine, MachineFields
<1> HIDE DEF e
<1>3. IsMemory(mem2) /\ Written(m.mem, mem2, m.table, i, e)
  BY <1>1, PutEntry DEF Written
<1> HIDE DEF mem2, m2
<1>4. /\ m2 = [x \in MachineFields |-> m2[x]] /\ m2.mem = mem2
      /\ m2.used = m.used /\ m2.bytes = m.bytes /\ m2.cr3 = m.cr3
      /\ m2.table = m.table /\ m2.halt = m.halt
  BY <1>2 DEF IsMachine, MachineFields
<1>5. IsMachine(m2)
  BY <1>3, <1>4 DEF IsMachine
<1> QED
  BY <1>3, <1>4, <1>5 DEF m2, mem2, e

\* An entry of a table of t is made to lead to a page of t.
LEMMA LinkGrew ==
    ASSUME NEW m, NEW own, NEW lvl, Held(m, own, lvl), NEW t \in Owner \ {Nobody}, NEW U,
           NEW i \in Index, own[m.table] = t, Slot(own, lvl, m.table, i),
           NEW c \in Frame, own[c] = t, lvl[c] = lvl[m.table] - 1, Orphan(m.mem, own, lvl, c),
           IF lvl[m.table] = 1 THEN c \notin U ELSE ~Present(m.mem[m.table][i])
    PROVE  LET m2 == SetEntry(m, i, c, Rights(t))
           IN  /\ Grew(m, own, lvl, m2, own, lvl, t, U)
               /\ Orphans(m, own, lvl, m2, own, lvl, c)
               /\ Written(m.mem, m2.mem, m.table, i, [frame |-> c, flags |-> Rights(t)])
               /\ m2.halt = m.halt
<1> DEFINE e == [frame |-> c, flags |-> Rights(t)]
           m2 == SetEntry(m, i, c, Rights(t))
           f == m.table
<1>1. /\ IsMachine(m) /\ IsMemory(m.mem) /\ IsGhost(own, lvl) /\ f \in Frame
      /\ Tree(m.mem, own, lvl) /\ Lone(m.mem, own, lvl)
      /\ \A x \in Frame : own[x] # Nobody => x \in m.used
  BY DEF Held, IsMachine
<1>2. /\ IsMachine(m2) /\ m2.mem = Put(m.mem, f, i, e) /\ Written(m.mem, m2.mem, f, i, e)
      /\ m2.used = m.used /\ m2.bytes = m.bytes /\ m2.cr3 = m.cr3 /\ m2.halt = m.halt
  BY <1>1, SetMachine
<1>3. /\ Tree(m2.mem, own, lvl) /\ Lone(m2.mem, own, lvl)
      /\ \A d \in Frame \ {c} : Orphan(m.mem, own, lvl, d) => Orphan(m2.mem, own, lvl, d)
  <2> HIDE DEF m2, f
  <2> QED
    BY <1>1, <1>2, PutTrees DEF f
<1>4. Present(e) /\ e.frame = c /\ e \in Entry
  BY Flags DEF Rights, KernelFlags, UserFlags, Entry
<1> HIDE DEF m2, e
<1>5. Held(m2, own, lvl)
  BY <1>1, <1>2, <1>3 DEF Held
<1>6. Kept(own, lvl, own, lvl) /\ NewFor(m, own, m2, own, t)
  BY DEF Kept, NewFor
<1>7. OthersSame(m.mem, own, m2.mem, t)
  BY <1>2 DEF OthersSame, Written
<1>8. UpperSame(m.mem, own, lvl, m2.mem, t)
  BY <1>2 DEF UpperSame, Written
<1>9. Stays(m.mem, own, lvl, m2.mem, t)
  BY <1>2, <1>4 DEF Stays, Written
<1>10. FreshLeaves(m.mem, own, lvl, m2.mem, own, lvl, t, U)
  BY <1>2, <1>4 DEF FreshLeaves, Written
<1>11. Grew(m, own, lvl, m2, own, lvl, t, U)
  BY <1>2, <1>5, <1>6, <1>7, <1>8, <1>9, <1>10 DEF Grew
<1> QED
  BY <1>2, <1>3, <1>11 DEF m2, e, Orphans

\* The last level of the kernel's tables leads anywhere.
LEMMA KernelLeafGrew ==
    ASSUME NEW m, NEW own, NEW lvl, Held(m, own, lvl), NEW U, NEW i \in Index,
           own[m.table] = Kern, lvl[m.table] = 1, NEW c \in Frame
    PROVE  LET m2 == SetEntry(m, i, c, Rights(Kern))
           IN  /\ Grew(m, own, lvl, m2, own, lvl, Kern, U)
               /\ Orphans(m, own, lvl, m2, own, lvl, c)
               /\ Written(m.mem, m2.mem, m.table, i, [frame |-> c, flags |-> Rights(Kern)])
               /\ m2.halt = m.halt
<1> DEFINE e == [frame |-> c, flags |-> Rights(Kern)]
           m2 == SetEntry(m, i, c, Rights(Kern))
           f == m.table
<1>1. /\ IsMachine(m) /\ IsMemory(m.mem) /\ IsGhost(own, lvl) /\ f \in Frame
      /\ Tree(m.mem, own, lvl) /\ Lone(m.mem, own, lvl)
      /\ \A x \in Frame : own[x] # Nobody => x \in m.used
  BY DEF Held, IsMachine
<1>2. /\ IsMachine(m2) /\ Written(m.mem, m2.mem, f, i, e)
      /\ m2.used = m.used /\ m2.bytes = m.bytes /\ m2.cr3 = m.cr3 /\ m2.halt = m.halt
  BY <1>1, SetMachine
<1>3. /\ IsMemory(m2.mem)
      /\ \A g \in Frame, j \in Index : Slot(own, lvl, g, j) => m2.mem[g][j] = m.mem[g][j]
  BY <1>2 DEF Slot, Written, IsMachine
<1>4. /\ Tree(m2.mem, own, lvl) /\ Lone(m2.mem, own, lvl)
      /\ \A d \in Frame : Orphan(m.mem, own, lvl, d) => Orphan(m2.mem, own, lvl, d)
  <2> HIDE DEF m2, f
  <2> QED
    BY <1>1, <1>3, PutOutside
<1>5. Present(e)
  BY Flags DEF Rights, KernelFlags, UserFlags, Entry
<1> HIDE DEF m2, e
<1>6. Held(m2, own, lvl)
  BY <1>1, <1>2, <1>4 DEF Held
<1>7. Kept(own, lvl, own, lvl) /\ NewFor(m, own, m2, own, Kern)
  BY DEF Kept, NewFor
<1>8. /\ OthersSame(m.mem, own, m2.mem, Kern) /\ UpperSame(m.mem, own, lvl, m2.mem, Kern)
      /\ FreshLeaves(m.mem, own, lvl, m2.mem, own, lvl, Kern, U)
  BY <1>2 DEF OthersSame, UpperSame, FreshLeaves, Written
<1>9. Stays(m.mem, own, lvl, m2.mem, Kern)
  BY <1>2, <1>5 DEF Stays, Written
<1>10. Grew(m, own, lvl, m2, own, lvl, Kern, U)
  BY <1>2, <1>6, <1>7, <1>8, <1>9 DEF Grew
<1> QED
  BY <1>2, <1>4, <1>10 DEF m2, e, Orphans

\* Tables of the last level that t has are as they were.
LeavesSame(mem1, own, lvl, mem2, t) ==
    \A f \in Frame : own[f] = t /\ lvl[f] = 1 => mem2[f] = mem1[f]

\* From the table at m.table down to m2.table, through the i-th entry.
Descended(m, own, lvl, m2, own2, lvl2, t, i) ==
    /\ own2[m2.table] = t
    /\ lvl2[m2.table] = lvl[m.table] - 1
    /\ m2.mem[m.table][i] = [frame |-> m2.table, flags |-> Rights(t)]

\* get_next_level on behalf of t.
LEMMA NextLevelGrew ==
    ASSUME NEW m, NEW own, NEW lvl, Held(m, own, lvl), NEW t \in Owner \ {Nobody},
           NEW U, U \subseteq m.used, NEW base, NEW i \in Index, NEW c,
           m.halt = "none" =>
              own[m.table] = t /\ lvl[m.table] \in 2..4 /\ Slot(own, lvl, m.table, i)
    PROVE  \E own2, lvl2 :
              LET m2 == get_next_level(m, base, i, Rights(t))
              IN  /\ Grew(m, own, lvl, m2, own2, lvl2, t, U)
                  /\ Orphans(m, own, lvl, m2, own2, lvl2, c)
                  /\ LeavesSame(m.mem, own, lvl, m2.mem, t)
                  /\ m2.halt = "none" => Descended(m, own, lvl, m2, own2, lvl2, t, i)
<1> DEFINE m2 == get_next_level(m, base, i, Rights(t))
           f == m.table
           e == m.mem[f][i]
<1>1. /\ IsMachine(m) /\ IsMemory(m.mem) /\ f \in Frame /\ e \in Entry /\ e.frame \in Frame
      /\ Tree(m.mem, own, lvl)
  BY DEF Held, IsMachine, IsMemory, Entry
<1>2. ASSUME IsMachine(m2), m2.mem = m.mem, m2.used = m.used, m2.bytes = m.bytes,
             m2.cr3 = m.cr3, m2.halt = "none" => m.halt = "none",
             m2.halt = "none" => Descended(m, own, lvl, m2, own, lvl, t, i)
      PROVE  /\ Grew(m, own, lvl, m2, own, lvl, t, U)
             /\ Orphans(m, own, lvl, m2, own, lvl, c)
             /\ LeavesSame(m.mem, own, lvl, m2.mem, t)
             /\ m2.halt = "none" => Descended(m, own, lvl, m2, own, lvl, t, i)
  <2> HIDE DEF m2
  <2>1. Grew(m, own, lvl, m2, own, lvl, t, U)
    BY <1>2, GrewSame
  <2> QED
    BY <1>2, <2>1 DEF Orphans, LeavesSame
<1>3. CASE m.halt # "none"
  <2>1. m2 = m
    BY <1>3 DEF get_next_level
  <2> HIDE DEF m2
  <2> QED
    BY <1>1, <1>2, <1>3, <2>1 DEF m2
<1>4. CASE m2 = Stop(m, "fault")
  <2>1. /\ IsMachine(m2) /\ m2.mem = m.mem /\ m2.used = m.used /\ m2.bytes = m.bytes
        /\ m2.cr3 = m.cr3 /\ m2.halt = "fault"
    BY <1>1, <1>4, StopMachine DEF HaltReason
  <2> HIDE DEF m2
  <2> QED
    BY <1>2, <2>1 DEF m2
<1>5. CASE m.halt = "none" /\ Present(e) /\ m2 = Enter(m, e.frame)
  <2>1. /\ IsMachine(m2) /\ m2.mem = m.mem /\ m2.used = m.used /\ m2.bytes = m.bytes
        /\ m2.cr3 = m.cr3 /\ m2.halt = m.halt /\ m2.table = e.frame
    BY <1>1, <1>5, EnterMachine
  <2>2. e.flags = Rights(t) /\ own[e.frame] = t /\ lvl[e.frame] = lvl[f] - 1
    BY <1>1, <1>5 DEF Tree, Edge
  <2>3. e = [frame |-> e.frame, flags |-> e.flags]
    BY <1>1 DEF Entry
  <2> HIDE DEF m2, e
  <2>4. Descended(m, own, lvl, m2, own, lvl, t, i)
    BY <2>1, <2>2, <2>3 DEF Descended, e
  <2> QED
    BY <1>2, <1>5, <2>1, <2>4 DEF m2
<1>6. CASE m.halt = "none" /\ ~Present(e) /\ m2 = Link(m, pmm_allocate_zero(m, 1), i, Rights(t))
  <2> DEFINE m1 == pmm_allocate_zero(m, 1)
             g == FirstFree(m)
             k == lvl[f] - 1
             G == Granted(m, 1)
  <2>1. k \in 0..4 /\ k # 0 /\ t # Nobody /\ own[f] = t /\ lvl[f] = k + 1 /\ Slot(own, lvl, f, i)
    BY <1>6
  <2> HIDE DEF k
  <2>2. PICK own1, lvl1 :
          /\ Grew(m, own, lvl, m1, own1, lvl1, t, U)
          /\ Orphans(m, own, lvl, m1, own1, lvl1, c)
          /\ SameTables(m, own, m1)
          /\ m1.halt = "none" =>
                /\ Given(m1, own1, lvl1, G, t, k) /\ G \subseteq Free(m)
                /\ m1.table = f /\ g \in Free(m)
    BY <2>1, AllocateGrew
  <2>3. LeavesSame(m.mem, own, lvl, m1.mem, t)
    BY <2>1, <2>2 DEF LeavesSame, SameTables
  <2>4. CASE m1.halt # "none"
    <3>1. m2 = m1
      BY <1>6, <2>4 DEF Link
    <3> HIDE DEF m1, m2
    <3> QED
      BY <2>2, <2>3, <2>4, <3>1 DEF m2
  <2>5. CASE m1.halt = "none"
    <3> DEFINE m3 == SetEntry(m1, i, g, Rights(t))
    <3>1. m2 = Enter(m3, g)
      BY <1>6, <2>5 DEF Link
    <3>2. g \in Frame /\ g \in G
      BY <2>2, <2>5 DEF Granted, Free, Frame
    <3>3. own1[g] = t /\ lvl1[g] = k /\ Orphan(m1.mem, own1, lvl1, g)
      BY <2>2, <2>5, <3>2 DEF Given
    <3>4. Held(m1, own1, lvl1) /\ Kept(own, lvl, own1, lvl1) /\ m.used \subseteq m1.used
      BY <2>2 DEF Grew
    <3>5. /\ own1[m1.table] = t /\ lvl1[m1.table] = k + 1 /\ m1.table = f
          /\ m1.mem[m1.table] = m.mem[f]
      BY <1>1, <2>1, <2>2, <2>5, <3>4 DEF Kept, SameTables
    <3>6. Slot(own1, lvl1, m1.table, i) /\ ~Present(m1.mem[m1.table][i])
      BY <1>6, <2>1, <3>5 DEF Slot
    <3> HIDE DEF m1, m2, g, f, G
    <3>7. lvl1[g] = lvl1[m1.table] - 1 /\ lvl1[m1.table] # 1
      BY <2>1, <3>3, <3>5
    <3>8. /\ Grew(m1, own1, lvl1, m3, own1, lvl1, t, U)
          /\ Orphans(m1, own1, lvl1, m3, own1, lvl1, g)
          /\ Written(m1.mem, m3.mem, m1.table, i, [frame |-> g, flags |-> Rights(t)])
          /\ m3.halt = m1.halt
      BY <3>2, <3>3, <3>4, <3>5, <3>6, <3>7, LinkGrew
    <3>9. Grew(m, own, lvl, m3, own1, lvl1, t, U)
      BY <2>2, <3>8, GrewThen
    <3>10. Held(m3, own1, lvl1)
      BY <3>9 DEF Grew
    <3> HIDE DEF m3
    <3>11. /\ IsMachine(m2) /\ m2.mem = m3.mem /\ m2.used = m3.used /\ m2.bytes = m3.bytes
           /\ m2.cr3 = m3.cr3 /\ m2.halt = m3.halt /\ m2.table = g
      BY <3>1, <3>2, <3>10, EnterMachine DEF Held
    <3>12. Grew(m3, own1, lvl1, m2, own1, lvl1, t, U)
      BY <3>10, <3>11, GrewSame
    <3>13. Grew(m, own, lvl, m2, own1, lvl1, t, U)
      BY <3>9, <3>12, GrewThen
    <3>14. Descended(m, own, lvl, m2, own1, lvl1, t, i)
      BY <2>1, <3>3, <3>5, <3>8, <3>11 DEF Descended, Written, f
    <3>15. Orphans(m, own, lvl, m2, own1, lvl1, c)
      <4>1. ASSUME NEW d \in Frame \ {c}, own[d] # Nobody, Orphan(m.mem, own, lvl, d)
            PROVE  Orphan(m2.mem, own1, lvl1, d)
        <5>1. Orphan(m1.mem, own1, lvl1, d) /\ own1[d] # Nobody
          BY <2>2, <3>4, <4>1 DEF Orphans, Kept
        <5>2. g \in Free(m)
          BY <2>2, <2>5
        <5>3. d # g
          BY <4>1, <5>2 DEF Held, Free
        <5> QED
          BY <3>8, <3>11, <5>1, <5>3 DEF Orphans
      <4> QED
        BY <4>1 DEF Orphans
    <3>16. LeavesSame(m.mem, own, lvl, m2.mem, t)
      <4>1. ASSUME NEW x \in Frame, own[x] = t, lvl[x] = 1
            PROVE  m2.mem[x] = m.mem[x]
        <5>1. x # f
          BY <2>1, <4>1
        <5> QED
          BY <2>3, <3>5, <3>8, <3>11, <4>1, <5>1 DEF LeavesSame, Written
      <4> QED
        BY <4>1 DEF LeavesSame
    <3> QED
      BY <3>13, <3>14, <3>15, <3>16 DEF m2
  <2> HIDE DEF m1
  <2> QED
    BY <2>4, <2>5
<1>7. \/ m.halt # "none" \/ m2 = Stop(m, "fault")
      \/ m.halt = "none" /\ Present(e) /\ m2 = Enter(m, e.frame)
      \/ /\ m.halt = "none" /\ ~Present(e)
         /\ m2 = Link(m, pmm_allocate_zero(m, 1), i, Rights(t))
  BY DEF get_next_level
<1> HIDE DEF m2, e
<1> QED
  BY <1>3, <1>4, <1>5, <1>6, <1>7

\* The last entry of a walk, on behalf of t.
LEMMA SetLastGrew ==
    ASSUME NEW m, NEW own, NEW lvl, Held(m, own, lvl), NEW t \in Owner \ {Nobody}, NEW U,
           NEW i \in Index, NEW c \in Frame,
           m.halt = "none" =>
              /\ own[m.table] = t /\ lvl[m.table] = 1
              /\ t # Kern => own[c] = t /\ lvl[c] = 0 /\ Orphan(m.mem, own, lvl, c) /\ c \notin U
    PROVE  LET m2 == SetLast(m, i, c, Rights(t))
           IN  /\ Grew(m, own, lvl, m2, own, lvl, t, U)
               /\ Orphans(m, own, lvl, m2, own, lvl, c)
               /\ \/ m2.halt # "none" /\ m2.mem = m.mem
                  \/ Written(m.mem, m2.mem, m.table, i, [frame |-> c, flags |-> Rights(t)])
<1> DEFINE m2 == SetLast(m, i, c, Rights(t))
           m3 == SetEntry(m, i, c, Rights(t))
<1>1. CASE m.halt # "none"
  <2>1. m2 = m
    BY <1>1 DEF SetLast
  <2>2. Grew(m, own, lvl, m2, own, lvl, t, U)
    BY <2>1, GrewSame DEF Held
  <2> QED
    BY <1>1, <2>1, <2>2 DEF Orphans
<1>2. CASE m2 = Stop(m, "fault")
  <2>1. Grew(m, own, lvl, m2, own, lvl, t, U) /\ m2.halt # "none"
    BY <1>2, GrewStop DEF HaltReason
  <2>2. m2.mem = m.mem
    BY <1>2, StopMachine DEF Held, HaltReason
  <2> QED
    BY <2>1, <2>2 DEF Orphans
<1>3. CASE m.halt = "none" /\ m2 = m3
  <2>1. CASE t = Kern
    BY <1>3, <2>1, KernelLeafGrew
  <2>2. CASE t # Kern
    <3>1. Slot(own, lvl, m.table, i) /\ lvl[c] = lvl[m.table] - 1
      BY <1>3, <2>2 DEF Slot
    <3> HIDE DEF m2, m3
    <3>2. /\ Grew(m, own, lvl, m3, own, lvl, t, U)
          /\ Orphans(m, own, lvl, m3, own, lvl, c)
          /\ Written(m.mem, m3.mem, m.table, i, [frame |-> c, flags |-> Rights(t)])
      BY <1>3, <2>2, <3>1, LinkGrew DEF m3
    <3> QED
      BY <1>3, <3>2 DEF m2
  <2> QED
    BY <2>1, <2>2
<1>4. \/ m.halt # "none"
      \/ m2 = Stop(m, "fault")
      \/ m.halt = "none" /\ m2 = m3
  BY DEF SetLast
<1> QED
  BY <1>1, <1>2, <1>3, <1>4

\* A level of a walk picks an entry of a table.
LEMMA EntryIndex ==
    ASSUME NEW page \in Nat, NEW k \in 1..4
    PROVE  PML_ENTRY(page, k) \in Index
<1>1. Span[k] \in Nat \ {0}
  <2>1. Fan \in Nat \ {0}
    BY SizesAssumption
  <2>2. Fan * Fan \in Nat \ {0}
    BY <2>1
  <2>3. (Fan * Fan) * Fan \in Nat \ {0}
    <3> DEFINE s == Fan * Fan
    <3> HIDE DEF s
    <3>1. s * Fan \in Nat \ {0}
      BY <2>1, <2>2 DEF s
    <3> QED
      BY <3>1 DEF s
  <2> QED
    BY <2>1, <2>2, <2>3 DEF Span
<1> DEFINE s == Span[k]
           x == page \div s
<1> HIDE DEF s
<1>2. x \in Nat
  BY <1>1 DEF s
<1> HIDE DEF x
<1>3. x % Fan \in 0..Fan - 1
  BY <1>2, SizesAssumption
<1> QED
  BY <1>3 DEF PML_ENTRY, Index, x, s

Level(c, t) == [frame |-> c, flags |-> Rights(t)]

\* The tables a3, a2 and a1 of the levels 3 to 1 on the way to a page.
Path(mem1, map, page, t, a3, a2, a1) ==
    /\ mem1[map][PML_ENTRY(page, 4)] = Level(a3, t)
    /\ mem1[a3][PML_ENTRY(page, 3)] = Level(a2, t)
    /\ mem1[a2][PML_ENTRY(page, 2)] = Level(a1, t)

\* vmm_map leads to c, and leaves the other pages of t's tables alone.
MapsTo(m, own, lvl, m2, map, page, c, t) ==
    \E a3, a2, a1 \in Frame :
        /\ Path(m2.mem, map, page, t, a3, a2, a1)
        /\ m2.mem[a1][PML_ENTRY(page, 1)] = Level(c, t)
        /\ \A f \in Frame, i \in Index :
              own[f] = t /\ lvl[f] = 1 /\ (f # a1 \/ i # PML_ENTRY(page, 1)) =>
                  m2.mem[f][i] = m.mem[f][i]

\* The i-th entry of f leads to c.
Leads(m, f, i, c, t) == m.mem[f][i] = Level(c, t)

\* Tables above the last level keep their entries.
LEMMA GrewKeeps ==
    ASSUME NEW m, NEW own, NEW lvl, NEW m2, NEW own2, NEW lvl2, NEW t \in Owner \ {Nobody}, NEW U,
           Grew(m, own, lvl, m2, own2, lvl2, t, U),
           NEW f \in Frame, own[f] = t, lvl[f] # 1, NEW i \in Index, NEW c,
           Leads(m, f, i, c, t)
    PROVE  Leads(m2, f, i, c, t)
<1>1. Present(Level(c, t))
  BY DEF Present, Level, Rights, KernelFlags, UserFlags
<1> QED
  BY <1>1 DEF Grew, Stays, Leads

\* A page stays with its owner.
LEMMA GrewOwner ==
    ASSUME NEW m, NEW own, NEW lvl, NEW m2, NEW own2, NEW lvl2, NEW t, NEW U,
           Grew(m, own, lvl, m2, own2, lvl2, t, U),
           NEW f \in Frame, own[f] # Nobody
    PROVE  own2[f] = own[f] /\ lvl2[f] = lvl[f]
  BY DEF Grew, Kept

\* What vmm_map may be asked for on behalf of t.
MayMap(m, own, lvl, map, c, page, t, U) ==
    /\ map \in Frame /\ own[map] = t /\ lvl[map] = 4
    /\ c \in Frame /\ page \in Nat
    /\ t # Kern => /\ PML_ENTRY(page, 4) < Fan \div 2
                   /\ own[c] = t /\ lvl[c] = 0
                   /\ Orphan(m.mem, own, lvl, c) /\ c \notin U

\* Pages without entries, over two operations; -1 excepts no page.
LEMMA OrphansThen ==
    ASSUME NEW m, NEW own, NEW lvl, NEW m2, NEW own2, NEW lvl2, NEW m3, NEW own3, NEW lvl3,
           NEW t, NEW U, Grew(m, own, lvl, m2, own2, lvl2, t, U), NEW c,
           Orphans(m, own, lvl, m2, own2, lvl2, -1),
           Orphans(m2, own2, lvl2, m3, own3, lvl3, c)
    PROVE  Orphans(m, own, lvl, m3, own3, lvl3, c)
<1>1. -1 \notin Frame
  BY DEF Frame
<1> QED
  BY <1>1 DEF Orphans, Grew, Kept

\* vmm_map on behalf of t.
LEMMA MapGrew ==
    ASSUME NEW m, NEW own, NEW lvl, Held(m, own, lvl), NEW t \in Owner \ {Nobody},
           NEW U, U \subseteq m.used, NEW map, NEW c, NEW page,
           m.halt = "none" => MayMap(m, own, lvl, map, c, page, t, U),
           map \in Frame, c \in Frame, page \in Nat
    PROVE  \E own2, lvl2 :
              LET m2 == vmm_map(m, map, c, page, Rights(t))
              IN  /\ Grew(m, own, lvl, m2, own2, lvl2, t, U)
                  /\ Orphans(m, own, lvl, m2, own2, lvl2, c)
                  /\ m2.halt = "none" => MapsTo(m, own, lvl, m2, map, page, c, t)
<1> DEFINE i4 == PML_ENTRY(page, 4)
           i3 == PML_ENTRY(page, 3)
           i2 == PML_ENTRY(page, 2)
           i1 == PML_ENTRY(page, 1)
           m0 == Enter(m, map)
           m1 == get_next_level(m0, KernelBase, i4, Rights(t))
           m2 == get_next_level(m1, IoBase, i3, Rights(t))
           m3 == get_next_level(m2, IoBase, i2, Rights(t))
           m4 == SetLast(m3, i1, c, Rights(t))
<1>1. vmm_map(m, map, c, page, Rights(t)) = m4
  BY DEF vmm_map
<1>2. i4 \in Index /\ i3 \in Index /\ i2 \in Index /\ i1 \in Index
  BY EntryIndex
<1>3. /\ IsMachine(m0) /\ m0.table = map /\ m0.mem = m.mem /\ m0.used = m.used
      /\ m0.bytes = m.bytes /\ m0.cr3 = m.cr3 /\ m0.halt = m.halt
  BY EnterMachine DEF Held
<1>4. t # Nobody
  OBVIOUS
<1> HIDE DEF i4, i3, i2, i1, m0, m1, m2, m3, m4
<1>5. Grew(m, own, lvl, m0, own, lvl, t, U) /\ Held(m0, own, lvl) /\ U \subseteq m0.used
  <2>1. Grew(m, own, lvl, m0, own, lvl, t, U)
    BY <1>3, GrewSame
  <2> QED
    BY <1>3, <2>1 DEF Grew
<1>6. m0.halt = "none" =>
         /\ own[m0.table] = t /\ lvl[m0.table] \in 2..4 /\ lvl[m0.table] = 4
         /\ Slot(own, lvl, m0.table, i4)
  BY <1>3, <1>4 DEF MayMap, Slot, i4
<1>7. PICK own1, lvl1 :
        /\ Grew(m0, own, lvl, m1, own1, lvl1, t, U)
        /\ Orphans(m0, own, lvl, m1, own1, lvl1, -1)
        /\ LeavesSame(m0.mem, own, lvl, m1.mem, t)
        /\ m1.halt = "none" => Descended(m0, own, lvl, m1, own1, lvl1, t, i4)
  BY <1>2, <1>5, <1>6, NextLevelGrew DEF m1
<1>8. /\ Held(m1, own1, lvl1) /\ U \subseteq m1.used /\ m1.table \in Frame
      /\ m1.halt = "none" => m0.halt = "none"
  BY <1>5, <1>7 DEF Grew, Held, IsMachine
<1>9. m1.halt = "none" =>
         /\ own1[m1.table] = t /\ lvl1[m1.table] \in 2..4 /\ lvl1[m1.table] = 3
         /\ Slot(own1, lvl1, m1.table, i3)
         /\ m1.mem[map][i4] = Level(m1.table, t)
  BY <1>3, <1>4, <1>6, <1>7, <1>8 DEF Descended, Slot, Level
<1>10. PICK own2, lvl2 :
        /\ Grew(m1, own1, lvl1, m2, own2, lvl2, t, U)
        /\ Orphans(m1, own1, lvl1, m2, own2, lvl2, -1)
        /\ LeavesSame(m1.mem, own1, lvl1, m2.mem, t)
        /\ m2.halt = "none" => Descended(m1, own1, lvl1, m2, own2, lvl2, t, i3)
  BY <1>2, <1>8, <1>9, NextLevelGrew DEF m2
<1>11. /\ Held(m2, own2, lvl2) /\ U \subseteq m2.used /\ m2.table \in Frame
       /\ m2.halt = "none" => m1.halt = "none"
  BY <1>8, <1>10 DEF Grew, Held, IsMachine
<1>12. m2.halt = "none" =>
         /\ own2[m2.table] = t /\ lvl2[m2.table] \in 2..4 /\ lvl2[m2.table] = 2
         /\ Slot(own2, lvl2, m2.table, i2)
         /\ m2.mem[m1.table][i3] = Level(m2.table, t)
  BY <1>4, <1>9, <1>10, <1>11 DEF Descended, Slot, Level
<1>13. PICK own3, lvl3 :
        /\ Grew(m2, own2, lvl2, m3, own3, lvl3, t, U)
        /\ Orphans(m2, own2, lvl2, m3, own3, lvl3, -1)
        /\ LeavesSame(m2.mem, own2, lvl2, m3.mem, t)
        /\ m3.halt = "none" => Descended(m2, own2, lvl2, m3, own3, lvl3, t, i2)
  BY <1>2, <1>11, <1>12, NextLevelGrew DEF m3
<1>14. /\ Held(m3, own3, lvl3) /\ U \subseteq m3.used /\ m3.table \in Frame
       /\ m3.halt = "none" => m2.halt = "none"
  BY <1>11, <1>13 DEF Grew, Held, IsMachine
<1>15. m3.halt = "none" =>
         /\ own3[m3.table] = t /\ lvl3[m3.table] = 1
         /\ m3.mem[m2.table][i2] = Level(m3.table, t)
  BY <1>12, <1>13, <1>14 DEF Descended, Level
<1>16. Grew(m, own, lvl, m3, own3, lvl3, t, U) /\ Orphans(m, own, lvl, m3, own3, lvl3, -1)
  <2>1. Grew(m, own, lvl, m1, own1, lvl1, t, U)
    BY <1>5, <1>7, GrewThen
  <2>2. Grew(m, own, lvl, m2, own2, lvl2, t, U)
    BY <1>10, <2>1, GrewThen
  <2>3. Grew(m, own, lvl, m3, own3, lvl3, t, U)
    BY <1>13, <2>2, GrewThen
  <2>4. Orphans(m, own, lvl, m0, own, lvl, -1)
    BY <1>3 DEF Orphans
  <2>5. Orphans(m, own, lvl, m1, own1, lvl1, -1)
    BY <1>5, <1>7, <2>4, OrphansThen
  <2>6. Orphans(m, own, lvl, m2, own2, lvl2, -1)
    BY <1>10, <2>1, <2>5, OrphansThen
  <2>7. Orphans(m, own, lvl, m3, own3, lvl3, -1)
    BY <1>13, <2>2, <2>6, OrphansThen
  <2> QED
    BY <2>3, <2>7
<1>17. m3.halt = "none" /\ t # Kern =>
          own3[c] = t /\ lvl3[c] = 0 /\ Orphan(m3.mem, own3, lvl3, c) /\ c \notin U
  <2>1. SUFFICES ASSUME m3.halt = "none", t # Kern
                 PROVE  own3[c] = t /\ lvl3[c] = 0 /\ Orphan(m3.mem, own3, lvl3, c) /\ c \notin U
    OBVIOUS
  <2>2. own[c] = t /\ lvl[c] = 0 /\ Orphan(m.mem, own, lvl, c) /\ c \notin U
    BY <1>3, <1>8, <1>11, <1>14, <2>1 DEF MayMap
  <2>3. own3[c] = t /\ lvl3[c] = 0
    BY <1>4, <1>16, <2>2, GrewOwner
  <2>4. c # -1
    BY DEF Frame
  <2> QED
    BY <1>4, <1>16, <2>2, <2>3, <2>4 DEF Orphans
<1>18. /\ Grew(m3, own3, lvl3, m4, own3, lvl3, t, U)
       /\ Orphans(m3, own3, lvl3, m4, own3, lvl3, c)
       /\ \/ m4.halt # "none" /\ m4.mem = m3.mem
          \/ Written(m3.mem, m4.mem, m3.table, i1, [frame |-> c, flags |-> Rights(t)])
  BY <1>2, <1>14, <1>15, <1>17, SetLastGrew DEF m4
<1>19. Grew(m, own, lvl, m4, own3, lvl3, t, U) /\ Orphans(m, own, lvl, m4, own3, lvl3, c)
  BY <1>16, <1>18, GrewThen, OrphansThen
<1>20. ASSUME m4.halt = "none"
       PROVE  MapsTo(m, own, lvl, m4, map, page, c, t)
  <2>1. /\ m3.halt = "none" /\ m2.halt = "none" /\ m1.halt = "none" /\ m0.halt = "none"
    BY <1>8, <1>11, <1>14, <1>18, <1>20 DEF Grew
  <2>2. own[map] = t /\ lvl[map] = 4
    BY <1>3, <1>6, <2>1
  <2>3. own1[map] = t /\ lvl1[map] = 4
    BY <1>4, <1>7, <2>2, GrewOwner
  <2>4. own2[map] = t /\ lvl2[map] = 4 /\ own2[m1.table] = t /\ lvl2[m1.table] = 3
    BY <1>4, <1>8, <1>9, <1>10, <2>1, <2>3, GrewOwner
  <2>5. /\ own3[map] = t /\ lvl3[map] = 4 /\ own3[m1.table] = t /\ lvl3[m1.table] = 3
        /\ own3[m2.table] = t /\ lvl3[m2.table] = 2
    BY <1>4, <1>8, <1>11, <1>12, <1>13, <2>1, <2>4, GrewOwner
  <2>6. Leads(m2, map, i4, m1.table, t)
    <3>1. lvl1[map] # 1 /\ Leads(m1, map, i4, m1.table, t)
      BY <1>9, <2>1, <2>3 DEF Leads
    <3> QED
      BY <1>2, <1>10, <2>3, <3>1, GrewKeeps
  <2>7. /\ Leads(m3, map, i4, m1.table, t)
        /\ Leads(m3, m1.table, i3, m2.table, t)
    <3>1. lvl2[map] # 1 /\ lvl2[m1.table] # 1 /\ Leads(m2, m1.table, i3, m2.table, t)
      BY <1>12, <2>1, <2>4 DEF Leads
    <3>2. Leads(m3, map, i4, m1.table, t)
      BY <1>2, <1>13, <2>4, <2>6, <3>1, GrewKeeps
    <3>3. Leads(m3, m1.table, i3, m2.table, t)
      BY <1>2, <1>8, <1>13, <2>4, <3>1, GrewKeeps
    <3> QED
      BY <3>2, <3>3
  <2>8. /\ Leads(m4, map, i4, m1.table, t)
        /\ Leads(m4, m1.table, i3, m2.table, t)
        /\ Leads(m4, m2.table, i2, m3.table, t)
    <3>1. /\ lvl3[map] # 1 /\ lvl3[m1.table] # 1 /\ lvl3[m2.table] # 1
          /\ Leads(m3, m2.table, i2, m3.table, t)
      BY <1>15, <2>1, <2>5 DEF Leads
    <3>2. Leads(m4, map, i4, m1.table, t)
      BY <1>2, <1>18, <2>5, <2>7, <3>1, GrewKeeps
    <3>3. Leads(m4, m1.table, i3, m2.table, t)
      BY <1>2, <1>8, <1>18, <2>5, <2>7, <3>1, GrewKeeps
    <3>4. Leads(m4, m2.table, i2, m3.table, t)
      BY <1>2, <1>11, <1>18, <2>5, <3>1, GrewKeeps
    <3> QED
      BY <3>2, <3>3, <3>4
  <2>9. Path(m4.mem, map, page, t, m1.table, m2.table, m3.table)
    BY <2>8 DEF Path, Leads, i4, i3, i2
  <2>10. Written(m3.mem, m4.mem, m3.table, i1, Level(c, t))
    BY <1>18, <1>20 DEF Level
  <2>11. ASSUME NEW f \in Frame, own[f] = t, lvl[f] = 1
         PROVE  m3.mem[f] = m.mem[f]
    <3>1. m1.mem[f] = m.mem[f] /\ own1[f] = t /\ lvl1[f] = 1
      BY <1>3, <1>4, <1>7, <2>11, GrewOwner DEF LeavesSame
    <3>2. m2.mem[f] = m.mem[f] /\ own2[f] = t /\ lvl2[f] = 1
      BY <1>4, <1>10, <3>1, GrewOwner DEF LeavesSame
    <3> QED
      BY <1>13, <3>2 DEF LeavesSame
  <2>12. m4.mem[m3.table][i1] = Level(c, t)
    BY <2>10 DEF Written
  <2>13. \A f \in Frame, i \in Index :
            own[f] = t /\ lvl[f] = 1 /\ (f # m3.table \/ i # i1) => m4.mem[f][i] = m.mem[f][i]
    BY <2>10, <2>11 DEF Written
  <2> QED
    BY <1>8, <1>11, <1>14, <2>9, <2>12, <2>13 DEF MapsTo, i1
<1> QED
  BY <1>1, <1>19, <1>20

-----------------------------------------------------------------------------
(* Page numbers and the entries they pick.                                   *)

\* Products of natural numbers grow with a factor.
LEMMA TimesMonotone ==
    ASSUME NEW a \in Nat, NEW b \in Nat, NEW c \in Nat, a <= b
    PROVE  c * a \in Nat /\ c * b \in Nat /\ c * a <= c * b
<1>1. PICK d \in Nat : b = a + d
  <2>1. b - a \in Nat /\ b = a + (b - a)
    OBVIOUS
  <2> QED
    BY <2>1
<1>2. c * d \in Nat /\ c * a \in Nat /\ c * b = c * a + c * d
  BY <1>1, SMT
<1> QED
  BY <1>2

\* Division with remainder.
LEMMA Division ==
    ASSUME NEW a \in Nat, NEW b \in Nat \ {0}
    PROVE  /\ a \div b \in Nat /\ a % b \in 0..b - 1
           /\ b * (a \div b) \in Nat
           /\ a = b * (a \div b) + (a % b)
  BY SMT

\* It is unique.
LEMMA DivisionUnique ==
    ASSUME NEW b \in Nat \ {0}, NEW q \in Nat, NEW r \in Nat, r < b, NEW a \in Nat,
           a = b * q + r
    PROVE  a \div b = q /\ a % b = r
<1> DEFINE x == a \div b
           y == a % b
<1>1. x \in Nat /\ y \in 0..b - 1 /\ b * x \in Nat /\ a = b * x + y
  BY Division
<1> HIDE DEF x, y
<1>2. b * q \in Nat /\ b * (q + 1) = b * q + b /\ b * (x + 1) = b * x + b
  BY <1>1, SMT
<1> DEFINE bx == b * x
           bq == b * q
<1>3. ~(x < q)
  <2>1. SUFFICES ASSUME x < q PROVE FALSE
    OBVIOUS
  <2>2. x + 1 \in Nat /\ x + 1 <= q
    BY <1>1, <2>1
  <2>3. b * (x + 1) <= b * q
    BY <2>2, TimesMonotone
  <2>4. bx + b <= bq
    BY <1>2, <2>3
  <2>5. bx \in Nat /\ bq \in Nat /\ a = bx + y /\ a = bq + r
    BY <1>1, <1>2
  <2> HIDE DEF bx, bq
  <2> QED
    BY <1>1, <2>4, <2>5
<1>4. ~(q < x)
  <2>1. SUFFICES ASSUME q < x PROVE FALSE
    OBVIOUS
  <2>2. q + 1 \in Nat /\ q + 1 <= x
    BY <1>1, <2>1
  <2>3. b * (q + 1) <= b * x
    BY <1>1, <2>2, TimesMonotone
  <2>4. bq + b <= bx
    BY <1>2, <2>3
  <2>5. bx \in Nat /\ bq \in Nat /\ a = bx + y /\ a = bq + r
    BY <1>1, <1>2
  <2> HIDE DEF bx, bq
  <2> QED
    BY <1>1, <2>4, <2>5
<1>5. x = q
  BY <1>1, <1>3, <1>4
<1>6. y = r
  <2>1. a = bq + y /\ a = bq + r /\ bq \in Nat
    BY <1>1, <1>2, <1>5
  <2> HIDE DEF bq
  <2> QED
    BY <1>1, <2>1
<1> QED
  BY <1>5, <1>6 DEF x, y

\* Dividing twice.
LEMMA DivisionTwice ==
    ASSUME NEW a \in Nat, NEW b \in Nat \ {0}, NEW c \in Nat \ {0}
    PROVE  a \div (b * c) = (a \div b) \div c
<1> DEFINE x == a \div b
           r == a % b
           z == x \div c
           s == x % c
<1>1. x \in Nat /\ r \in 0..b - 1 /\ b * x \in Nat /\ a = b * x + r
  BY Division
<1> HIDE DEF x, r
<1>2. z \in Nat /\ s \in 0..c - 1 /\ c * z \in Nat /\ x = c * z + s
  BY <1>1, Division
<1> HIDE DEF z, s
<1>3. b * x = b * (c * z) + b * s /\ b * (c * z) = (b * c) * z
  BY <1>1, <1>2, SMT
<1>4. b * s <= b * (c - 1) /\ b * s \in Nat
  <2>1. s \in Nat /\ c - 1 \in Nat /\ s <= c - 1
    BY <1>2
  <2> QED
    BY <2>1, TimesMonotone
<1>5. b * (c - 1) = b * c - b /\ b * c \in Nat \ {0} /\ (b * c) * z \in Nat
  BY <1>2, SMT
<1> DEFINE bc == b * c
           w == b * s + r
           p == bc * z
<1>6. w \in Nat /\ w < bc /\ a = p + w /\ bc \in Nat \ {0} /\ p \in Nat
  <2> DEFINE bs == b * s
             bx == b * x
  <2>1. bx = p + bs /\ bs <= bc - b /\ bs \in Nat /\ p \in Nat /\ bc \in Nat \ {0} /\ a = bx + r
    BY <1>1, <1>3, <1>4, <1>5
  <2>2. w = bs + r
    OBVIOUS
  <2> HIDE DEF bs, bx, bc, p, w
  <2> QED
    BY <1>1, <2>1, <2>2
<1> HIDE DEF bc, w
<1>7. a \div bc = z
  BY <1>2, <1>6, DivisionUnique
<1> QED
  BY <1>7 DEF bc, z, x

\* The sizes of what lies below an entry.
LEMMA Spans ==
    /\ Fan \in Nat \ {0} /\ Fan * Fan \in Nat \ {0} /\ (Fan * Fan) * Fan \in Nat \ {0}
    /\ Span[1] = 1 /\ Span[2] = Fan /\ Span[3] = Fan * Fan /\ Span[4] = (Fan * Fan) * Fan
    /\ Fan \div 2 \in Nat /\ Fan \div 2 < Fan /\ Fan = 2 * (Fan \div 2)
<1>1. Fan \in Nat \ {0}
  BY SizesAssumption
<1>2. Fan * Fan \in Nat \ {0}
  BY <1>1
<1>3. (Fan * Fan) * Fan \in Nat \ {0}
  <2> DEFINE s == Fan * Fan
  <2> HIDE DEF s
  <2>1. s * Fan \in Nat \ {0}
    BY <1>1, <1>2 DEF s
  <2> QED
    BY <2>1 DEF s
<1>4. Span[1] = 1 /\ Span[2] = Fan /\ Span[3] = Fan * Fan /\ Span[4] = (Fan * Fan) * Fan
  BY DEF Span
<1>5. Fan \div 2 \in Nat /\ Fan \div 2 < Fan /\ Fan = 2 * (Fan \div 2)
  BY SizesAssumption
<1> QED
  BY <1>1, <1>2, <1>3, <1>4, <1>5

\* A page of the user half is below an entry of the lower half of a page map.
LEMMA UserEntry ==
    ASSUME NEW page \in UserPage
    PROVE  page \in Nat /\ PML_ENTRY(page, 4) < Fan \div 2
<1> DEFINE s == Span[4]
           h == Fan \div 2
           x == page \div s
<1>1. s \in Nat \ {0} /\ h \in Nat /\ h < Fan /\ Fan \in Nat
  BY Spans
<1> HIDE DEF s, h
<1>2. h * s \in Nat /\ s * h = h * s
  BY <1>1, SMT
<1>3. page \in Nat /\ page < h * s
  <2>1. page \in 0..h * s - 1
    BY DEF UserPage, s, h
  <2> DEFINE hs == h * s
  <2> HIDE DEF hs
  <2> QED
    BY <1>2, <2>1 DEF hs
<1>4. x \in Nat /\ page % s \in 0..s - 1 /\ s * x \in Nat /\ page = s * x + (page % s)
  BY <1>1, <1>3, Division
<1> HIDE DEF x
<1>5. ~(h <= x)
  <2>1. SUFFICES ASSUME h <= x PROVE FALSE
    OBVIOUS
  <2>2. s * h <= s * x
    BY <1>1, <1>4, <2>1, TimesMonotone
  <2> DEFINE sh == s * h
             sx == s * x
  <2>3. sh <= sx /\ page < sh /\ sx \in Nat /\ sh \in Nat /\ page = sx + (page % s)
    BY <1>2, <1>3, <1>4, <2>2
  <2> HIDE DEF sh, sx
  <2> QED
    BY <1>1, <1>3, <1>4, <2>3
<1>6. x % Fan = x
  BY <1>1, <1>4, <1>5, SMT
<1> QED
  BY <1>1, <1>3, <1>4, <1>5, <1>6 DEF PML_ENTRY, s, h, x

\* A page number, digit by digit.
Quotient(x) == x \div Fan

\* The entries on the way to a page are its digits.
LEMMA PageDigits ==
    ASSUME NEW x \in Page
    PROVE  LET x1 == Quotient(x)
               x2 == Quotient(x1)
               x3 == Quotient(x2)
           IN  /\ x \in Nat /\ x1 \in Nat /\ x2 \in Nat /\ x3 \in Nat
               /\ PML_ENTRY(x, 1) = x % Fan /\ PML_ENTRY(x, 2) = x1 % Fan
               /\ PML_ENTRY(x, 3) = x2 % Fan /\ PML_ENTRY(x, 4) = x3
               /\ x = Fan * x1 + (x % Fan)
               /\ x1 = Fan * x2 + (x1 % Fan)
               /\ x2 = Fan * x3 + (x2 % Fan)
<1> DEFINE x1 == x \div Fan
           x2 == x1 \div Fan
           x3 == x2 \div Fan
           s == Span[4]
<1>1. s \in Nat \ {0} /\ Fan \in Nat \ {0}
  BY Spans
<1>2. Fan * s \in Nat /\ x \in 0..Fan * s - 1
  <2>1. x \in 0..Fan * s - 1
    BY DEF Page
  <2> HIDE DEF s
  <2> QED
    BY <1>1, <2>1, SMT
<1>3. x \in Nat /\ x < Fan * s
  <2> DEFINE fs == Fan * s
  <2> HIDE DEF fs
  <2> QED
    BY <1>2 DEF fs
<1>4. x1 \in Nat /\ x = Fan * x1 + (x % Fan)
  BY <1>1, <1>3, Division
<1> HIDE DEF x1
<1>5. x2 \in Nat /\ x1 = Fan * x2 + (x1 % Fan)
  BY <1>1, <1>4, Division
<1> HIDE DEF x2
<1>6. x3 \in Nat /\ x2 = Fan * x3 + (x2 % Fan)
  BY <1>1, <1>5, Division
<1>7. x \div (Fan * Fan) = x2
  BY <1>1, <1>3, DivisionTwice DEF x1, x2
<1>8. x \div s = x3
  <2>1. x \div ((Fan * Fan) * Fan) = (x \div (Fan * Fan)) \div Fan
    <3> DEFINE ff == Fan * Fan
    <3>1. ff \in Nat \ {0}
      BY Spans
    <3> HIDE DEF ff
    <3>2. x \div (ff * Fan) = (x \div ff) \div Fan
      BY <1>1, <1>3, <3>1, DivisionTwice
    <3> QED
      BY <3>2 DEF ff
  <2>2. s = (Fan * Fan) * Fan
    BY Spans
  <2> HIDE DEF s, x3
  <2> QED
    BY <1>7, <2>1, <2>2 DEF x3
<1> HIDE DEF x3
<1>9. x3 < Fan
  <2>1. SUFFICES ASSUME Fan <= x3 PROVE FALSE
    BY <1>1, <1>6
  <2>2. s * (x \div s) \in Nat /\ x % s \in Nat /\ x = s * (x \div s) + (x % s)
    <3> HIDE DEF s
    <3>1. x % s \in 0..s - 1 /\ s * (x \div s) \in Nat /\ x = s * (x \div s) + (x % s)
      BY <1>1, <1>3, Division
    <3> QED
      BY <1>1, <3>1
  <2>3. s * Fan <= s * x3 /\ s * Fan = Fan * s /\ s * Fan \in Nat
    <3> HIDE DEF s
    <3>1. s * Fan <= s * x3
      BY <1>1, <1>6, <2>1, TimesMonotone
    <3>2. s * Fan = Fan * s /\ s * Fan \in Nat
      BY <1>1, SMT
    <3> QED
      BY <3>1, <3>2
  <2> DEFINE sf == s * Fan
             sx == s * x3
  <2>4. sf <= sx /\ x < sf /\ sx \in Nat /\ sf \in Nat /\ x = sx + (x % s)
    BY <1>3, <1>8, <2>2, <2>3
  <2> HIDE DEF sf, sx
  <2> QED
    BY <1>3, <2>2, <2>4
<1>10. x3 % Fan = x3
  BY <1>1, <1>6, <1>9, SMT
<1>11. x \div 1 = x
  BY <1>3
<1>12. /\ PML_ENTRY(x, 1) = x % Fan /\ PML_ENTRY(x, 2) = x1 % Fan
       /\ PML_ENTRY(x, 3) = x2 % Fan /\ PML_ENTRY(x, 4) = x3
  <2>1. PML_ENTRY(x, 1) = x % Fan
    BY <1>11, Spans DEF PML_ENTRY
  <2>2. PML_ENTRY(x, 2) = x1 % Fan
    BY Spans DEF PML_ENTRY, x1
  <2>3. PML_ENTRY(x, 3) = x2 % Fan
    BY <1>7, Spans, Zenon DEF PML_ENTRY
  <2>4. PML_ENTRY(x, 4) = x3
    BY <1>8, <1>10, Zenon DEF PML_ENTRY, s
  <2> QED
    BY <2>1, <2>2, <2>3, <2>4
<1> QED
  BY <1>3, <1>4, <1>5, <1>6, <1>12 DEF x1, x2, x3, Quotient

\* The four entries on the way to a page determine it.
LEMMA PagesApart ==
    ASSUME NEW p \in Page, NEW q \in Page,
           \A k \in 1..4 : PML_ENTRY(p, k) = PML_ENTRY(q, k)
    PROVE  p = q
<1>1. /\ PML_ENTRY(p, 1) = PML_ENTRY(q, 1) /\ PML_ENTRY(p, 2) = PML_ENTRY(q, 2)
      /\ PML_ENTRY(p, 3) = PML_ENTRY(q, 3) /\ PML_ENTRY(p, 4) = PML_ENTRY(q, 4)
  OBVIOUS
<1> DEFINE p1 == Quotient(p)
           p2 == Quotient(p1)
           p3 == Quotient(p2)
           q1 == Quotient(q)
           q2 == Quotient(q1)
           q3 == Quotient(q2)
<1>2. /\ p % Fan = q % Fan /\ p1 % Fan = q1 % Fan /\ p2 % Fan = q2 % Fan /\ p3 = q3
      /\ p = Fan * p1 + (p % Fan) /\ p1 = Fan * p2 + (p1 % Fan) /\ p2 = Fan * p3 + (p2 % Fan)
      /\ q = Fan * q1 + (q % Fan) /\ q1 = Fan * q2 + (q1 % Fan) /\ q2 = Fan * q3 + (q2 % Fan)
  BY <1>1, PageDigits
<1> HIDE DEF p1, p2, p3, q1, q2, q3
<1>3. p2 = q2
  BY <1>2
<1>4. p1 = q1
  BY <1>2, <1>3
<1> QED
  BY <1>2, <1>4

\* The page that four entries lead to.
PageOf(i4, i3, i2, i1) == ((i4 * Fan + i3) * Fan + i2) * Fan + i1

\* A number and one more digit.
LEMMA OneDigit ==
    ASSUME NEW y \in Nat, NEW i \in Index, NEW b \in Nat, y < b
    PROVE  /\ y * Fan + i \in Nat /\ y * Fan + i < b * Fan /\ b * Fan \in Nat
           /\ Quotient(y * Fan + i) = y /\ (y * Fan + i) % Fan = i
<1>1. Fan \in Nat \ {0} /\ i \in Nat /\ i < Fan
  BY Spans DEF Index
<1> DEFINE yf == Fan * y
           bf == Fan * b
           x == y * Fan + i
<1>2. y * Fan = yf /\ b * Fan = bf /\ yf \in Nat /\ bf \in Nat /\ Fan * (y + 1) = yf + Fan
  BY <1>1, SMT
<1>3. Fan * (y + 1) <= Fan * b
  <2>1. y + 1 \in Nat /\ y + 1 <= b
    OBVIOUS
  <2> QED
    BY <1>1, <2>1, TimesMonotone
<1>4. x = Fan * y + i
  BY <1>2
<1> HIDE DEF yf, bf
<1>5. x \in Nat /\ x < bf
  BY <1>1, <1>2, <1>3 DEF bf
<1> HIDE DEF x
<1>6. x \div Fan = y /\ x % Fan = i
  BY <1>1, <1>4, <1>5, DivisionUnique
<1> QED
  BY <1>2, <1>5, <1>6 DEF Quotient, x

\* Entries of the user half lead to pages of the user half.
LEMMA PageOfEntries ==
    ASSUME NEW i4 \in 0..Fan \div 2 - 1, NEW i3 \in Index, NEW i2 \in Index, NEW i1 \in Index
    PROVE  LET v == PageOf(i4, i3, i2, i1)
           IN  /\ v \in UserPage /\ v \in Page
               /\ PML_ENTRY(v, 4) = i4 /\ PML_ENTRY(v, 3) = i3
               /\ PML_ENTRY(v, 2) = i2 /\ PML_ENTRY(v, 1) = i1
<1> DEFINE h == Fan \div 2
           x3 == i4
           x2 == x3 * Fan + i3
           x1 == x2 * Fan + i2
           v == x1 * Fan + i1
           b2 == h * Fan
           b1 == b2 * Fan
           b == b1 * Fan
<1>1. Fan \in Nat /\ h \in Nat /\ i4 \in Nat /\ i4 < h /\ h < Fan
  BY Spans
<1> HIDE DEF h
<1>2. x2 \in Nat /\ x2 < b2 /\ b2 \in Nat /\ Quotient(x2) = x3 /\ x2 % Fan = i3
  BY <1>1, OneDigit
<1> HIDE DEF x2, b2
<1>3. x1 \in Nat /\ x1 < b1 /\ b1 \in Nat /\ Quotient(x1) = x2 /\ x1 % Fan = i2
  BY <1>2, OneDigit
<1> HIDE DEF x1, b1
<1>4. v \in Nat /\ v < b /\ b \in Nat /\ Quotient(v) = x1 /\ v % Fan = i1
  BY <1>3, OneDigit
<1>5. b = h * Span[4] /\ h * Span[4] <= Fan * Span[4] /\ Fan * Span[4] \in Nat
  <2>1. Span[4] = (Fan * Fan) * Fan /\ Span[4] \in Nat
    BY Spans
  <2>2. b = h * ((Fan * Fan) * Fan)
    BY <1>1, SMT DEF b1, b2
  <2>3. Span[4] * h <= Span[4] * Fan
    BY <1>1, <2>1, TimesMonotone
  <2> QED
    BY <1>1, <2>1, <2>2, <2>3, SMT
<1>6. v \in UserPage /\ v \in Page
  <2> DEFINE s == h * Span[4]
             w == Fan * Span[4]
  <2>1. s \in Nat /\ w \in Nat /\ v < s /\ s <= w
    BY <1>4, <1>5
  <2> HIDE DEF s, w, v
  <2>2. v \in 0..s - 1 /\ v \in 0..w - 1
    BY <1>4, <2>1
  <2> QED
    BY <2>2 DEF UserPage, Page, s, w, h
<1>7. v = PageOf(i4, i3, i2, i1)
  BY DEF PageOf, x1, x2
<1> HIDE DEF v
<1>8. /\ PML_ENTRY(v, 1) = v % Fan /\ PML_ENTRY(v, 2) = Quotient(v) % Fan
      /\ PML_ENTRY(v, 3) = Quotient(Quotient(v)) % Fan
      /\ PML_ENTRY(v, 4) = Quotient(Quotient(Quotient(v)))
  BY <1>6, PageDigits
<1> QED
  BY <1>2, <1>3, <1>4, <1>6, <1>7, <1>8

\* Every page of the user half is some entries' page.
LEMMA PageHasEntries ==
    ASSUME NEW v \in UserPage
    PROVE  /\ v \in Page /\ PML_ENTRY(v, 4) \in 0..Fan \div 2 - 1
           /\ v = PageOf(PML_ENTRY(v, 4), PML_ENTRY(v, 3), PML_ENTRY(v, 2), PML_ENTRY(v, 1))
<1>1. v \in Page
  <2> DEFINE s == (Fan \div 2) * Span[4]
             w == Fan * Span[4]
  <2>1. s \in Nat /\ w \in Nat /\ s <= w
    <3>1. Fan \div 2 \in Nat /\ Fan \in Nat /\ Fan \div 2 <= Fan /\ Span[4] \in Nat
      BY Spans
    <3>2. Span[4] * (Fan \div 2) \in Nat /\ Span[4] * Fan \in Nat
          /\ Span[4] * (Fan \div 2) <= Span[4] * Fan
      BY <3>1, TimesMonotone
    <3> QED
      BY <3>1, <3>2, SMT
  <2>2. v \in 0..s - 1
    BY DEF UserPage
  <2> HIDE DEF s, w
  <2>3. v \in 0..w - 1
    BY <2>1, <2>2
  <2> QED
    BY <2>3 DEF Page, w
<1> DEFINE x1 == Quotient(v)
           x2 == Quotient(x1)
           x3 == Quotient(x2)
<1>2. /\ x1 \in Nat /\ x2 \in Nat /\ x3 \in Nat
      /\ PML_ENTRY(v, 1) = v % Fan /\ PML_ENTRY(v, 2) = x1 % Fan
      /\ PML_ENTRY(v, 3) = x2 % Fan /\ PML_ENTRY(v, 4) = x3
      /\ v = Fan * x1 + (v % Fan)
      /\ x1 = Fan * x2 + (x1 % Fan)
      /\ x2 = Fan * x3 + (x2 % Fan)
  BY <1>1, PageDigits
<1> HIDE DEF x1, x2, x3
<1>3. Fan \in Nat
  BY Spans
<1>4. x2 = x3 * Fan + (x2 % Fan)
  BY <1>2, <1>3, SMT
<1>5. x1 = x2 * Fan + (x1 % Fan)
  BY <1>2, <1>3, SMT
<1>6. v = x1 * Fan + (v % Fan)
  BY <1>2, <1>3, SMT
<1>7. v = PageOf(x3, x2 % Fan, x1 % Fan, v % Fan)
  BY <1>4, <1>5, <1>6, Zenon DEF PageOf
<1>8. x3 \in 0..Fan \div 2 - 1
  BY <1>2, UserEntry, Spans
<1> QED
  BY <1>1, <1>2, <1>7, <1>8

-----------------------------------------------------------------------------
(* What a page leads to, and loops over pages.                               *)

Reached(m, map, page, c, t) ==
    \E a3, a2, a1 \in Frame :
        /\ Path(m.mem, map, page, t, a3, a2, a1)
        /\ m.mem[a1][PML_ENTRY(page, 1)] = Level(c, t)

\* Whether the page may be mapped for t.
Half(page, t) == page \in Page /\ (t # Kern => PML_ENTRY(page, 4) < Fan \div 2)

\* An entry with rights is an edge of the tree, and leads one level down.
LEMMA LevelEdge ==
    ASSUME NEW m, NEW own, NEW lvl, Held(m, own, lvl), NEW t \in Owner \ {Nobody},
           NEW f \in Frame, own[f] = t, lvl[f] \in 2..4, NEW i \in Index,
           lvl[f] = 4 /\ t # Kern => i < Fan \div 2,
           NEW c, m.mem[f][i] = Level(c, t)
    PROVE  /\ Edge(m.mem, own, lvl, f, i) /\ m.mem[f][i].frame = c
           /\ c \in Frame /\ own[c] = t /\ lvl[c] = lvl[f] - 1
<1>1. Present(m.mem[f][i]) /\ m.mem[f][i].frame = c
  BY DEF Present, Level, Rights, KernelFlags, UserFlags
<1>2. Slot(own, lvl, f, i)
  BY DEF Slot
<1>3. m.mem[f][i] \in Entry
  BY DEF Held, IsMachine, IsMemory
<1>4. c \in Frame
  BY <1>1, <1>3 DEF Entry
<1>5. Tree(m.mem, own, lvl)
  BY DEF Held
<1> QED
  BY <1>1, <1>2, <1>4, <1>5 DEF Tree, Edge

\* The owners and levels of the tables on a path.
LEMMA PathLevels ==
    ASSUME NEW m, NEW own, NEW lvl, Held(m, own, lvl), NEW t \in Owner \ {Nobody},
           NEW map \in Frame, own[map] = t, lvl[map] = 4, NEW page, Half(page, t),
           NEW a3 \in Frame, NEW a2 \in Frame, NEW a1 \in Frame,
           Path(m.mem, map, page, t, a3, a2, a1)
    PROVE  /\ own[a3] = t /\ lvl[a3] = 3 /\ own[a2] = t /\ lvl[a2] = 2
           /\ own[a1] = t /\ lvl[a1] = 1
           /\ Edge(m.mem, own, lvl, map, PML_ENTRY(page, 4))
           /\ m.mem[map][PML_ENTRY(page, 4)].frame = a3
           /\ Edge(m.mem, own, lvl, a3, PML_ENTRY(page, 3))
           /\ m.mem[a3][PML_ENTRY(page, 3)].frame = a2
           /\ Edge(m.mem, own, lvl, a2, PML_ENTRY(page, 2))
           /\ m.mem[a2][PML_ENTRY(page, 2)].frame = a1
<1> DEFINE i4 == PML_ENTRY(page, 4)
           i3 == PML_ENTRY(page, 3)
           i2 == PML_ENTRY(page, 2)
<1>1. i4 \in Index /\ i3 \in Index /\ i2 \in Index /\ (t # Kern => i4 < Fan \div 2)
  BY EntryIndex DEF Half, Page
<1>2. /\ m.mem[map][i4] = Level(a3, t) /\ m.mem[a3][i3] = Level(a2, t)
      /\ m.mem[a2][i2] = Level(a1, t)
  BY DEF Path
<1> HIDE DEF i4, i3, i2
<1>3. /\ Edge(m.mem, own, lvl, map, i4) /\ m.mem[map][i4].frame = a3
      /\ own[a3] = t /\ lvl[a3] = 3
  BY <1>1, <1>2, LevelEdge
<1>4. /\ Edge(m.mem, own, lvl, a3, i3) /\ m.mem[a3][i3].frame = a2
      /\ own[a2] = t /\ lvl[a2] = 2
  BY <1>1, <1>2, <1>3, LevelEdge
<1>5. /\ Edge(m.mem, own, lvl, a2, i2) /\ m.mem[a2][i2].frame = a1
      /\ own[a1] = t /\ lvl[a1] = 1
  BY <1>1, <1>2, <1>4, LevelEdge
<1> QED
  BY <1>3, <1>4, <1>5 DEF i4, i3, i2

\* The tables of the path stay, whatever else happens.
LEMMA PathKept ==
    ASSUME NEW m, NEW own, NEW lvl, Held(m, own, lvl), NEW t \in Owner \ {Nobody}, NEW U,
           NEW m2, NEW own2, NEW lvl2, Grew(m, own, lvl, m2, own2, lvl2, t, U),
           NEW map \in Frame, own[map] = t, lvl[map] = 4, NEW page, Half(page, t),
           NEW a3 \in Frame, NEW a2 \in Frame, NEW a1 \in Frame,
           Path(m.mem, map, page, t, a3, a2, a1)
    PROVE  Path(m2.mem, map, page, t, a3, a2, a1)
<1> DEFINE i4 == PML_ENTRY(page, 4)
           i3 == PML_ENTRY(page, 3)
           i2 == PML_ENTRY(page, 2)
<1>1. i4 \in Index /\ i3 \in Index /\ i2 \in Index
  BY EntryIndex DEF Half, Page
<1>2. own[a3] = t /\ lvl[a3] = 3 /\ own[a2] = t /\ lvl[a2] = 2
  BY PathLevels
<1>3. lvl[map] # 1 /\ lvl[a3] # 1 /\ lvl[a2] # 1
  BY <1>2
<1>4. Leads(m, map, i4, a3, t) /\ Leads(m, a3, i3, a2, t) /\ Leads(m, a2, i2, a1, t)
  BY DEF Path, Leads
<1> HIDE DEF i4, i3, i2
<1>5. Leads(m2, map, i4, a3, t)
  BY <1>1, <1>3, <1>4, GrewKeeps
<1>6. Leads(m2, a3, i3, a2, t)
  BY <1>1, <1>2, <1>3, <1>4, GrewKeeps
<1>7. Leads(m2, a2, i2, a1, t)
  BY <1>1, <1>2, <1>3, <1>4, GrewKeeps
<1> QED
  BY <1>5, <1>6, <1>7 DEF Path, Leads, i4, i3, i2

\* Two paths to one entry of the last level are paths to the same page.
LEMMA PathsApart ==
    ASSUME NEW m, NEW own, NEW lvl, Held(m, own, lvl), NEW t \in Owner \ {Nobody},
           NEW map \in Frame, own[map] = t, lvl[map] = 4,
           NEW p, Half(p, t), NEW q, Half(q, t),
           NEW a3 \in Frame, NEW a2 \in Frame, NEW b3 \in Frame, NEW b2 \in Frame,
           NEW a1 \in Frame,
           Path(m.mem, map, p, t, a3, a2, a1), Path(m.mem, map, q, t, b3, b2, a1),
           PML_ENTRY(p, 1) = PML_ENTRY(q, 1)
    PROVE  p = q
<1> DEFINE P(k) == PML_ENTRY(p, k)
           Q(k) == PML_ENTRY(q, k)
<1>1. \A k \in 1..4 : P(k) \in Index /\ Q(k) \in Index
  BY EntryIndex DEF Half, Page
<1>2. Lone(m.mem, own, lvl)
  BY DEF Held
<1>3. /\ Edge(m.mem, own, lvl, map, P(4)) /\ m.mem[map][P(4)].frame = a3
      /\ Edge(m.mem, own, lvl, a3, P(3)) /\ m.mem[a3][P(3)].frame = a2
      /\ Edge(m.mem, own, lvl, a2, P(2)) /\ m.mem[a2][P(2)].frame = a1
  BY PathLevels
<1>4. /\ Edge(m.mem, own, lvl, map, Q(4)) /\ m.mem[map][Q(4)].frame = b3
      /\ Edge(m.mem, own, lvl, b3, Q(3)) /\ m.mem[b3][Q(3)].frame = b2
      /\ Edge(m.mem, own, lvl, b2, Q(2)) /\ m.mem[b2][Q(2)].frame = a1
  BY PathLevels
<1>5. P(2) \in Index /\ Q(2) \in Index /\ P(3) \in Index /\ Q(3) \in Index
      /\ P(4) \in Index /\ Q(4) \in Index
  BY <1>1
<1>6. a2 = b2 /\ P(2) = Q(2)
  BY <1>2, <1>3, <1>4, <1>5 DEF Lone
<1>7. a3 = b3 /\ P(3) = Q(3)
  BY <1>2, <1>3, <1>4, <1>5, <1>6 DEF Lone
<1>8. P(4) = Q(4)
  BY <1>2, <1>3, <1>4, <1>5, <1>7 DEF Lone
<1>9. \A k \in 1..4 : P(k) = Q(k)
  BY <1>6, <1>7, <1>8
<1> QED
  BY <1>9, PagesApart DEF Half

\* vmm_map of a page leaves the other pages where they were.
LEMMA ReachedKept ==
    ASSUME NEW m, NEW own, NEW lvl, Held(m, own, lvl), NEW t \in Owner \ {Nobody}, NEW U,
           NEW m2, NEW own2, NEW lvl2, Grew(m, own, lvl, m2, own2, lvl2, t, U),
           NEW map \in Frame, own[map] = t, lvl[map] = 4,
           NEW p, Half(p, t), NEW q, Half(q, t), q # p, NEW c, NEW d,
           MapsTo(m, own, lvl, m2, map, p, c, t),
           Reached(m, map, q, d, t)
    PROVE  Reached(m2, map, q, d, t)
<1>1. PICK b3, b2, b1 \in Frame : /\ Path(m.mem, map, q, t, b3, b2, b1)
                                  /\ m.mem[b1][PML_ENTRY(q, 1)] = Level(d, t)
  BY DEF Reached
<1>2. PICK a3, a2, a1 \in Frame :
        /\ Path(m2.mem, map, p, t, a3, a2, a1)
        /\ \A f \in Frame, i \in Index :
              own[f] = t /\ lvl[f] = 1 /\ (f # a1 \/ i # PML_ENTRY(p, 1)) =>
                  m2.mem[f][i] = m.mem[f][i]
  BY DEF MapsTo
<1>3. own[b1] = t /\ lvl[b1] = 1
  BY <1>1, PathLevels
<1>4. Path(m2.mem, map, q, t, b3, b2, b1)
  BY <1>1, PathKept
<1>5. Held(m2, own2, lvl2)
  BY DEF Grew
<1>6. own2[map] = t /\ lvl2[map] = 4
  <2>1. own[map] # Nobody
    OBVIOUS
  <2> QED
    BY <2>1, GrewOwner
<1>7. PML_ENTRY(q, 1) \in Index
  BY EntryIndex DEF Half, Page
<1>8. b1 # a1 \/ PML_ENTRY(q, 1) # PML_ENTRY(p, 1)
  BY <1>2, <1>4, <1>5, <1>6, PathsApart
<1>9. m2.mem[b1][PML_ENTRY(q, 1)] = Level(d, t)
  BY <1>1, <1>2, <1>3, <1>7, <1>8
<1> QED
  BY <1>4, <1>9 DEF Reached

\* The machines of the loop of MapRange.
RangeLoop(f, m, map, start, page, n, flags) ==
    f = [i \in 0..n |->
            IF i = 0 THEN m
            ELSE vmm_map(f[i - 1], map, start + i - 1, page + i - 1, flags)]

\* The loop ends.
LEMMA RangeLoopExists ==
    ASSUME NEW m, NEW map, NEW start, NEW page, NEW flags
    PROVE  \A n \in Nat : \E f : RangeLoop(f, m, map, start, page, n, flags)
<1> DEFINE Bad == {n \in Nat : ~\E f : RangeLoop(f, m, map, start, page, n, flags)}
<1>1. SUFFICES ASSUME Bad # {} PROVE FALSE
  OBVIOUS
<1>2. PICK n \in Bad : \A k \in Bad : n <= k
  BY <1>1, LeastNumber
<1>3. CASE n = 0
  <2> DEFINE f == [i \in 0..0 |-> m]
  <2>1. RangeLoop(f, m, map, start, page, 0, flags)
    BY DEF RangeLoop
  <2> QED
    BY <1>2, <1>3, <2>1
<1>4. CASE n # 0
  <2>1. n - 1 \in Nat /\ n - 1 \notin Bad
    BY <1>2, <1>4
  <2>2. PICK f : RangeLoop(f, m, map, start, page, n - 1, flags)
    BY <2>1
  <2> DEFINE g == [i \in 0..n |->
                     IF i = n THEN vmm_map(f[n - 1], map, start + n - 1, page + n - 1, flags)
                     ELSE f[i]]
  <2>3. ASSUME NEW i \in 0..n
        PROVE  g[i] = IF i = 0 THEN m
                      ELSE vmm_map(g[i - 1], map, start + i - 1, page + i - 1, flags)
    <3>1. CASE i = n
      BY <1>2, <1>4, <3>1
    <3>2. CASE i # n
      <4>1. i \in 0..n - 1 /\ g[i] = f[i]
        BY <1>2, <3>2
      <4>2. i # 0 => i - 1 \in 0..n /\ i - 1 # n /\ g[i - 1] = f[i - 1]
        BY <1>2, <4>1
      <4>3. f[i] = IF i = 0 THEN m
                   ELSE vmm_map(f[i - 1], map, start + i - 1, page + i - 1, flags)
        BY <2>2, <4>1 DEF RangeLoop
      <4> HIDE DEF g
      <4> QED
        BY <4>1, <4>2, <4>3
    <3> QED
      BY <3>1, <3>2
  <2>4. RangeLoop(g, m, map, start, page, n, flags)
    BY <2>3 DEF RangeLoop
  <2> QED
    BY <1>2, <2>4
<1> QED
  BY <1>3, <1>4

\* MapRange is the last machine of its loop.
LEMMA RangeLast ==
    ASSUME NEW m, NEW map, NEW start, NEW page, NEW n \in Nat, NEW flags
    PROVE  \E f : /\ RangeLoop(f, m, map, start, page, n, flags)
                  /\ MapRange(m, map, start, page, n, flags) = f[n]
<1> DEFINE mapped == CHOOSE f : f = [i \in 0..n |->
                        IF i = 0 THEN m
                        ELSE vmm_map(f[i - 1], map, start + i - 1, page + i - 1, flags)]
<1>1. MapRange(m, map, start, page, n, flags) = mapped[n]
  BY DEF MapRange
<1>2. \E f : f = [i \in 0..n |->
                    IF i = 0 THEN m
                    ELSE vmm_map(f[i - 1], map, start + i - 1, page + i - 1, flags)]
  <2>1. \E f : RangeLoop(f, m, map, start, page, n, flags)
    BY RangeLoopExists, Zenon
  <2> QED
    BY <2>1, Zenon DEF RangeLoop
<1>3. RangeLoop(mapped, m, map, start, page, n, flags)
  BY <1>2, Zenon DEF RangeLoop
<1> QED
  BY <1>1, <1>3

\* The pages start, start + 1, ... are t's, and nothing leads to them yet.
Waiting(m, own, lvl, start, from, n, t, U) ==
    \A j \in from..n - 1 : /\ own[start + j] = t /\ lvl[start + j] = 0
                           /\ Orphan(m.mem, own, lvl, start + j)
                           /\ start + j \notin U

\* The first n pages of a range lead to their physical pages.
RangeReached(m, map, start, page, n, t) ==
    \A j \in 0..n - 1 : Reached(m, map, page + j, start + j, t)

\* MapRange on behalf of t.
LEMMA MapRangeGrew ==
    ASSUME NEW m, NEW own, NEW lvl, Held(m, own, lvl), NEW t \in Task,
           NEW U, U \subseteq m.used, NEW map \in Frame, NEW start \in Nat, NEW page \in Nat,
           NEW n \in Nat, \A j \in 0..n - 1 : start + j \in Frame,
           m.halt = "none" =>
              /\ own[map] = t /\ lvl[map] = 4
              /\ Waiting(m, own, lvl, start, 0, n, t, U)
              /\ \A j \in 0..n - 1 : Half(page + j, t)
    PROVE  \E own2, lvl2 :
              LET m2 == MapRange(m, map, start, page, n, UserFlags)
              IN  /\ Grew(m, own, lvl, m2, own2, lvl2, t, U)
                  /\ m2.halt = "none" => RangeReached(m2, map, start, page, n, t)
<1>1. PICK f : /\ RangeLoop(f, m, map, start, page, n, UserFlags)
               /\ MapRange(m, map, start, page, n, UserFlags) = f[n]
  BY RangeLast
<1>2. t \in Owner \ {Nobody} /\ t # Kern /\ t # Nobody /\ Rights(t) = UserFlags
  BY DEF Owner, Kern, Nobody, Task, Rights
<1>3. /\ f[0] = m
      /\ \A i \in 1..n : f[i] = vmm_map(f[i - 1], map, start + i - 1, page + i - 1, UserFlags)
  <2>1. \A i \in 0..n : f[i] = IF i = 0 THEN m
            ELSE vmm_map(f[i - 1], map, start + i - 1, page + i - 1, UserFlags)
    BY <1>1 DEF RangeLoop
  <2> QED
    BY <2>1
<1> DEFINE Good(i, own2, lvl2) ==
             /\ Grew(m, own, lvl, f[i], own2, lvl2, t, U)
             /\ f[i].halt = "none" => /\ Waiting(f[i], own2, lvl2, start, i, n, t, U)
                                      /\ RangeReached(f[i], map, start, page, i, t)
           Bad == {i \in 0..n : ~\E own2, lvl2 : Good(i, own2, lvl2)}
<1>4. Good(0, own, lvl)
  <2>1. Grew(m, own, lvl, m, own, lvl, t, U)
    BY GrewSame DEF Held
  <2>2. RangeReached(m, map, start, page, 0, t)
    BY DEF RangeReached
  <2> QED
    BY <1>3, <2>1, <2>2
<1>5. ASSUME NEW i \in 0..n, i # n, NEW own1, NEW lvl1, Good(i, own1, lvl1)
      PROVE  \E own2, lvl2 : Good(i + 1, own2, lvl2)
  <2> DEFINE m1 == f[i]
             m2 == f[i + 1]
             c == start + i
             p == page + i
  <2>1. m2 = vmm_map(m1, map, c, p, Rights(t))
    <3>1. i + 1 \in 1..n /\ (i + 1) - 1 = i /\ start + (i + 1) - 1 = c /\ page + (i + 1) - 1 = p
      BY <1>5
    <3> QED
      BY <1>2, <1>3, <3>1
  <2>2. c \in Frame /\ p \in Nat /\ i \in 0..n - 1
    BY <1>5
  <2>3. /\ Grew(m, own, lvl, m1, own1, lvl1, t, U)
        /\ m1.halt = "none" => /\ Waiting(m1, own1, lvl1, start, i, n, t, U)
                               /\ RangeReached(m1, map, start, page, i, t)
    BY <1>5
  <2>4. Held(m1, own1, lvl1) /\ U \subseteq m1.used /\ (m1.halt = "none" => m.halt = "none")
    BY <2>3 DEF Grew
  <2> HIDE DEF m1, m2
  <2>5. m1.halt = "none" => own1[map] = t /\ lvl1[map] = 4 /\ Half(p, t)
    <3>1. m1.halt = "none" => own[map] = t /\ lvl[map] = 4 /\ Half(p, t)
      BY <2>2, <2>4
    <3> QED
      BY <1>2, <2>3, <3>1, GrewOwner
  <2>6. m1.halt = "none" => MayMap(m1, own1, lvl1, map, c, p, t, U)
    <3>1. i \in i..n - 1
      BY <2>2
    <3> QED
      BY <2>2, <2>3, <2>5, <3>1 DEF MayMap, Waiting, Half
  <2> HIDE DEF c, p
  <2>7. PICK own2, lvl2 :
          /\ Grew(m1, own1, lvl1, m2, own2, lvl2, t, U)
          /\ Orphans(m1, own1, lvl1, m2, own2, lvl2, c)
          /\ m2.halt = "none" => MapsTo(m1, own1, lvl1, m2, map, p, c, t)
    BY <1>2, <2>1, <2>2, <2>4, <2>6, MapGrew
  <2>8. Grew(m, own, lvl, m2, own2, lvl2, t, U)
    BY <1>2, <2>3, <2>7, GrewThen
  <2>9. ASSUME m2.halt = "none"
        PROVE  /\ Waiting(m2, own2, lvl2, start, i + 1, n, t, U)
               /\ RangeReached(m2, map, start, page, i + 1, t)
    <3>1. m1.halt = "none"
      BY <2>7, <2>9 DEF Grew
    <3>2. ASSUME NEW j \in (i + 1)..n - 1
          PROVE  /\ own2[start + j] = t /\ lvl2[start + j] = 0
                 /\ Orphan(m2.mem, own2, lvl2, start + j) /\ start + j \notin U
      <4>1. j \in i..n - 1 /\ j \in 0..n - 1 /\ start + j # c
        BY <3>2 DEF c
      <4> DEFINE d == start + j
      <4>2. /\ d \in Frame /\ own1[d] = t /\ lvl1[d] = 0
            /\ Orphan(m1.mem, own1, lvl1, d) /\ d \notin U
        BY <2>3, <3>1, <4>1 DEF Waiting
      <4> HIDE DEF d
      <4>3. own2[d] = t /\ lvl2[d] = 0
        BY <1>2, <2>7, <4>2, GrewOwner
      <4>4. Orphan(m2.mem, own2, lvl2, d)
        BY <1>2, <2>7, <4>1, <4>2 DEF Orphans, d
      <4> QED
        BY <4>2, <4>3, <4>4 DEF d
    <3>3. ASSUME NEW j \in 0..(i + 1) - 1
          PROVE  Reached(m2, map, page + j, start + j, t)
      <4>1. CASE j = i
        BY <2>7, <2>9, <4>1 DEF MapsTo, Reached, p, c
      <4>2. CASE j # i
        <5> DEFINE q == page + j
                   d == start + j
        <5>1. j \in 0..i - 1 /\ j \in 0..n - 1 /\ q # p
          BY <2>2, <3>3, <4>2 DEF p
        <5>2. Reached(m1, map, q, d, t)
          BY <2>3, <3>1, <5>1 DEF RangeReached
        <5>3. Half(q, t)
          BY <2>4, <3>1, <5>1
        <5> HIDE DEF q, d
        <5>4. Reached(m2, map, q, d, t)
          BY <1>2, <2>4, <2>5, <2>7, <2>9, <3>1, <5>1, <5>2, <5>3, ReachedKept
        <5> QED
          BY <5>4 DEF q, d
      <4> QED
        BY <4>1, <4>2
    <3> QED
      BY <3>2, <3>3 DEF Waiting, RangeReached
  <2> QED
    BY <2>8, <2>9 DEF m2
<1> HIDE DEF Good
<1>6. Bad = {}
  <2>1. SUFFICES ASSUME Bad # {} PROVE FALSE
    OBVIOUS
  <2>2. PICK i \in Bad : \A k \in Bad : i <= k
    <3>1. Bad \in SUBSET Nat
      OBVIOUS
    <3> QED
      BY <2>1, <3>1, LeastNumber
  <2>3. i # 0
    BY <1>4, <2>2
  <2>4. i - 1 \in 0..n /\ i - 1 # n /\ i - 1 \notin Bad /\ (i - 1) + 1 = i
    BY <2>2, <2>3
  <2>5. PICK own1, lvl1 : Good(i - 1, own1, lvl1)
    BY <2>4
  <2>6. \E own2, lvl2 : Good(i, own2, lvl2)
    BY <1>5, <2>4, <2>5
  <2> QED
    BY <2>2, <2>6
<1>7. PICK own2, lvl2 : Good(n, own2, lvl2)
  BY <1>6
<1> QED
  BY <1>1, <1>7 DEF Good

\* Where tables stay as they are, pages lead where they led.
LEMMA ReachedSame ==
    ASSUME NEW m, NEW own, NEW lvl, Held(m, own, lvl), NEW t \in Owner \ {Nobody},
           NEW m2, \A f \in Frame : own[f] = t => m2.mem[f] = m.mem[f],
           NEW map \in Frame, own[map] = t, lvl[map] = 4, NEW q, Half(q, t), NEW d,
           Reached(m, map, q, d, t)
    PROVE  Reached(m2, map, q, d, t)
<1>1. PICK b3, b2, b1 \in Frame : /\ Path(m.mem, map, q, t, b3, b2, b1)
                                  /\ m.mem[b1][PML_ENTRY(q, 1)] = Level(d, t)
  BY DEF Reached
<1>2. own[b3] = t /\ own[b2] = t /\ own[b1] = t
  BY <1>1, PathLevels
<1>3. m2.mem[map] = m.mem[map] /\ m2.mem[b3] = m.mem[b3] /\ m2.mem[b2] = m.mem[b2]
      /\ m2.mem[b1] = m.mem[b1]
  BY <1>2
<1> QED
  BY <1>1, <1>3 DEF Reached, Path

\* The machines of the loop of mmap.
RegionLoop(f, m, map, virt, n) ==
    f = [i \in 0..n |->
            IF i = 0 THEN m
            ELSE MapFresh(f[i - 1], pmm_allocate_zero(f[i - 1], 1), map, virt + i - 1)]

\* The loop ends.
LEMMA RegionLoopExists ==
    ASSUME NEW m, NEW map, NEW virt
    PROVE  \A n \in Nat : \E f : RegionLoop(f, m, map, virt, n)
<1> DEFINE Bad == {n \in Nat : ~\E f : RegionLoop(f, m, map, virt, n)}
<1>1. SUFFICES ASSUME Bad # {} PROVE FALSE
  OBVIOUS
<1>2. PICK n \in Bad : \A k \in Bad : n <= k
  BY <1>1, LeastNumber
<1>3. CASE n = 0
  <2> DEFINE f == [i \in 0..0 |-> m]
  <2>1. RegionLoop(f, m, map, virt, 0)
    BY DEF RegionLoop
  <2> QED
    BY <1>2, <1>3, <2>1
<1>4. CASE n # 0
  <2>1. n - 1 \in Nat /\ n - 1 \notin Bad
    BY <1>2, <1>4
  <2>2. PICK f : RegionLoop(f, m, map, virt, n - 1)
    BY <2>1
  <2> DEFINE g == [i \in 0..n |->
                     IF i = n
                     THEN MapFresh(f[n - 1], pmm_allocate_zero(f[n - 1], 1), map, virt + n - 1)
                     ELSE f[i]]
  <2>3. ASSUME NEW i \in 0..n
        PROVE  g[i] = IF i = 0 THEN m
                      ELSE MapFresh(g[i - 1], pmm_allocate_zero(g[i - 1], 1), map, virt + i - 1)
    <3>1. CASE i = n
      BY <1>2, <1>4, <3>1
    <3>2. CASE i # n
      <4>1. i \in 0..n - 1 /\ g[i] = f[i]
        BY <1>2, <3>2
      <4>2. i # 0 => i - 1 \in 0..n /\ i - 1 # n /\ g[i - 1] = f[i - 1]
        BY <1>2, <4>1
      <4>3. f[i] = IF i = 0 THEN m
                   ELSE MapFresh(f[i - 1], pmm_allocate_zero(f[i - 1], 1), map, virt + i - 1)
        BY <2>2, <4>1 DEF RegionLoop
      <4> HIDE DEF g
      <4> QED
        BY <4>1, <4>2, <4>3
    <3> QED
      BY <3>1, <3>2
  <2>4. RegionLoop(g, m, map, virt, n)
    BY <2>3 DEF RegionLoop
  <2> QED
    BY <1>2, <2>4
<1> QED
  BY <1>3, <1>4

\* MapRegion is the last machine of its loop.
LEMMA RegionLast ==
    ASSUME NEW t, NEW virt, NEW n \in Nat
    PROVE  \E f : /\ RegionLoop(f, Machine, tasks[t].map, virt, n)
                  /\ MapRegion(t, virt, n) = f[n]
<1> DEFINE mapped == CHOOSE f : f = [i \in 0..n |->
                        IF i = 0 THEN Machine
                        ELSE MapFresh(f[i - 1], pmm_allocate_zero(f[i - 1], 1),
                                      tasks[t].map, virt + i - 1)]
<1>1. MapRegion(t, virt, n) = mapped[n]
  BY DEF MapRegion
<1>2. \E f : f = [i \in 0..n |->
                    IF i = 0 THEN Machine
                    ELSE MapFresh(f[i - 1], pmm_allocate_zero(f[i - 1], 1),
                                  tasks[t].map, virt + i - 1)]
  <2>1. \E f : RegionLoop(f, Machine, tasks[t].map, virt, n)
    BY RegionLoopExists, Zenon
  <2> QED
    BY <2>1, Zenon DEF RegionLoop
<1>3. RegionLoop(mapped, Machine, tasks[t].map, virt, n)
  BY <1>2, Zenon DEF RegionLoop
<1> QED
  BY <1>1, <1>3

\* The page leads to a physical page that holds zeroes.
CleanAt(m, map, page, t) ==
    \E d \in Frame : Reached(m, map, page, d, t) /\ BytesOf({d}) \cap DOMAIN m.bytes = {}

\* One page of a region.
LEMMA FreshGrew ==
    ASSUME NEW m, NEW own, NEW lvl, Held(m, own, lvl), NEW t \in Task,
           NEW U, U \subseteq m.used, NEW map \in Frame, NEW page \in Nat,
           m.halt = "none" => own[map] = t /\ lvl[map] = 4 /\ Half(page, t)
    PROVE  \E own2, lvl2 :
              LET m2 == MapFresh(m, pmm_allocate_zero(m, 1), map, page)
              IN  /\ Grew(m, own, lvl, m2, own2, lvl2, t, U)
                  /\ m2.halt = "none" =>
                        /\ CleanAt(m2, map, page, t)
                        /\ \A q : Half(q, t) /\ q # page /\ CleanAt(m, map, q, t)
                              => CleanAt(m2, map, q, t)
<1> DEFINE m1 == pmm_allocate_zero(m, 1)
           m2 == MapFresh(m, m1, map, page)
           g == FirstFree(m)
           G == Granted(m, 1)
<1>1. t \in Owner \ {Nobody} /\ t # Kern /\ t # Nobody /\ Rights(t) = UserFlags
  BY DEF Owner, Kern, Nobody, Task, Rights
<1>2. PICK own1, lvl1 :
        /\ Grew(m, own, lvl, m1, own1, lvl1, t, U)
        /\ Orphans(m, own, lvl, m1, own1, lvl1, -1)
        /\ SameTables(m, own, m1)
        /\ m1.halt = "none" =>
              /\ Given(m1, own1, lvl1, G, t, 0)
              /\ g \in Free(m)
  <2>1. 0 \in 0..4
    OBVIOUS
  <2> QED
    BY <1>1, <2>1, AllocateGrew
<1>3. CASE m1.halt # "none"
  <2>1. m2 = m1
    BY <1>3 DEF MapFresh
  <2> HIDE DEF m1, m2
  <2> QED
    BY <1>2, <1>3, <2>1 DEF m2, m1
<1>4. CASE m1.halt = "none"
  <2>1. m2 = vmm_map(m1, map, g, page, Rights(t))
    BY <1>1, <1>4 DEF MapFresh
  <2>2. g \in Frame /\ g \in G /\ g \notin m.used
    BY <1>2, <1>4 DEF Granted, Free, Frame
  <2>3. own1[g] = t /\ lvl1[g] = 0 /\ Orphan(m1.mem, own1, lvl1, g) /\ g \notin U
    BY <1>2, <1>4, <2>2 DEF Given
  <2> HIDE DEF m1, m2, g, G
  <2>4. /\ Held(m1, own1, lvl1) /\ U \subseteq m1.used /\ m.halt = "none"
        /\ NewFor(m, own, m1, own1, t) /\ DOMAIN m1.bytes \subseteq DOMAIN m.bytes
    BY <1>2, <1>4 DEF Grew
  <2>5. own1[map] = t /\ lvl1[map] = 4
    BY <1>1, <1>2, <2>4, GrewOwner
  <2>6. own[g] = Nobody /\ BytesOf({g}) \cap DOMAIN m1.bytes = {}
    BY <1>1, <2>2, <2>3, <2>4 DEF Held, NewFor
  <2>7. MayMap(m1, own1, lvl1, map, g, page, t, U)
    BY <2>2, <2>3, <2>4, <2>5 DEF MayMap, Half
  <2>8. PICK own2, lvl2 :
          /\ Grew(m1, own1, lvl1, m2, own2, lvl2, t, U)
          /\ m2.halt = "none" => MapsTo(m1, own1, lvl1, m2, map, page, g, t)
    BY <1>1, <2>1, <2>2, <2>4, <2>7, MapGrew
  <2>9. Grew(m, own, lvl, m2, own2, lvl2, t, U)
    BY <1>1, <1>2, <2>8, GrewThen
  <2>10. DOMAIN m2.bytes \subseteq DOMAIN m1.bytes
    BY <2>8 DEF Grew
  <2>11. ASSUME m2.halt = "none"
         PROVE  CleanAt(m2, map, page, t)
    <3>1. Reached(m2, map, page, g, t)
      BY <2>8, <2>11 DEF MapsTo, Reached
    <3> QED
      BY <2>2, <2>6, <2>10, <3>1 DEF CleanAt
  <2>12. ASSUME m2.halt = "none", NEW q, Half(q, t), q # page, CleanAt(m, map, q, t)
         PROVE  CleanAt(m2, map, q, t)
    <3>1. PICK d \in Frame : Reached(m, map, q, d, t) /\ BytesOf({d}) \cap DOMAIN m.bytes = {}
      BY <2>12 DEF CleanAt
    <3>2. \A f \in Frame : own[f] = t => m1.mem[f] = m.mem[f]
      BY <1>1, <1>2 DEF SameTables
    <3>3. Reached(m1, map, q, d, t)
      BY <1>1, <2>4, <2>12, <3>1, <3>2, ReachedSame
    <3>4. Reached(m2, map, q, d, t)
      BY <1>1, <2>4, <2>5, <2>8, <2>12, <3>3, ReachedKept
    <3> QED
      BY <2>4, <2>10, <3>1, <3>4 DEF CleanAt
  <2> QED
    BY <2>9, <2>11, <2>12 DEF m2, m1
<1> HIDE DEF m1
<1> QED
  BY <1>3, <1>4

\* The loop of mmap on behalf of t.
LEMMA RegionGrew ==
    ASSUME NEW m, NEW own, NEW lvl, Held(m, own, lvl), NEW t \in Task,
           NEW map \in Frame, NEW virt \in Nat, NEW n \in Nat,
           m.halt = "none" => /\ own[map] = t /\ lvl[map] = 4
                              /\ \A j \in 0..n - 1 : Half(virt + j, t),
           NEW f, RegionLoop(f, m, map, virt, n)
    PROVE  \E own2, lvl2 :
              /\ Grew(m, own, lvl, f[n], own2, lvl2, t, m.used)
              /\ f[n].halt = "none" =>
                    /\ \A j \in 0..n - 1 : CleanAt(f[n], map, virt + j, t)
                    /\ \A q : Half(q, t) /\ CleanAt(m, map, q, t) => CleanAt(f[n], map, q, t)
<1>2. t \in Owner \ {Nobody} /\ t # Kern /\ t # Nobody
  BY DEF Owner, Kern, Nobody, Task
<1>3. /\ f[0] = m
      /\ \A i \in 1..n :
            f[i] = MapFresh(f[i - 1], pmm_allocate_zero(f[i - 1], 1), map, virt + i - 1)
  <2>1. \A i \in 0..n : f[i] = IF i = 0 THEN m
            ELSE MapFresh(f[i - 1], pmm_allocate_zero(f[i - 1], 1), map, virt + i - 1)
    BY DEF RegionLoop
  <2> QED
    BY <2>1
<1> DEFINE U == m.used
           Good(i, own2, lvl2) ==
             /\ Grew(m, own, lvl, f[i], own2, lvl2, t, U)
             /\ f[i].halt = "none" =>
                   /\ \A j \in 0..i - 1 : CleanAt(f[i], map, virt + j, t)
                   /\ \A q : Half(q, t) /\ CleanAt(m, map, q, t) => CleanAt(f[i], map, q, t)
           Bad == {i \in 0..n : ~\E own2, lvl2 : Good(i, own2, lvl2)}
<1>4. Good(0, own, lvl)
  <2>1. Grew(m, own, lvl, m, own, lvl, t, U)
    BY GrewSame DEF Held
  <2> QED
    BY <1>3, <2>1
<1>5. ASSUME NEW i \in 0..n, i # n, NEW own1, NEW lvl1, Good(i, own1, lvl1)
      PROVE  \E own2, lvl2 : Good(i + 1, own2, lvl2)
  <2> DEFINE m1 == f[i]
             m2 == f[i + 1]
             p == virt + i
  <2>1. m2 = MapFresh(m1, pmm_allocate_zero(m1, 1), map, p)
    <3>1. i + 1 \in 1..n /\ (i + 1) - 1 = i /\ virt + (i + 1) - 1 = p
      BY <1>5
    <3> QED
      BY <1>3, <3>1
  <2>2. p \in Nat /\ i \in 0..n - 1
    BY <1>5
  <2>3. /\ Grew(m, own, lvl, m1, own1, lvl1, t, U)
        /\ m1.halt = "none" =>
              /\ \A j \in 0..i - 1 : CleanAt(m1, map, virt + j, t)
              /\ \A q : Half(q, t) /\ CleanAt(m, map, q, t) => CleanAt(m1, map, q, t)
    BY <1>5
  <2>4. Held(m1, own1, lvl1) /\ U \subseteq m1.used /\ (m1.halt = "none" => m.halt = "none")
    BY <2>3 DEF Grew
  <2> HIDE DEF m1, m2, U
  <2>5. m1.halt = "none" => own1[map] = t /\ lvl1[map] = 4 /\ Half(p, t)
    <3>1. m1.halt = "none" => own[map] = t /\ lvl[map] = 4 /\ Half(p, t)
      BY <2>2, <2>4
    <3> QED
      BY <1>2, <2>3, <3>1, GrewOwner
  <2> HIDE DEF p
  <2>6. PICK own2, lvl2 :
          /\ Grew(m1, own1, lvl1, m2, own2, lvl2, t, U)
          /\ m2.halt = "none" =>
                /\ CleanAt(m2, map, p, t)
                /\ \A q : Half(q, t) /\ q # p /\ CleanAt(m1, map, q, t) => CleanAt(m2, map, q, t)
    BY <2>1, <2>2, <2>4, <2>5, FreshGrew
  <2>7. Grew(m, own, lvl, m2, own2, lvl2, t, U)
    BY <1>2, <2>3, <2>6, GrewThen DEF U
  <2>8. ASSUME m2.halt = "none"
        PROVE  /\ \A j \in 0..(i + 1) - 1 : CleanAt(m2, map, virt + j, t)
               /\ \A q : Half(q, t) /\ CleanAt(m, map, q, t) => CleanAt(m2, map, q, t)
    <3>1. m1.halt = "none" /\ m.halt = "none"
      BY <2>4, <2>6, <2>8 DEF Grew
    <3>2. ASSUME NEW j \in 0..(i + 1) - 1
          PROVE  CleanAt(m2, map, virt + j, t)
      <4>1. CASE j = i
        BY <2>6, <2>8, <4>1 DEF p
      <4>2. CASE j # i
        <5> DEFINE q == virt + j
        <5>1. j \in 0..i - 1 /\ j \in 0..n - 1 /\ q # p
          BY <2>2, <3>2, <4>2 DEF p
        <5>2. CleanAt(m1, map, q, t) /\ Half(q, t)
          BY <2>3, <3>1, <5>1
        <5> HIDE DEF q
        <5>3. CleanAt(m2, map, q, t)
          BY <2>6, <2>8, <5>1, <5>2
        <5> QED
          BY <5>3 DEF q
      <4> QED
        BY <4>1, <4>2
    <3>3. ASSUME NEW q, Half(q, t), CleanAt(m, map, q, t)
          PROVE  CleanAt(m2, map, q, t)
      BY <2>3, <2>6, <2>8, <3>1, <3>3
    <3> QED
      BY <3>2, <3>3
  <2> QED
    BY <2>7, <2>8 DEF m2
<1> HIDE DEF Good
<1>6. Bad = {}
  <2>1. SUFFICES ASSUME Bad # {} PROVE FALSE
    OBVIOUS
  <2>2. PICK i \in Bad : \A k \in Bad : i <= k
    <3>1. Bad \in SUBSET Nat
      OBVIOUS
    <3> QED
      BY <2>1, <3>1, LeastNumber
  <2>3. i # 0
    BY <1>4, <2>2
  <2>4. i - 1 \in 0..n /\ i - 1 # n /\ i - 1 \notin Bad /\ (i - 1) + 1 = i
    BY <2>2, <2>3
  <2>5. PICK own1, lvl1 : Good(i - 1, own1, lvl1)
    BY <2>4
  <2>6. \E own2, lvl2 : Good(i, own2, lvl2)
    BY <1>5, <2>4, <2>5
  <2> QED
    BY <2>2, <2>6
<1>7. PICK own2, lvl2 : Good(n, own2, lvl2)
  BY <1>6
<1> QED
  BY <1>7 DEF Good

-----------------------------------------------------------------------------
(* The control state: tasks, pids and the exec that is under way.            *)

TaskFields == {"state", "sp", "map", "used_pages", "rip", "path", "regions"}

TaskState == {"building", "ready", "lost", "dead"}

IsTask(r) ==
    /\ r = [x \in TaskFields |-> r[x]]
    /\ r.state \in TaskState
    /\ r.sp \in Frame /\ r.map \in Frame
    /\ r.used_pages \in Nat /\ r.rip \in Nat

TasksOK ==
    /\ tasks = [t \in Task |-> tasks[t]]
    /\ \A t \in Task : tasks[t] = NoTask \/ IsTask(tasks[t])

\* Pids are given out in order, and none twice.
PidsOK == \E n \in 0..MaxTasks : \A t \in Task : tasks[t] # NoTask <=> t < n

NoTasks == running = Boot /\ \A t \in Task : tasks[t] = NoTask

JobFields == {"phase", "new", "path", "base", "header", "at_phdr", "ld_path"}

\* vmm_initialize is under way.
VmmJob ==
    /\ job = [phase |-> "vmm", window |-> job.window, next |-> job.next]
    /\ job.window \in Nat \ {0} /\ job.window <= Windows + 1
    /\ job.next \in Nat
    /\ NoTasks

\* sched_new_elf_process is under way.
ExecJob ==
    /\ job = [x \in JobFields |-> job[x]]
    /\ job.phase \in {"open", "load", "stack", "push"}
    /\ job.new \in Task
    /\ job.base \in {0, LdBase}
    /\ job.header \in Nat \ {0}
    /\ halt = "none" => tasks[job.new] # NoTask /\ tasks[job.new].state = "building"
    /\ job.phase \in {"load", "stack"} => job.path \in DOMAIN Programs
    /\ job.phase = "stack" => job.base = 0
    /\ job.phase \in {"open", "load", "stack"} /\ job.base = 0 =>
          user_rsp[job.new] = StackTop * PageSize
    /\ running # job.new
    /\ running \in Task => tasks[running] # NoTask /\ tasks[running].state = "ready"

JobOK ==
    \/ job = NoJob
    \/ job = [phase |-> "boot"] /\ NoTasks
    \/ VmmJob
    \/ job = [phase |-> "init"] /\ NoTasks
    \/ ExecJob

ControlInv ==
    /\ usable \in Memories
    /\ kernel_pagemap \in Frame
    /\ lock \in BOOLEAN
    /\ TasksOK
    /\ PidsOK
    /\ running \in Task \cup {Boot}
    /\ running \in Task => tasks[running] # NoTask
    /\ user_rsp \in [Task -> Nat]
    /\ JobOK

\* What the constants are.
LEMMA NaturalSizes ==
    /\ StackPages \in Nat \ {0} /\ StackTop \in Nat /\ PageSize \in Nat \ {0} /\ LdBase \in Nat
    /\ 0 \in Frame /\ MaxTasks \in Nat \ {0} /\ StackTop * PageSize \in Nat
    /\ LdBase # 0 /\ AllocBase \in Nat
<1>1. StackTop \in Nat /\ PageSize \in Nat
  BY SizesAssumption, LayoutAssumption
<1>2. StackTop * PageSize \in Nat
  BY <1>1
<1> QED
  BY <1>2, SizesAssumption, LayoutAssumption, UserAssumption DEF Frame

\* A physical page that pmm_allocate returns exists.
LEMMA FirstFreeFrame ==
    ASSUME NEW m
    PROVE  FirstFree(m) \in Frame
<1>1. CASE Free(m) = {}
  BY <1>1, NaturalSizes DEF FirstFree
<1>2. CASE Free(m) # {}
  BY <1>2, FirstFreeFree
<1> QED
  BY <1>1, <1>2

\* Fields of a task record that is updated.
LEMMA TaskWithState ==
    ASSUME NEW r, IsTask(r), NEW s \in TaskState
    PROVE  LET q == [r EXCEPT !.state = s]
           IN  /\ IsTask(q) /\ q.state = s /\ q.map = r.map /\ q.sp = r.sp
               /\ q.regions = r.regions /\ q.used_pages = r.used_pages
  BY DEF IsTask, TaskFields

LEMMA TaskWithRip ==
    ASSUME NEW r, IsTask(r), NEW v \in Nat
    PROVE  LET q == [r EXCEPT !.rip = v]
           IN  /\ IsTask(q) /\ q.state = r.state /\ q.map = r.map /\ q.sp = r.sp
               /\ q.regions = r.regions /\ q.used_pages = r.used_pages
  BY DEF IsTask, TaskFields

LEMMA TaskWithRegion ==
    ASSUME NEW r, IsTask(r), NEW n \in Nat, NEW g
    PROVE  LET q == [r EXCEPT !.used_pages = n, !.regions = g]
           IN  /\ IsTask(q) /\ q.state = r.state /\ q.map = r.map /\ q.sp = r.sp
               /\ q.regions = g /\ q.used_pages = n
  BY DEF IsTask, TaskFields

LEMMA TaskFresh ==
    ASSUME NEW sp \in Frame, NEW map \in Frame, NEW pages \in Nat, NEW path
    PROVE  LET q == NewTask(sp, map, pages, path)
           IN  /\ IsTask(q) /\ q.state = "building" /\ q.map = map /\ q.sp = sp
               /\ q.regions = <<>> /\ q.used_pages = pages
  BY DEF IsTask, TaskFields, TaskState, NewTask

\* No task record is the record of no task.
LEMMA TaskIsSome ==
    ASSUME NEW r, IsTask(r)
    PROVE  r # NoTask /\ r.state # "none"
  BY DEF IsTask, NoTask, TaskState

\* One task changes.
OneTask(t, q) ==
    /\ tasks' = [u \in Task |-> IF u = t THEN q ELSE tasks[u]]

\* The next pid is that of no task.
LEMMA NextPidFree ==
    ASSUME ControlInv, NextPid < MaxTasks
    PROVE  /\ NextPid \in Task /\ tasks[NextPid] = NoTask
           /\ \A t \in Task : tasks[t] # NoTask <=> t < NextPid
<1>1. PICK n \in 0..MaxTasks : \A t \in Task : tasks[t] # NoTask <=> t < n
  BY DEF ControlInv, PidsOK
<1>2. \A t \in Task : tasks[t].state # "none" <=> tasks[t] # NoTask
  <2>1. NoTask.state = "none"
    BY DEF NoTask
  <2> QED
    BY <2>1, TaskIsSome DEF ControlInv, TasksOK
<1>3. {t \in Task : tasks[t].state # "none"} = 0..n - 1
  BY <1>1, <1>2, NaturalSizes DEF Task
<1>4. Cardinality(0..n - 1) = n
  <2>1. 0 \in Int /\ n - 1 \in Int /\ n \in Nat
    BY <1>1, NaturalSizes
  <2>2. Cardinality(0..n - 1) = IF 0 > n - 1 THEN 0 ELSE (n - 1) - 0 + 1
    BY <2>1, FS_Interval
  <2> QED
    BY <2>1, <2>2
<1>5. NextPid = n
  BY <1>3, <1>4 DEF NextPid
<1> QED
  BY <1>1, <1>5, NaturalSizes DEF Task

\* The task t changes into q.
LEMMA OneTaskKeeps ==
    ASSUME TasksOK, PidsOK, NEW t \in Task, tasks[t] # NoTask, NEW q, IsTask(q), OneTask(t, q)
    PROVE  /\ TasksOK' /\ PidsOK' /\ tasks'[t] = q
           /\ \A u \in Task : u # t => tasks'[u] = tasks[u]
           /\ \A u \in Task : tasks'[u] # NoTask <=> tasks[u] # NoTask
<1>1. /\ tasks' = [u \in Task |-> tasks'[u]] /\ tasks'[t] = q
      /\ \A u \in Task : u # t => tasks'[u] = tasks[u]
  BY DEF OneTask
<1>2. q # NoTask
  BY TaskIsSome
<1>3. \A u \in Task : tasks'[u] # NoTask <=> tasks[u] # NoTask
  BY <1>1, <1>2
<1>4. TasksOK'
  BY <1>1 DEF TasksOK
<1>5. PidsOK'
  BY <1>3 DEF PidsOK
<1> QED
  BY <1>1, <1>3, <1>4, <1>5

\* The phases of an exec are not those of the boot.
LEMMA PhaseJob ==
    ASSUME JobOK
    PROVE  /\ job.phase = "boot" => job = [phase |-> "boot"] /\ NoTasks
           /\ job.phase = "vmm" => VmmJob
           /\ job.phase = "init" => job = [phase |-> "init"] /\ NoTasks
           /\ job.phase \in {"open", "load", "stack", "push"} => ExecJob
           /\ job = NoJob <=> job.phase = "none"
<1>1. NoJob.phase = "none"
  BY DEF NoJob
<1>2. VmmJob => job.phase = "vmm"
  BY DEF VmmJob
<1>3. ExecJob => job.phase \in {"open", "load", "stack", "push"}
  BY DEF ExecJob
<1>4. [phase |-> "boot"].phase = "boot" /\ [phase |-> "init"].phase = "init"
  OBVIOUS
<1> QED
  BY <1>1, <1>2, <1>3, <1>4 DEF JobOK

\* The steps of vmm_initialize.
LEMMA BootControl ==
    ASSUME ControlInv, NewKernelPagemap \/ MapWindows \/ NextWindow \/ LoadPagemap
    PROVE  ControlInv'
<1>1. /\ usable' = usable /\ lock' = lock /\ tasks' = tasks /\ running' = running
      /\ user_rsp' = user_rsp
  BY DEF NewKernelPagemap, MapWindows, NextWindow, LoadPagemap, stacks, boot
<1>2. Windows' = Windows /\ Windows \in Nat
  BY <1>1, MemoriesAssumption DEF Windows, ControlInv
<1>3. TasksOK' /\ PidsOK' /\ (NoTasks => NoTasks')
  BY <1>1 DEF TasksOK, PidsOK, ControlInv, NoTasks
<1>4. kernel_pagemap' \in Frame
  BY FirstFreeFrame DEF NewKernelPagemap, MapWindows, NextWindow, LoadPagemap, boot, ControlInv
<1>5. JobOK'
  <2>1. JobOK
    BY DEF ControlInv
  <2>2. CASE NewKernelPagemap
    <3>1. NoTasks /\ job' = [phase |-> "vmm", window |-> 1, next |-> 0]
      BY <2>1, <2>2, PhaseJob DEF NewKernelPagemap, Phase
    <3>2. VmmJob'
      BY <1>2, <1>3, <3>1 DEF VmmJob
    <3> QED
      BY <3>2 DEF JobOK
  <2>3. CASE MapWindows
    <3>1. VmmJob /\ job' = [job EXCEPT !.next = @ + 1]
      BY <2>1, <2>3, PhaseJob DEF MapWindows, Phase
    <3>2. /\ job' = [phase |-> "vmm", window |-> job'.window, next |-> job'.next]
          /\ job'.window = job.window /\ job'.next = job.next + 1
      BY <3>1 DEF VmmJob
    <3>3. VmmJob'
      BY <1>2, <1>3, <3>1, <3>2 DEF VmmJob
    <3> QED
      BY <3>3 DEF JobOK
  <2>4. CASE NextWindow
    <3>1. /\ VmmJob /\ job.window <= Windows
          /\ job' = [phase |-> "vmm", window |-> job.window + 1, next |-> 0]
      BY <2>1, <2>4, PhaseJob DEF NextWindow, Phase
    <3>2. /\ job' = [phase |-> "vmm", window |-> job'.window, next |-> job'.next]
          /\ job'.window = job.window + 1 /\ job'.next = 0
      BY <3>1
    <3>3. VmmJob'
      BY <1>2, <1>3, <3>1, <3>2 DEF VmmJob
    <3> QED
      BY <3>3 DEF JobOK
  <2>5. CASE LoadPagemap
    <3>1. VmmJob /\ job' = [phase |-> "init"]
      BY <2>1, <2>5, PhaseJob DEF LoadPagemap, Phase
    <3> QED
      BY <1>3, <3>1 DEF VmmJob, JobOK
  <2> QED
    BY <2>2, <2>3, <2>4, <2>5
<1> QED
  BY <1>1, <1>3, <1>4, <1>5 DEF ControlInv

\* task_init: the machine of the new task is left open.
LEMMA TaskInitControl ==
    ASSUME ControlInv, NEW path, NEW args, NEW pages \in JunkPages,
           TaskInit(path, args, pages),
           running \in Task => tasks[running].state = "ready"
    PROVE  ControlInv'
<1> DEFINE t == NextPid
<1>1. NextPid < MaxTasks
  BY DEF TaskInit
<1>2. /\ t \in Task /\ tasks[t] = NoTask /\ t \in Nat
      /\ \A u \in Task : tasks[u] # NoTask <=> u < t
  BY <1>1, NextPidFree DEF Task
<1>3. /\ usable' = usable /\ kernel_pagemap' = kernel_pagemap /\ lock' = lock
      /\ running' = running
      /\ user_rsp' = [user_rsp EXCEPT ![t] = StackTop * PageSize]
      /\ job' = [phase |-> "open", new |-> t, path |-> path, base |-> 0,
                 header |-> 1, at_phdr |-> 0, ld_path |-> "NULL"]
  BY DEF TaskInit, boot
<1>4. PICK m1 : tasks' = IF halt' # "none" THEN tasks
                         ELSE [tasks EXCEPT ![t] =
                                  NewTask(FirstFree(Machine), FirstFree(m1), pages, path)]
  <2>1. \E m1 \in {pmm_allocate_zero(Machine, StackPages)} :
        \E m2 \in {pmm_allocate_zero(m1, 1)} :
          tasks' = IF halt' # "none" THEN tasks
                   ELSE [tasks EXCEPT ![t] =
                            NewTask(FirstFree(Machine), FirstFree(m1), pages, path)]
    BY Zenon DEF TaskInit
  <2> QED
    BY <2>1, Zenon
<1> DEFINE q == NewTask(FirstFree(Machine), FirstFree(m1), pages, path)
<1>5. IsTask(q) /\ q.state = "building" /\ q # NoTask
  <2>1. pages \in Nat
    BY LayoutAssumption
  <2>2. FirstFree(Machine) \in Frame /\ FirstFree(m1) \in Frame
    BY FirstFreeFrame
  <2>3. IsTask(q) /\ q.state = "building"
    BY <2>1, <2>2, TaskFresh
  <2> QED
    BY <2>3, TaskIsSome
<1> HIDE DEF q, t
<1>6. /\ TasksOK' /\ PidsOK' /\ \A u \in Task : u # t => tasks'[u] = tasks[u]
      /\ halt' = "none" => tasks'[t] = q
  <2>1. CASE halt' # "none"
    BY <1>4, <2>1 DEF ControlInv, TasksOK, PidsOK, t
  <2>2. CASE halt' = "none"
    <3>1. /\ tasks' = [u \in Task |-> tasks'[u]] /\ tasks'[t] = q
          /\ \A u \in Task : u # t => tasks'[u] = tasks[u]
      BY <1>2, <1>4, <2>2 DEF ControlInv, TasksOK, q, t
    <3>2. TasksOK'
      BY <1>5, <3>1 DEF TasksOK, ControlInv
    <3>3. \A u \in Task : tasks'[u] # NoTask <=> u < t + 1
      BY <1>2, <1>5, <3>1 DEF Task
    <3>4. t + 1 \in 0..MaxTasks
      BY <1>1, <1>2, NaturalSizes DEF t
    <3> QED
      BY <3>1, <3>2, <3>3, <3>4 DEF PidsOK
  <2> QED
    BY <2>1, <2>2
<1>7. running # t
  BY <1>2, BootAssumption DEF ControlInv
<1>8. running' \in Task => tasks'[running'] = tasks[running] /\ tasks[running] # NoTask
  BY <1>3, <1>6, <1>7 DEF ControlInv
<1>9. user_rsp' \in [Task -> Nat] /\ user_rsp'[t] = StackTop * PageSize
  <2>1. StackTop * PageSize \in Nat
    BY NaturalSizes
  <2> DEFINE x == StackTop * PageSize
  <2> HIDE DEF x
  <2> QED
    BY <1>2, <1>3, <2>1 DEF ControlInv, x
<1>10. ExecJob'
  <2>1. /\ job' = [x \in JobFields |-> job'[x]] /\ job'.phase = "open" /\ job'.new = t
        /\ job'.base = 0 /\ job'.header = 1
    BY <1>3 DEF JobFields
  <2> QED
    BY <1>2, <1>3, <1>5, <1>6, <1>7, <1>8, <1>9, <2>1 DEF ExecJob
<1> QED
  BY <1>3, <1>6, <1>8, <1>9, <1>10 DEF ControlInv, JobOK

\* The exec goes on with another job record and the same tasks.
LEMMA JobGoesOn ==
    ASSUME ControlInv, ExecJob, halt = "none",
           UNCHANGED <<usable, kernel_pagemap, lock, running, tasks, user_rsp>>,
           job' = [x \in JobFields |-> job'[x]],
           job'.phase \in {"open", "load", "stack", "push"},
           job'.new = job.new, job'.base = job.base, job'.header \in Nat \ {0},
           job'.phase \in {"load", "stack"} => job'.path \in DOMAIN Programs,
           job'.phase = "stack" => job.base = 0,
           job'.phase = "push" \/ job.phase \in {"open", "load", "stack"}
    PROVE  ControlInv'
<1>1. ExecJob'
  BY DEF ExecJob
<1>2. TasksOK' /\ PidsOK'
  BY DEF ControlInv, TasksOK, PidsOK
<1> QED
  BY <1>1, <1>2 DEF ControlInv, JobOK

LEMMA HeaderControl ==
    ASSUME ControlInv,
           LoadSegment \/ InterpreterHeader \/ PhdrHeader \/ OtherHeader
    PROVE  ControlInv'
<1>1. Phase("load") /\ UNCHANGED <<usable, kernel_pagemap, lock, running, tasks, user_rsp>>
  BY DEF LoadSegment, InterpreterHeader, PhdrHeader, OtherHeader, Header, boot, stacks
<1>2. ExecJob /\ halt = "none" /\ job.phase = "load"
  BY <1>1, PhaseJob DEF ControlInv, Phase
<1>3. Len(Program.headers) \in Nat
  BY <1>2, ProgramsAssumption DEF ExecJob, Program
<1>4. /\ job = [x \in JobFields |-> job[x]] /\ job.header \in Nat \ {0}
      /\ job.path \in DOMAIN Programs
  BY <1>2 DEF ExecJob
<1>5. /\ job' = [x \in JobFields |-> job'[x]]
      /\ job'.phase = "load" /\ job'.new = job.new /\ job'.base = job.base
      /\ job'.header \in Nat \ {0} /\ job'.path = job.path
  <2> DEFINE r == NextHeader
  <2>1. /\ r = [x \in JobFields |-> r[x]]
        /\ r.phase = "load" /\ r.new = job.new /\ r.base = job.base
        /\ r.header \in Nat \ {0} /\ r.path = job.path
    BY <1>4, <1>2 DEF NextHeader, JobFields
  <2> HIDE DEF r
  <2>2. CASE LoadSegment \/ OtherHeader
    BY <2>1, <2>2 DEF LoadSegment, OtherHeader, r
  <2>3. CASE PhdrHeader
    <3> DEFINE v == job.base * PageSize + Program.headers[job.header].va
    <3>1. job' = [r EXCEPT !.at_phdr = v]
      BY <2>3 DEF PhdrHeader, r
    <3> HIDE DEF v
    <3> QED
      BY <2>1, <3>1 DEF JobFields
  <2>4. CASE InterpreterHeader
    <3>1. CASE job' = [r EXCEPT !.ld_path = Program.interp]
      BY <2>1, <3>1 DEF JobFields
    <3>2. CASE job' = [job EXCEPT !.header = Len(Program.headers) + 1]
      <4> DEFINE v == Len(Program.headers) + 1
      <4>1. v \in Nat \ {0}
        BY <1>3
      <4> HIDE DEF v
      <4>2. job' = [job EXCEPT !.header = v]
        BY <3>2 DEF v
      <4> QED
        BY <1>2, <1>4, <4>1, <4>2 DEF JobFields
    <3> QED
      BY <2>4, <3>1, <3>2 DEF InterpreterHeader, r
  <2> QED
    BY <2>2, <2>3, <2>4
<1> QED
  BY <1>1, <1>2, <1>4, <1>5, JobGoesOn DEF ExecJob

LEMMA OpenControl ==
    ASSUME ControlInv, OpenFile
    PROVE  ControlInv'
<1>1. Phase("open") /\ UNCHANGED <<usable, kernel_pagemap, lock, running, tasks, user_rsp>>
  BY DEF OpenFile, boot, stacks
<1>2. ExecJob /\ halt = "none" /\ job.phase = "open"
  BY <1>1, PhaseJob DEF ControlInv, Phase
<1>3. /\ job' = [x \in JobFields |-> job'[x]]
      /\ job'.phase \in {"open", "load"} /\ job'.new = job.new /\ job'.base = job.base
      /\ job'.header \in Nat \ {0} /\ job'.path = job.path
      /\ job'.phase = "load" => job.path \in DOMAIN Programs
  BY <1>2 DEF OpenFile, ExecJob, JobFields
<1> QED
  BY <1>1, <1>2, <1>3, JobGoesOn

LEMMA EndLoadControl ==
    ASSUME ControlInv, EndLoad
    PROVE  ControlInv'
<1>1. /\ Phase("load") /\ UNCHANGED <<usable, kernel_pagemap, lock, running, user_rsp>>
      /\ tasks' = [tasks EXCEPT ![job.new].rip = job.base * PageSize + Program.entry]
      /\ job' = [job EXCEPT !.phase = IF job.base = 0 THEN "stack" ELSE "push"]
      /\ halt' \in {"none", "wild"}
  BY DEF EndLoad, boot, stacks
<1>2. ExecJob /\ halt = "none" /\ job.phase = "load" /\ job.new \in Task
  BY <1>1, PhaseJob DEF ControlInv, Phase, ExecJob
<1> DEFINE t == job.new
           v == job.base * PageSize + Program.entry
           q == [tasks[t] EXCEPT !.rip = v]
<1>3. v \in Nat
  <2>1. Program.entry \in Nat /\ job.base \in Nat /\ PageSize \in Nat
    BY <1>2, ProgramsAssumption, NaturalSizes DEF ExecJob, Program
  <2>2. job.base * PageSize \in Nat
    BY <2>1
  <2> QED
    BY <2>1, <2>2
<1> HIDE DEF v
<1>4. IsTask(tasks[t]) /\ tasks[t] # NoTask /\ tasks[t].state = "building"
  BY <1>2 DEF ControlInv, TasksOK, ExecJob
<1>5. IsTask(q) /\ q.state = "building"
  BY <1>3, <1>4, TaskWithRip
<1>6. OneTask(t, q)
  BY <1>1, <1>2 DEF ControlInv, TasksOK, OneTask, v
<1> HIDE DEF q
<1>7. /\ TasksOK' /\ PidsOK' /\ tasks'[t] = q
      /\ \A u \in Task : u # t => tasks'[u] = tasks[u]
      /\ \A u \in Task : tasks'[u] # NoTask <=> tasks[u] # NoTask
  BY <1>2, <1>4, <1>5, <1>6, OneTaskKeeps DEF ControlInv
<1>8. ExecJob'
  <2>1. /\ job' = [x \in JobFields |-> job'[x]] /\ job'.new = t /\ job'.base = job.base
        /\ job'.phase = (IF job.base = 0 THEN "stack" ELSE "push")
        /\ job'.header = job.header /\ job'.path = job.path
    BY <1>1, <1>2 DEF ExecJob, JobFields
  <2> QED
    BY <1>1, <1>2, <1>4, <1>5, <1>7, <2>1 DEF ExecJob
<1> QED
  BY <1>1, <1>7, <1>8 DEF ControlInv, JobOK

LEMMA FillStackControl ==
    ASSUME ControlInv, AlignInv, FillStack
    PROVE  ControlInv'
<1>1. /\ Phase("stack") /\ UNCHANGED <<usable, kernel_pagemap, lock, running, tasks>>
      /\ job' = IF job.ld_path = "NULL" THEN [job EXCEPT !.phase = "push"]
                ELSE [job EXCEPT !.phase = "open", !.path = job.ld_path,
                                 !.base = LdBase, !.header = 1]
  BY DEF FillStack, boot
<1>2. ExecJob /\ halt = "none" /\ job.phase = "stack" /\ job.base = 0 /\ job.new \in Task
  BY <1>1, PhaseJob DEF ControlInv, Phase, ExecJob
<1>3. user_rsp' \in [Task -> Nat]
  <2> DEFINE t == job.new
             k == Skip(given[t])
             a == StackPages * PageSize
             b == StackTop * PageSize
  <2>1. CASE user_rsp' = user_rsp
    BY <2>1 DEF ControlInv
  <2>2. CASE user_rsp' = [user_rsp EXCEPT ![t] = @ - k] /\ ~(k > a)
    <3>1. k \in Nat
      BY <1>2, AlignedSkip DEF AlignInv
    <3>2. a \in Nat /\ b \in Nat /\ a <= b
      <4>1. StackPages \in Nat /\ StackTop \in Nat /\ StackPages <= StackTop /\ PageSize \in Nat
        BY UserAssumption, NaturalSizes
      <4>2. PageSize * StackPages <= PageSize * StackTop
        BY <4>1, TimesMonotone
      <4> QED
        BY <4>1, <4>2, SMT
    <3>3. user_rsp[t] = b
      BY <1>2 DEF ExecJob
    <3> HIDE DEF k, a, b, t
    <3>4. user_rsp[t] - k \in Nat
      BY <2>2, <3>1, <3>2, <3>3
    <3> QED
      BY <2>2, <3>4 DEF ControlInv
  <2> QED
    BY <2>1, <2>2, Zenon DEF FillStack
<1>4. ExecJob'
  <2>1. CASE job.ld_path = "NULL"
    <3>1. /\ job' = [x \in JobFields |-> job'[x]] /\ job'.new = job.new /\ job'.base = job.base
          /\ job'.phase = "push" /\ job'.header = job.header /\ job'.path = job.path
      BY <1>1, <1>2, <2>1 DEF ExecJob, JobFields
    <3> QED
      BY <1>1, <1>2, <3>1 DEF ExecJob
  <2>2. CASE job.ld_path # "NULL"
    <3>1. /\ job' = [x \in JobFields |-> job'[x]] /\ job'.new = job.new /\ job'.base = LdBase
          /\ job'.phase = "open" /\ job'.header = 1
      BY <1>1, <1>2, <2>2 DEF ExecJob, JobFields
    <3>2. LdBase # 0 /\ 1 \in Nat \ {0}
      BY NaturalSizes
    <3> QED
      BY <1>1, <1>2, <3>1, <3>2 DEF ExecJob
  <2> QED
    BY <2>1, <2>2
<1>5. TasksOK' /\ PidsOK'
  BY <1>1 DEF ControlInv, TasksOK, PidsOK
<1> QED
  BY <1>1, <1>3, <1>4, <1>5 DEF ControlInv, JobOK

LEMMA PushControl ==
    ASSUME ControlInv, Push
    PROVE  ControlInv'
<1>1. /\ Phase("push") /\ UNCHANGED <<usable, kernel_pagemap, lock, running, user_rsp>>
      /\ tasks' = [tasks EXCEPT ![job.new].state = "ready"] /\ job' = NoJob
  BY DEF Push, boot, stacks
<1>2. ExecJob /\ halt = "none" /\ job.new \in Task
  BY <1>1, PhaseJob DEF ControlInv, Phase, ExecJob
<1> DEFINE t == job.new
           q == [tasks[t] EXCEPT !.state = "ready"]
<1>3. IsTask(tasks[t]) /\ tasks[t] # NoTask
  BY <1>2 DEF ControlInv, TasksOK, ExecJob
<1>4. IsTask(q)
  BY <1>3, TaskWithState DEF TaskState
<1>5. OneTask(t, q)
  BY <1>1, <1>2 DEF ControlInv, TasksOK, OneTask
<1> HIDE DEF q
<1>6. TasksOK' /\ PidsOK' /\ \A u \in Task : tasks'[u] # NoTask <=> tasks[u] # NoTask
  BY <1>2, <1>3, <1>4, <1>5, OneTaskKeeps DEF ControlInv
<1> QED
  BY <1>1, <1>6 DEF ControlInv, JobOK

\* A state with neither task in OnList is no task.
LEMMA ListedTask ==
    ASSUME TasksOK, NEW t \in Task, tasks[t].state \in TaskState
    PROVE  tasks[t] # NoTask /\ IsTask(tasks[t])
<1>1. NoTask.state = "none"
  BY DEF NoTask
<1> QED
  BY <1>1 DEF TasksOK, TaskState

\* A process that makes a system call.
LEMMA UserTask ==
    ASSUME ControlInv, NEW t \in Task, InUser(t)
    PROVE  /\ IsTask(tasks[t]) /\ tasks[t] # NoTask /\ tasks[t].state = "ready"
           /\ job = NoJob /\ running = t /\ halt = "none"
<1>1. tasks[t].state = "ready" /\ job = NoJob /\ running = t /\ halt = "none"
  BY DEF InUser
<1> QED
  BY <1>1, ListedTask DEF ControlInv, TaskState

\* A system call changes the task that makes it.
LEMMA OneTaskControl ==
    ASSUME ControlInv, NEW t \in Task, tasks[t] # NoTask, NEW q, IsTask(q), OneTask(t, q),
           UNCHANGED <<usable, kernel_pagemap, running, user_rsp>>, lock' \in BOOLEAN,
           job' = NoJob
    PROVE  ControlInv'
<1>1. /\ TasksOK' /\ PidsOK'
      /\ \A u \in Task : tasks'[u] # NoTask <=> tasks[u] # NoTask
  BY OneTaskKeeps DEF ControlInv
<1> QED
  BY <1>1 DEF ControlInv, JobOK

\* mmap, whichever region it returns.
LEMMA MmapControl ==
    ASSUME ControlInv, NEW t \in Task, NEW virt, NEW n \in Nat, NEW fixed, Mmap(t, virt, n, fixed)
    PROVE  ControlInv'
<1> DEFINE p == UsedPages(t, n, fixed)
           g == Append(tasks[t].regions, [page |-> virt, pages |-> n, fixed |-> fixed])
           q == [tasks[t] EXCEPT !.used_pages = p, !.regions = g]
<1>1. InUser(t)
  BY DEF Mmap
<1>2. IsTask(tasks[t]) /\ tasks[t] # NoTask /\ job = NoJob
  BY <1>1, UserTask
<1>3. p \in Nat
  BY <1>2 DEF IsTask, UsedPages
<1> HIDE DEF p
<1>4. tasks' = [tasks EXCEPT ![t].used_pages = p,
                             ![t].regions = Append(@, [page |-> virt, pages |-> n,
                                                       fixed |-> fixed])]
  BY Zenon DEF Mmap, p
<1>5. OneTask(t, q)
  BY <1>2, <1>4 DEF OneTask, ControlInv, TasksOK
<1> HIDE DEF g
<1>6. IsTask(q)
  BY <1>2, <1>3, TaskWithRegion
<1> HIDE DEF q
<1>7. UNCHANGED <<usable, kernel_pagemap, lock, running, user_rsp, job>>
  BY DEF Mmap, boot, stacks
<1> QED
  BY <1>2, <1>5, <1>6, <1>7, OneTaskControl DEF ControlInv

LEMMA CallControl ==
    ASSUME ControlInv, NEW t \in Task, NEW freed, CallUnfinished(t) \/ SysExit(t, freed)
    PROVE  ControlInv'
<1>1. InUser(t)
  BY DEF CallUnfinished, SysExit
<1>2. IsTask(tasks[t]) /\ tasks[t] # NoTask /\ job = NoJob
  BY <1>1, UserTask
<1>3. UNCHANGED <<usable, kernel_pagemap, running, user_rsp, job>> /\ lock' \in BOOLEAN
  BY DEF CallUnfinished, SysExit, boot, stacks, ControlInv
<1>4. PICK s \in TaskState : tasks' = [tasks EXCEPT ![t].state = s]
  <2>1. "lost" \in TaskState /\ "dead" \in TaskState
    BY DEF TaskState
  <2> QED
    BY <2>1 DEF CallUnfinished, SysExit
<1> DEFINE q == [tasks[t] EXCEPT !.state = s]
<1>5. IsTask(q) /\ OneTask(t, q)
  BY <1>2, <1>4, TaskWithState DEF OneTask, ControlInv, TasksOK
<1> QED
  BY <1>2, <1>3, <1>5, OneTaskControl

LEMMA SwitchControl ==
    ASSUME ControlInv, NEW t \in Task, Switch(t)
    PROVE  ControlInv'
<1>1. /\ UNCHANGED <<usable, kernel_pagemap, user_rsp>> /\ lock' \in BOOLEAN
      /\ running' = t /\ job' = NoJob /\ OnList(t)
  BY DEF Switch, boot, stacks, ControlInv
<1>2. tasks[t] # NoTask
  BY <1>1, ListedTask DEF OnList, TaskState, ControlInv
<1>3. /\ TasksOK' /\ PidsOK'
      /\ \A u \in Task : tasks'[u] # NoTask <=> tasks[u] # NoTask
  <2>1. CASE tasks' = tasks
    BY <2>1 DEF ControlInv, TasksOK, PidsOK
  <2>2. CASE tasks' = [tasks EXCEPT ![running].state = "lost"]
    <3>1. CASE running \in Task
      <4> DEFINE q == [tasks[running] EXCEPT !.state = "lost"]
      <4>1. tasks[running] # NoTask /\ IsTask(tasks[running])
        BY <3>1 DEF ControlInv, TasksOK
      <4>2. IsTask(q) /\ OneTask(running, q)
        BY <2>2, <3>1, <4>1, TaskWithState DEF OneTask, ControlInv, TasksOK, TaskState
      <4> HIDE DEF q
      <4> QED
        BY <3>1, <4>1, <4>2, OneTaskKeeps DEF ControlInv
    <3>2. CASE running \notin Task
      <4>1. tasks' = tasks
        BY <2>2, <3>2 DEF ControlInv, TasksOK
      <4> QED
        BY <2>1, <4>1
    <3> QED
      BY <3>1, <3>2
  <2> QED
    BY <2>1, <2>2 DEF Switch
<1> QED
  BY <1>1, <1>2, <1>3 DEF ControlInv, JobOK

\* The tables of tasks, the job and the machine's other variables.
LEMMA HaltControl ==
    ASSUME ControlInv, SwitchToDead \/ NoProcess \/ MmapAstray \/ UNCHANGED vars
    PROVE  ControlInv'
<1>1. UNCHANGED <<usable, kernel_pagemap, lock, tasks, running, user_rsp, job>>
  BY DEF SwitchToDead, NoProcess, MmapAstray, vars, boot, stacks
<1>2. halt' = "none" => halt = "none"
  BY DEF SwitchToDead, NoProcess, MmapAstray, vars, machine
<1>3. TasksOK' /\ PidsOK'
  BY <1>1 DEF ControlInv, TasksOK, PidsOK
<1>4. JobOK'
  BY <1>1, <1>2 DEF ControlInv, JobOK, VmmJob, ExecJob, NoTasks, Windows
<1> QED
  BY <1>1, <1>3, <1>4 DEF ControlInv

\* The number of pages of a region.
LEMMA RegionSize ==
    ASSUME NEW size \in Sizes
    PROVE  PagesFor(size) \in Nat
<1>1. size \in Nat /\ PageSize \in Nat \ {0} /\ size + PageSize - 1 \in Nat
  BY UserAssumption, NaturalSizes
<1> QED
  BY <1>1, Division DEF PagesFor

LEMMA ControlInit == Init => ControlInv
<1> SUFFICES ASSUME Init PROVE ControlInv
  OBVIOUS
<1>1. TasksOK /\ PidsOK /\ NoTasks
  <2>1. \A t \in Task : ~(t < 0)
    BY DEF Task
  <2>2. 0 \in 0..MaxTasks
    BY NaturalSizes
  <2> QED
    BY <2>1, <2>2 DEF Init, TasksOK, PidsOK, NoTasks
<1> QED
  BY <1>1, BootAssumption, NaturalSizes DEF Init, ControlInv, JobOK

\* Every step keeps the control state.
LEMMA ControlStep ==
    ASSUME ControlInv, AlignInv, [Next]_vars
    PROVE  ControlInv'
<1>1. ASSUME NEW pages \in JunkPages, FirstProcess(pages)
      PROVE  ControlInv'
  <2>1. TaskInit(InitPath, InitArgs, pages) /\ job.phase = "init"
    BY <1>1 DEF FirstProcess, Phase
  <2>2. running = Boot
    BY <2>1, PhaseJob DEF ControlInv, NoTasks
  <2> QED
    BY <2>1, <2>2, BootAssumption, TaskInitControl
<1>2. ASSUME NEW pages \in JunkPages, NEW c \in Calls, SysExecve(c.path, c.args, pages)
      PROVE  ControlInv'
  <2>1. TaskInit(c.path, c.args, pages) /\ \E t \in Task : InUser(t)
    BY <1>2 DEF SysExecve
  <2>2. running \in Task => tasks[running].state = "ready"
    BY <2>1 DEF InUser
  <2> QED
    BY <2>1, <2>2, TaskInitControl
<1>3. CASE Load
  BY <1>3, OpenControl, HeaderControl, EndLoadControl, FillStackControl, PushControl, Zenon
  DEF Load
<1>4. ASSUME NEW t \in Task, NEW size \in Sizes,
             SysMmap(t, size) \/ \E hint \in Hints : SysMmapFixed(t, hint, size)
      PROVE  ControlInv'
  <2>1. PICK virt, fixed : Mmap(t, virt, PagesFor(size), fixed)
    BY <1>4, Zenon DEF SysMmap, SysMmapFixed
  <2> QED
    BY <2>1, RegionSize, MmapControl
<1>5. ASSUME NEW t \in Task, CallUnfinished(t) \/ (\E freed : SysExit(t, freed)) \/ Switch(t)
      PROVE  ControlInv'
  BY <1>5, CallControl, SwitchControl, Zenon
<1>6. CASE \/ NewKernelPagemap \/ MapWindows \/ NextWindow \/ LoadPagemap
           \/ SwitchToDead \/ NoProcess \/ MmapAstray \/ Idle \/ UNCHANGED vars
  BY <1>6, BootControl, HaltControl, Zenon DEF Idle
<1> QED
  BY <1>1, <1>2, <1>3, <1>4, <1>5, <1>6, Zenon DEF Next

-----------------------------------------------------------------------------
(* What a step does to the machine.                                          *)

\* New pages of t were free.
NewOwned(m, own, own2, t) ==
    \A f \in Frame : own[f] = Nobody /\ own2[f] # Nobody => own2[f] = t /\ f \notin m.used

\* The bytes that are written are in pages of t.
BytesFor(m, m2, own2, t) ==
    DOMAIN m2.bytes \subseteq DOMAIN m.bytes \cup BytesOf({f \in Frame : own2[f] = t})

\* As Grew, with t writing to its pages too, and over a whole step.
Extends(m, own, lvl, m2, own2, lvl2, t) ==
    /\ Held(m2, own2, lvl2)
    /\ m.used \subseteq m2.used
    /\ m2.cr3 = m.cr3
    /\ Kept(own, lvl, own2, lvl2)
    /\ NewOwned(m, own, own2, t)
    /\ BytesFor(m, m2, own2, t)
    /\ OthersSame(m.mem, own, m2.mem, t)
    /\ UpperSame(m.mem, own, lvl, m2.mem, t)
    /\ Stays(m.mem, own, lvl, m2.mem, t)
    /\ FreshLeaves(m.mem, own, lvl, m2.mem, own2, lvl2, t, m.used)

\* Operations that grow the tables of t extend the machine.
LEMMA GrewExtends ==
    ASSUME NEW m, NEW own, NEW lvl, NEW m2, NEW own2, NEW lvl2, NEW t,
           Grew(m, own, lvl, m2, own2, lvl2, t, m.used)
    PROVE  Extends(m, own, lvl, m2, own2, lvl2, t)
<1>1. NewOwned(m, own, own2, t)
  BY DEF Grew, NewFor, NewOwned
<1>2. BytesFor(m, m2, own2, t)
  BY DEF Grew, BytesFor
<1> QED
  BY <1>1, <1>2 DEF Grew, Extends

\* The fields of the machine that differ in m2, other than bytes, do not count.
LEMMA ExtendsSame ==
    ASSUME NEW m, NEW own, NEW lvl, NEW m2, NEW own2, NEW lvl2, NEW t,
           Extends(m, own, lvl, m2, own2, lvl2, t),
           NEW m3, IsMachine(m3), m3.mem = m2.mem, m3.used = m2.used, m3.cr3 = m2.cr3,
           BytesFor(m, m3, own2, t)
    PROVE  Extends(m, own, lvl, m3, own2, lvl2, t)
<1>1. Held(m3, own2, lvl2)
  BY DEF Extends, Held
<1> QED
  BY <1>1 DEF Extends

\* The variables hold a machine.
LEMMA MachineFieldsAre ==
    /\ Machine = [x \in MachineFields |-> Machine[x]]
    /\ Machine.mem = mem /\ Machine.bytes = bytes /\ Machine.used = used
    /\ Machine.cr3 = cr3 /\ Machine.halt = halt /\ Machine.table = 0
  BY DEF Machine, MachineFields

LEMMA NextMachineFieldsAre ==
    /\ Machine' = [x \in MachineFields |-> Machine'[x]]
    /\ Machine'.mem = mem' /\ Machine'.bytes = bytes' /\ Machine'.used = used'
    /\ Machine'.cr3 = cr3' /\ Machine'.halt = halt' /\ Machine'.table = 0
  BY DEF Machine, MachineFields

LEMMA BecomesMachine ==
    ASSUME NEW m, IsMachine(m), Becomes(m)
    PROVE  /\ IsMachine(Machine')
           /\ Machine'.mem = m.mem /\ Machine'.bytes = m.bytes /\ Machine'.used = m.used
           /\ Machine'.cr3 = m.cr3 /\ Machine'.halt = m.halt
<1> DEFINE p == Machine'
<1>1. /\ p = [x \in MachineFields |-> p[x]]
      /\ p.mem = m.mem /\ p.bytes = m.bytes /\ p.used = m.used
      /\ p.cr3 = m.cr3 /\ p.halt = m.halt /\ p.table = 0
  BY NextMachineFieldsAre DEF Becomes
<1> HIDE DEF p
<1>2. IsMachine(p)
  BY <1>1, NaturalSizes DEF IsMachine
<1> QED
  BY <1>1, <1>2 DEF p

LEMMA BecomesExtends ==
    ASSUME NEW m, NEW own, NEW lvl, NEW m2, NEW own2, NEW lvl2, NEW t,
           Extends(m, own, lvl, m2, own2, lvl2, t), Becomes(m2)
    PROVE  Extends(m, own, lvl, Machine', own2, lvl2, t)
<1> DEFINE p == Machine'
<1>1. IsMachine(m2)
  BY DEF Extends, Held
<1>2. /\ IsMachine(p) /\ p.mem = m2.mem /\ p.bytes = m2.bytes /\ p.used = m2.used
      /\ p.cr3 = m2.cr3
  BY <1>1, BecomesMachine
<1> HIDE DEF p
<1>3. BytesFor(m, p, own2, t)
  BY <1>2 DEF Extends, BytesFor
<1>4. Extends(m, own, lvl, p, own2, lvl2, t)
  BY <1>2, <1>3, ExtendsSame
<1> QED
  BY <1>4 DEF p

-----------------------------------------------------------------------------
(* task_init.                                                                *)

\* The upper halves of two tables are the same.
SameHalf(mem1, map, other) ==
    \A i \in Index : i >= Fan \div 2 => mem1[map][i] = mem1[other][i]

\* The kernel's half is written to the page map, and nothing else.
LEMMA CopyMachine ==
    ASSUME NEW m, IsMachine(m), NEW map \in Frame, kernel_pagemap \in Frame,
           CopyKernelHalf(m, map).halt = "none"
    PROVE  LET m2 == CopyKernelHalf(m, map)
           IN  /\ IsMachine(m2) /\ m.halt = "none"
               /\ m2.used = m.used /\ m2.bytes = m.bytes /\ m2.cr3 = m.cr3
               /\ \A f \in Frame : f # map => m2.mem[f] = m.mem[f]
               /\ \A i \in Index : m2.mem[map][i] = IF i >= Fan \div 2
                                                    THEN m.mem[kernel_pagemap][i]
                                                    ELSE m.mem[map][i]
<1> DEFINE m2 == CopyKernelHalf(m, map)
           row == [i \in Index |-> IF i >= Fan \div 2 THEN m.mem[kernel_pagemap][i]
                                   ELSE m.mem[map][i]]
<1>1. Stop(m, "fault").halt = "fault"
  BY StopMachine DEF HaltReason
<1>2. m.halt = "none" /\ m2 = [m EXCEPT !.mem[map] = row]
  BY <1>1 DEF CopyKernelHalf, IsMachine, IsMemory
<1>3. row \in [Index -> Entry]
  BY DEF IsMachine, IsMemory
<1>4. \A i \in Index : row[i] = IF i >= Fan \div 2 THEN m.mem[kernel_pagemap][i]
                                ELSE m.mem[map][i]
  OBVIOUS
<1> HIDE DEF row, m2
<1>5. /\ m2 = [x \in MachineFields |-> m2[x]]
      /\ m2.mem = [m.mem EXCEPT ![map] = row]
      /\ m2.used = m.used /\ m2.bytes = m.bytes /\ m2.cr3 = m.cr3
      /\ m2.table = m.table /\ m2.halt = m.halt
  BY <1>2 DEF IsMachine, MachineFields
<1>6. /\ IsMemory(m2.mem) /\ m2.mem[map] = row
      /\ \A f \in Frame : f # map => m2.mem[f] = m.mem[f]
  BY <1>3, <1>5 DEF IsMachine, IsMemory
<1>7. IsMachine(m2)
  BY <1>5, <1>6 DEF IsMachine
<1> QED
  BY <1>2, <1>4, <1>5, <1>6, <1>7 DEF m2

\* A page that is owned is not some other owner's, and no process is Kern.
LEMMA TaskOwner ==
    ASSUME NEW t \in Task
    PROVE  t \in Owner \ {Nobody} /\ t # Kern /\ t # Nobody /\ Kern # Nobody /\ Rights(t) = UserFlags
  BY DEF Task, Owner, Kern, Nobody, Rights

\* Copying the kernel's half into the page map of a process that had nothing.
LEMMA CopyGrew ==
    ASSUME NEW m, NEW own, NEW lvl, Held(m, own, lvl), NEW t \in Task,
           \A f \in Frame : own[f] # t,
           kernel_pagemap \in Frame, NEW map \in Frame,
           NEW m2, NEW own2, NEW lvl2, Grew(m, own, lvl, m2, own2, lvl2, t, m.used),
           m2.halt = "none", own2[map] = t, lvl2[map] = 4, own2[kernel_pagemap] = Kern
    PROVE  LET m3 == CopyKernelHalf(m2, map)
           IN  /\ Grew(m, own, lvl, m3, own2, lvl2, t, m.used)
               /\ m3.halt = "none" =>
                     /\ Orphans(m2, own2, lvl2, m3, own2, lvl2, -1)
                     /\ SameHalf(m3.mem, map, kernel_pagemap)
<1> DEFINE m3 == CopyKernelHalf(m2, map)
<1>1. Held(m2, own2, lvl2) /\ IsMachine(m2)
  BY DEF Grew, Held
<1>2. t \in Owner \ {Nobody} /\ t # Kern /\ t # Nobody
  BY TaskOwner
<1>3. CASE m3.halt # "none"
  <2>1. m3 = Stop(m2, "fault")
    BY <1>3 DEF CopyKernelHalf, IsMachine, MachineFields
  <2>2. Grew(m2, own2, lvl2, m3, own2, lvl2, t, m.used)
    <3>1. "fault" \in HaltReason \ {"none"}
      BY DEF HaltReason
    <3> QED
      BY <1>1, <2>1, <3>1, GrewStop
  <2> HIDE DEF m3
  <2>3. Grew(m, own, lvl, m3, own2, lvl2, t, m.used)
    BY <1>2, <2>2, GrewThen
  <2> QED
    BY <1>3, <2>3 DEF m3
<1>4. CASE m3.halt = "none"
  <2>1. /\ IsMachine(m3) /\ m3.used = m2.used /\ m3.bytes = m2.bytes /\ m3.cr3 = m2.cr3
        /\ \A f \in Frame : f # map => m3.mem[f] = m2.mem[f]
        /\ \A i \in Index : m3.mem[map][i] = IF i >= Fan \div 2
                                             THEN m2.mem[kernel_pagemap][i]
                                             ELSE m2.mem[map][i]
    BY <1>1, <1>4, CopyMachine
  <2> HIDE DEF m3
  <2>2. \A g \in Frame, j \in Index : Slot(own2, lvl2, g, j) => m3.mem[g][j] = m2.mem[g][j]
    <3> SUFFICES ASSUME NEW g \in Frame, NEW j \in Index, Slot(own2, lvl2, g, j)
                 PROVE  m3.mem[g][j] = m2.mem[g][j]
      OBVIOUS
    <3>1. CASE g # map
      BY <2>1, <3>1
    <3>2. CASE g = map
      <4>1. j < Fan \div 2
        BY <1>2, <3>2 DEF Slot
      <4>2. ~(j >= Fan \div 2)
        BY <4>1, Spans DEF Index
      <4> QED
        BY <2>1, <3>2, <4>2
    <3> QED
      BY <3>1, <3>2
  <2>3. /\ Tree(m3.mem, own2, lvl2) /\ Lone(m3.mem, own2, lvl2)
        /\ \A d \in Frame : Orphan(m2.mem, own2, lvl2, d) => Orphan(m3.mem, own2, lvl2, d)
    BY <1>1, <2>1, <2>2, PutOutside DEF Held, IsMachine
  <2>4. Held(m3, own2, lvl2)
    BY <1>1, <2>1, <2>3 DEF Held
  <2>5. Orphans(m2, own2, lvl2, m3, own2, lvl2, -1)
    BY <2>3 DEF Orphans
  <2>6. SameHalf(m3.mem, map, kernel_pagemap)
    <3>1. kernel_pagemap # map
      BY <1>2
    <3> QED
      BY <2>1, <3>1 DEF SameHalf
  <2>7. UpperSame(m.mem, own, lvl, m3.mem, t) /\ Stays(m.mem, own, lvl, m3.mem, t)
    BY DEF UpperSame, Stays
  <2>8. OthersSame(m.mem, own, m3.mem, t)
    <3>1. OthersSame(m.mem, own, m2.mem, t) /\ Kept(own, lvl, own2, lvl2)
      BY DEF Grew
    <3> QED
      BY <2>1, <3>1 DEF OthersSame, Kept
  <2>9. FreshLeaves(m.mem, own, lvl, m3.mem, own2, lvl2, t, m.used)
    <3>1. FreshLeaves(m.mem, own, lvl, m2.mem, own2, lvl2, t, m.used)
      BY DEF Grew
    <3>2. \A f \in Frame : lvl2[f] = 1 => f # map
      OBVIOUS
    <3> QED
      BY <2>1, <3>1, <3>2 DEF FreshLeaves
  <2>10. NewFor(m, own, m3, own2, t)
    BY <2>1 DEF Grew, NewFor
  <2>11. Grew(m, own, lvl, m3, own2, lvl2, t, m.used)
    <3>1. m3.halt = "none" => m.halt = "none"
      BY DEF Grew
    <3> QED
      BY <2>1, <2>4, <2>7, <2>8, <2>9, <2>10, <3>1 DEF Grew
  <2> QED
    BY <2>5, <2>6, <2>11 DEF m3
<1> QED
  BY <1>3, <1>4

\* The machine with the stack, the page map and the tables of a new process.
NewSpace(m) ==
    LET m1 == pmm_allocate_zero(m, StackPages)
        m2 == pmm_allocate_zero(m1, 1)
    IN  IF m2.halt # "none" THEN m2
        ELSE BuildSpace(m2, FirstFree(m), FirstFree(m1))

NewMap(m) == FirstFree(pmm_allocate_zero(m, StackPages))

\* A page map of t, with a stack, and with the kernel's half.
IsSpace(m, own, lvl, map, sp, t, kern) ==
    /\ map \in Frame /\ own[map] = t /\ lvl[map] = 4
    /\ \A f \in sp..sp + StackPages - 1 : f \in Frame /\ own[f] = t /\ lvl[f] = 0
    /\ SameHalf(m.mem, map, kern)

\* The pages of a stack.
LEMMA StackRange ==
    /\ StackTop - StackPages \in Nat
    /\ \A t \in Task : \A j \in 0..StackPages - 1 : Half((StackTop - StackPages) + j, t)
<1>1. StackPages \in Nat \ {0} /\ StackTop \in Nat /\ StackPages <= StackTop
      /\ StackTop <= (Fan \div 2) * Span[4]
  BY UserAssumption, NaturalSizes
<1> DEFINE u == (Fan \div 2) * Span[4]
           w == Fan * Span[4]
<1>2. u \in Nat /\ w \in Nat /\ u <= w
  <2>1. Fan \div 2 \in Nat /\ Fan \in Nat /\ Fan \div 2 <= Fan /\ Span[4] \in Nat
    BY Spans
  <2>2. Span[4] * (Fan \div 2) \in Nat /\ Span[4] * Fan \in Nat
        /\ Span[4] * (Fan \div 2) <= Span[4] * Fan
    BY <2>1, TimesMonotone
  <2> QED
    BY <2>1, <2>2, SMT
<1> HIDE DEF u, w
<1>3. \A j \in 0..StackPages - 1 : (StackTop - StackPages) + j \in 0..u - 1
  BY <1>1, <1>2 DEF u
<1>4. \A j \in 0..StackPages - 1 :
         (StackTop - StackPages) + j \in Page /\ (StackTop - StackPages) + j \in UserPage
  BY <1>2, <1>3 DEF Page, UserPage, u, w
<1> QED
  BY <1>1, <1>4, UserEntry DEF Half

\* What a run of n pages is.
LEMMA GrantedPages ==
    ASSUME NEW m, NEW n \in Nat
    PROVE  /\ \A j \in 0..n - 1 : FirstFree(m) + j \in Granted(m, n)
           /\ n # 0 => FirstFree(m) \in Granted(m, n)
<1>1. FirstFree(m) \in Nat
  BY FirstFreeFrame DEF Frame
<1> QED
  BY <1>1 DEF Granted

\* task_init on behalf of the new process t.
LEMMA NewSpaceGrew ==
    ASSUME NEW m, NEW own, NEW lvl, Held(m, own, lvl), NEW t \in Task,
           \A f \in Frame : own[f] # t,
           kernel_pagemap \in Frame, own[kernel_pagemap] = Kern
    PROVE  \E own2, lvl2 :
              /\ Grew(m, own, lvl, NewSpace(m), own2, lvl2, t, m.used)
              /\ NewSpace(m).halt = "none" =>
                    IsSpace(NewSpace(m), own2, lvl2, NewMap(m), FirstFree(m), t, kernel_pagemap)
<1> DEFINE U == m.used
           sp == FirstFree(m)
           m1 == pmm_allocate_zero(m, StackPages)
           map == FirstFree(m1)
           m2 == pmm_allocate_zero(m1, 1)
           m3 == CopyKernelHalf(m2, map)
           m4 == MapRange(m3, map, sp, StackTop - StackPages, StackPages, UserFlags)
<1>1. /\ t \in Owner \ {Nobody} /\ t # Kern /\ t # Nobody /\ Kern # Nobody
      /\ StackPages \in Nat \ {0} /\ StackPages \in Nat /\ 1 \in Nat /\ 0 \in 0..4 /\ 4 \in 0..4
  BY TaskOwner, NaturalSizes
<1>2. /\ sp \in Frame /\ map \in Frame /\ sp \in Nat
  BY FirstFreeFrame DEF Frame
<1>3. NewSpace(m) = IF m2.halt # "none" THEN m2 ELSE m4
  BY DEF NewSpace, BuildSpace
<1>4. map = NewMap(m)
  BY DEF NewMap
<1>5. PICK own1, lvl1 :
         /\ Grew(m, own, lvl, m1, own1, lvl1, t, U)
         /\ m1.halt = "none" => /\ Given(m1, own1, lvl1, Granted(m, StackPages), t, 0)
                                /\ Granted(m, StackPages) \subseteq Free(m)
  BY <1>1, AllocateGrew
<1>6. Held(m1, own1, lvl1)
  BY <1>5 DEF Grew
<1>7. PICK own2, lvl2 :
         /\ Grew(m1, own1, lvl1, m2, own2, lvl2, t, U)
         /\ Orphans(m1, own1, lvl1, m2, own2, lvl2, -1)
         /\ m2.halt = "none" => Given(m2, own2, lvl2, Granted(m1, 1), t, 4)
  <2> HIDE DEF m1
  <2> QED
    BY <1>1, <1>6, AllocateGrew
<1> HIDE DEF m1, m2, m3, m4, sp, map
<1>8. Grew(m, own, lvl, m2, own2, lvl2, t, U) /\ Held(m2, own2, lvl2)
  <2>1. U \subseteq m.used
    OBVIOUS
  <2> HIDE DEF U
  <2>2. Grew(m, own, lvl, m2, own2, lvl2, t, U)
    BY <1>1, <1>5, <1>7, <2>1, GrewThen
  <2> QED
    BY <2>2 DEF Grew
<1>9. CASE m2.halt # "none"
  BY <1>3, <1>8, <1>9
<1>10. CASE m2.halt = "none"
  <2>1. m1.halt = "none"
    BY <1>7, <1>10 DEF Grew
  <2>2. own2[map] = t /\ lvl2[map] = 4
    <3>1. map \in Granted(m1, 1)
      BY GrantedPages DEF map
    <3> QED
      BY <1>7, <1>10, <3>1 DEF Given
  <2>3. own2[kernel_pagemap] = Kern
    BY <1>1, <1>8 DEF Grew, Kept
  <2>4. /\ Grew(m, own, lvl, m3, own2, lvl2, t, U)
        /\ m3.halt = "none" =>
              /\ Orphans(m2, own2, lvl2, m3, own2, lvl2, -1)
              /\ SameHalf(m3.mem, map, kernel_pagemap)
    BY <1>2, <1>8, <1>10, <2>2, <2>3, CopyGrew DEF m3
  <2>5. Held(m3, own2, lvl2) /\ m.used \subseteq m3.used
    BY <2>4 DEF Grew
  <2>6. ASSUME NEW j \in 0..StackPages - 1
        PROVE  /\ sp + j \in Frame /\ own2[sp + j] = t /\ lvl2[sp + j] = 0 /\ sp + j \notin U
               /\ m3.halt = "none" => Orphan(m3.mem, own2, lvl2, sp + j)
    <3> DEFINE f == sp + j
    <3>1. f \in Granted(m, StackPages)
      BY <1>1, GrantedPages DEF sp
    <3> HIDE DEF f
    <3>2. /\ f \in Frame /\ own1[f] = t /\ lvl1[f] = 0 /\ f \notin U
          /\ Orphan(m1.mem, own1, lvl1, f)
      BY <1>5, <2>1, <3>1 DEF Given, Free
    <3>3. own2[f] = t /\ lvl2[f] = 0
      BY <1>1, <1>7, <3>2, GrewOwner
    <3>4. f \in Frame \ {-1}
      BY <3>2 DEF Frame
    <3>5. Orphan(m2.mem, own2, lvl2, f)
      BY <1>1, <1>7, <3>2, <3>4 DEF Orphans
    <3>6. m3.halt = "none" => Orphan(m3.mem, own2, lvl2, f)
      BY <1>1, <2>4, <3>3, <3>4, <3>5 DEF Orphans
    <3> QED
      BY <3>2, <3>3, <3>6 DEF f
  <2>7. /\ \A j \in 0..StackPages - 1 : sp + j \in Frame
        /\ m3.halt = "none" => Waiting(m3, own2, lvl2, sp, 0, StackPages, t, U)
    BY <2>6 DEF Waiting
  <2>8. PICK own4, lvl4 : Grew(m3, own2, lvl2, m4, own4, lvl4, t, U)
    <3>1. /\ StackTop - StackPages \in Nat
          /\ \A j \in 0..StackPages - 1 : Half((StackTop - StackPages) + j, t)
      BY StackRange
    <3> DEFINE page == StackTop - StackPages
    <3> HIDE DEF page
    <3>2. page \in Nat /\ \A j \in 0..StackPages - 1 : Half(page + j, t)
      BY <3>1 DEF page
    <3>3. m4 = MapRange(m3, map, sp, page, StackPages, UserFlags)
      BY DEF m4, page
    <3> HIDE DEF U
    <3>4. U \subseteq m3.used
      BY <2>5 DEF U
    <3> QED
      BY <1>1, <1>2, <2>2, <2>5, <2>7, <3>2, <3>3, <3>4, MapRangeGrew
  <2>9. Grew(m, own, lvl, m4, own4, lvl4, t, U)
    BY <1>1, <2>4, <2>8, GrewThen
  <2>10. ASSUME m4.halt = "none"
         PROVE  IsSpace(m4, own4, lvl4, map, sp, t, kernel_pagemap)
    <3>1. m3.halt = "none"
      BY <2>8, <2>10 DEF Grew
    <3>2. own4[map] = t /\ lvl4[map] = 4
      BY <1>1, <1>2, <2>2, <2>8, GrewOwner
    <3>3. \A f \in sp..sp + StackPages - 1 : f \in Frame /\ own4[f] = t /\ lvl4[f] = 0
      <4>1. \A f \in sp..sp + StackPages - 1 : f - sp \in 0..StackPages - 1 /\ sp + (f - sp) = f
        BY <1>1, <1>2
      <4>2. \A f \in sp..sp + StackPages - 1 : f \in Frame /\ own2[f] = t /\ lvl2[f] = 0
        BY <2>6, <4>1
      <4> QED
        BY <1>1, <2>8, <4>2, GrewOwner
    <3>4. SameHalf(m4.mem, map, kernel_pagemap)
      <4>1. UpperSame(m3.mem, own2, lvl2, m4.mem, t) /\ OthersSame(m3.mem, own2, m4.mem, t)
        BY <2>8 DEF Grew
      <4>2. m4.mem[kernel_pagemap] = m3.mem[kernel_pagemap]
        BY <1>1, <2>3, <4>1 DEF OthersSame
      <4>3. ASSUME NEW i \in Index, i >= Fan \div 2
            PROVE  m4.mem[map][i] = m3.mem[map][i]
        <5>1. ~(i < Fan \div 2)
          BY <4>3, Spans DEF Index
        <5>2. ~Slot(own2, lvl2, map, i)
          BY <1>1, <2>2, <5>1 DEF Slot
        <5> QED
          BY <1>1, <1>2, <2>2, <4>1, <5>2 DEF UpperSame
      <4> QED
        BY <2>4, <3>1, <4>2, <4>3 DEF SameHalf
    <3> QED
      BY <1>2, <3>2, <3>3, <3>4 DEF IsSpace
  <2> QED
    BY <1>3, <1>4, <1>10, <2>9, <2>10 DEF sp
<1> QED
  BY <1>9, <1>10

-----------------------------------------------------------------------------
(* The bytes of physical pages.                                              *)

\* The page of an address between two pages.
LEMMA DivisionBetween ==
    ASSUME NEW b \in Nat \ {0}, NEW p \in Nat, NEW q \in Nat, NEW a \in Nat,
           b * p <= a, a < b * q
    PROVE  a \div b \in p..q - 1
<1> DEFINE d == a \div b
           bd == b * d
<1>1. d \in Nat /\ bd \in Nat /\ bd <= a /\ a < bd + b
  BY Division
<1>2. b * p \in Nat /\ b * q \in Nat
  BY TimesMonotone
<1>3. p <= d
  <2>1. SUFFICES ASSUME d + 1 <= p PROVE FALSE
    BY <1>1
  <2>2. b * (d + 1) <= b * p
    BY <1>1, <2>1, TimesMonotone
  <2>3. b * (d + 1) = bd + b
    BY <1>1
  <2> HIDE DEF d, bd
  <2> QED
    BY <1>1, <1>2, <2>2, <2>3
<1>4. d < q
  <2>1. SUFFICES ASSUME q <= d PROVE FALSE
    BY <1>1
  <2>2. b * q <= bd
    BY <1>1, <2>1, TimesMonotone
  <2> HIDE DEF d, bd
  <2> QED
    BY <1>1, <1>2, <2>2
<1> HIDE DEF d, bd
<1>5. d \in p..q - 1
  BY <1>1, <1>3, <1>4
<1> QED
  BY <1>5 DEF d

\* The bytes of a set of pages.
LEMMA BytesAt ==
    ASSUME NEW S \in SUBSET Nat, NEW a
    PROVE  a \in BytesOf(S) <=> a \in Nat /\ a \div PageSize \in S
<1>1. PageSize \in Nat \ {0}
  BY NaturalSizes
<1>2. ASSUME NEW f \in S, a \in f * PageSize..(f + 1) * PageSize - 1
      PROVE  a \in Nat /\ a \div PageSize = f
  <2> DEFINE fp == PageSize * f
  <2>1. fp \in Nat /\ f * PageSize = fp /\ (f + 1) * PageSize = fp + PageSize
    BY <1>1
  <2>2. f * PageSize \in Int /\ (f + 1) * PageSize \in Int
    BY <2>1, <1>1
  <2> HIDE DEF fp
  <2>3. a \in Nat /\ fp <= a /\ a < fp + PageSize
    BY <1>1, <1>2, <2>1
  <2>4. a - fp \in Nat /\ a - fp < PageSize /\ a = fp + (a - fp)
    BY <1>1, <2>1, <2>3
  <2> QED
    BY <1>1, <2>3, <2>4, DivisionUnique DEF fp
<1>3. ASSUME a \in Nat, a \div PageSize \in S
      PROVE  \E f \in S : a \in f * PageSize..(f + 1) * PageSize - 1
  <2> DEFINE f == a \div PageSize
             fp == PageSize * f
  <2>1. f \in Nat /\ fp \in Nat /\ fp <= a /\ a < fp + PageSize
    BY <1>1, <1>3, Division
  <2>2. f * PageSize = fp /\ (f + 1) * PageSize = fp + PageSize
    BY <1>1, <2>1
  <2> HIDE DEF fp
  <2>3. a \in f * PageSize..(f + 1) * PageSize - 1
    BY <1>1, <1>3, <2>1, <2>2
  <2> QED
    BY <1>3, <2>3
<1> QED
  BY <1>2, <1>3 DEF BytesOf

\* Different pages have no byte in common.
LEMMA BytesApart ==
    ASSUME NEW S \in SUBSET Nat, NEW T \in SUBSET Nat, S \cap T = {}
    PROVE  BytesOf(S) \cap BytesOf(T) = {}
  BY BytesAt

\* Bytes of n pages from a page on.
LEMMA BytesWithin ==
    ASSUME NEW f \in Nat, NEW n \in Nat, NEW a \in Nat,
           PageSize * f <= a, a < PageSize * (f + n)
    PROVE  a \in BytesOf(f..f + n - 1)
<1>1. PageSize \in Nat \ {0} /\ f + n \in Nat
  BY NaturalSizes
<1>2. a \div PageSize \in f..(f + n) - 1
  BY <1>1, DivisionBetween
<1>3. f..f + n - 1 \in SUBSET Nat /\ f..f + n - 1 = f..(f + n) - 1
  OBVIOUS
<1> QED
  BY <1>2, <1>3, BytesAt

\* A segment fits in the pages that elf_load_program asks for.
LEMMA SegmentBytes ==
    ASSUME NEW h, h.va \in Nat, h.memsz \in Nat, h.filesz \in Nat, h.filesz <= h.memsz,
           NEW f \in Nat
    PROVE  LET first == f * PageSize + (h.va % PageSize)
           IN  /\ first \in Nat /\ PageCount(h) \in Nat
               /\ first..first + h.filesz - 1 \subseteq BytesOf(f..f + PageCount(h) - 1)
<1> DEFINE r == h.va % PageSize
           x == r + h.memsz + PageSize - 1
           n == x \div PageSize
           first == f * PageSize + r
           fp == PageSize * f
           np == PageSize * n
<1>1. PageSize \in Nat \ {0}
  BY NaturalSizes
<1>2. r \in Nat
  BY <1>1, Division
<1> HIDE DEF r
<1>3. x \in Nat
  BY <1>1, <1>2
<1> HIDE DEF x
<1>4. n \in Nat /\ np \in Nat /\ x < np + PageSize
  <2>1. x \div PageSize \in Nat /\ x % PageSize \in 0..PageSize - 1
        /\ PageSize * (x \div PageSize) \in Nat
        /\ x = PageSize * (x \div PageSize) + (x % PageSize)
    BY <1>1, <1>3, Division
  <2> HIDE DEF n
  <2>2. n \in Nat /\ x % PageSize \in 0..PageSize - 1 /\ np \in Nat
        /\ x = np + (x % PageSize)
    BY <2>1 DEF n
  <2> HIDE DEF np
  <2> QED
    BY <1>1, <1>3, <2>2
<1>5. n = PageCount(h)
  BY DEF PageCount, n, x, r
<1> HIDE DEF n
<1>6. fp \in Nat /\ f * PageSize = fp
  BY <1>1
<1>7. PageSize * (f + n) = fp + np
  BY <1>1, <1>4
<1> HIDE DEF fp, np
<1>8. first \in Nat /\ first = fp + r
  BY <1>2, <1>6
<1>9. r + h.memsz <= np
  BY <1>1, <1>2, <1>3, <1>4 DEF x
<1>10. ASSUME NEW a \in first..first + h.filesz - 1
       PROVE  a \in BytesOf(f..f + n - 1)
  <2>1. a \in Nat /\ fp <= a /\ a < fp + np
    BY <1>2, <1>4, <1>6, <1>8, <1>9
  <2>2. PageSize * f <= a /\ a < PageSize * (f + n)
    BY <1>7, <2>1 DEF fp
  <2> QED
    BY <1>4, <2>1, <2>2, BytesWithin
<1> HIDE DEF first
<1>11. first..first + h.filesz - 1 \subseteq BytesOf(f..f + n - 1)
  BY <1>10
<1> QED
  BY <1>4, <1>5, <1>8, <1>11 DEF first, r

\* The bytes of a file are copied to memory.
LEMMA CopySegmentMachine ==
    ASSUME NEW m, IsMachine(m), m.halt = "none", NEW first, NEW h,
           first..first + h.filesz - 1 \subseteq BytesOf(Frame)
    PROVE  LET m2 == CopySegment(m, first, h)
           IN  /\ IsMachine(m2) /\ m2.halt = "none"
               /\ m2.mem = m.mem /\ m2.used = m.used /\ m2.cr3 = m.cr3
               /\ DOMAIN m2.bytes \subseteq DOMAIN m.bytes \cup (first..first + h.filesz - 1)
<1> DEFINE m2 == CopySegment(m, first, h)
           file == [a \in first..first + h.filesz - 1 |-> FileByte(job.path, h.offset + a - first)]
           b == Clear(Onto(file, m.bytes), first + h.filesz..first + h.memsz - 1)
<1>1. m2 = [m EXCEPT !.bytes = b]
  BY DEF CopySegment, IsMachine, MachineFields
<1>2. DOMAIN b \subseteq DOMAIN m.bytes \cup (first..first + h.filesz - 1)
  <2>1. DOMAIN Onto(file, m.bytes) = (first..first + h.filesz - 1) \cup DOMAIN m.bytes
    BY DEF Onto
  <2> HIDE DEF file
  <2> QED
    BY <2>1 DEF Clear
<1> HIDE DEF b, m2
<1>3. /\ m2 = [x \in MachineFields |-> m2[x]]
      /\ m2.mem = m.mem /\ m2.used = m.used /\ m2.bytes = b /\ m2.cr3 = m.cr3
      /\ m2.table = m.table /\ m2.halt = "none"
  BY <1>1 DEF IsMachine, MachineFields
<1>4. IsMachine(m2)
  BY <1>2, <1>3 DEF IsMachine
<1> QED
  BY <1>2, <1>3, <1>4 DEF m2

\* The pages of a segment lie in the user half.
LEMMA SegmentRange ==
    ASSUME NEW path \in DOMAIN Programs, NEW i \in 1..Len(Programs[path].headers),
           Programs[path].headers[i].type = "LOAD", NEW base \in {0, LdBase}, NEW t \in Task
    PROVE  LET h == Programs[path].headers[i]
               page == base + (h.va \div PageSize)
           IN  /\ h.va \in Nat /\ h.memsz \in Nat /\ h.filesz \in Nat /\ h.filesz <= h.memsz
               /\ PageCount(h) \in Nat /\ page \in Nat
               /\ \A j \in 0..PageCount(h) - 1 : Half(page + j, t)
<1> DEFINE h == Programs[path].headers[i]
           d == h.va \div PageSize
           n == PageCount(h)
           u == (Fan \div 2) * Span[4]
           w == Fan * Span[4]
           page == base + d
<1>1. /\ h.va \in Nat /\ h.filesz \in Nat /\ h.memsz \in Nat /\ h.filesz <= h.memsz
      /\ LdBase + d + n <= u
  BY ProgramsAssumption
<1>2. n \in Nat
  BY <1>1, SegmentBytes
<1>3. d \in Nat /\ LdBase \in Nat
  BY <1>1, NaturalSizes, Division
<1>4. u \in Nat /\ w \in Nat /\ u <= w
  <2>1. Fan \div 2 \in Nat /\ Fan \in Nat /\ Fan \div 2 <= Fan /\ Span[4] \in Nat
    BY Spans
  <2>2. Span[4] * (Fan \div 2) \in Nat /\ Span[4] * Fan \in Nat
        /\ Span[4] * (Fan \div 2) <= Span[4] * Fan
    BY <2>1, TimesMonotone
  <2> QED
    BY <2>1, <2>2, SMT
<1> HIDE DEF h, d, n, u, w
<1>5. page \in Nat /\ \A j \in 0..n - 1 : page + j \in 0..u - 1
  BY <1>1, <1>2, <1>3, <1>4
<1>6. \A j \in 0..n - 1 : page + j \in Page /\ page + j \in UserPage
  BY <1>4, <1>5 DEF Page, UserPage, u, w
<1>7. \A j \in 0..n - 1 : Half(page + j, t)
  BY <1>6, UserEntry DEF Half
<1> QED
  BY <1>1, <1>2, <1>5, <1>7 DEF h, d, n

\* A segment of the program of t, which is being built.
LEMMA SegmentExtends ==
    ASSUME NEW m, NEW own, NEW lvl, Held(m, own, lvl), NEW t \in Task, NEW map \in Frame,
           m.halt = "none", own[map] = t, lvl[map] = 4,
           NEW h, h.va \in Nat, h.memsz \in Nat, h.filesz \in Nat, h.filesz <= h.memsz,
           New.map = map, job.base + (h.va \div PageSize) \in Nat,
           \A j \in 0..PageCount(h) - 1 : Half((job.base + (h.va \div PageSize)) + j, t)
    PROVE  \E own2, lvl2 :
              Extends(m, own, lvl,
                      MapSegment(pmm_allocate_zero(m, PageCount(h)), FirstFree(m), h),
                      own2, lvl2, t)
<1> DEFINE U == m.used
           n == PageCount(h)
           f == FirstFree(m)
           page == job.base + (h.va \div PageSize)
           m1 == pmm_allocate_zero(m, n)
           m2 == MapRange(m1, map, f, page, n, UserFlags)
           first == f * PageSize + (h.va % PageSize)
           m3 == CopySegment(m2, first, h)
<1>1. /\ t \in Owner \ {Nobody} /\ t # Kern /\ t # Nobody /\ 0 \in 0..4
      /\ f \in Frame /\ f \in Nat
  BY TaskOwner, FirstFreeFrame DEF Frame
<1>2. n \in Nat /\ first \in Nat /\ first..first + h.filesz - 1 \subseteq BytesOf(f..f + n - 1)
  BY <1>1, SegmentBytes
<1>3. MapSegment(m1, f, h) = IF m1.halt # "none" THEN m1 ELSE m3
  BY DEF MapSegment
<1> HIDE DEF f, page, first, n
<1>4. PICK own1, lvl1 :
         /\ Grew(m, own, lvl, m1, own1, lvl1, t, U)
         /\ m1.halt = "none" => /\ Given(m1, own1, lvl1, Granted(m, n), t, 0)
                                /\ Granted(m, n) \subseteq Free(m)
  BY <1>1, <1>2, AllocateGrew
<1> HIDE DEF m1
<1>5. CASE m1.halt # "none"
  <2>1. Extends(m, own, lvl, m1, own1, lvl1, t)
    BY <1>4, GrewExtends
  <2> QED
    BY <1>3, <1>5, <2>1 DEF m1, f, n
<1>6. CASE m1.halt = "none"
  <2>1. Held(m1, own1, lvl1) /\ U \subseteq m1.used
    BY <1>4 DEF Grew
  <2>2. own1[map] = t /\ lvl1[map] = 4
    BY <1>1, <1>4, GrewOwner
  <2>3. ASSUME NEW j \in 0..n - 1
        PROVE  /\ f + j \in Frame /\ own1[f + j] = t /\ lvl1[f + j] = 0 /\ f + j \notin U
               /\ Orphan(m1.mem, own1, lvl1, f + j)
    <3> DEFINE g == f + j
    <3>1. g \in Granted(m, n)
      BY <1>2, GrantedPages DEF f
    <3> HIDE DEF g
    <3>2. /\ g \in Frame /\ own1[g] = t /\ lvl1[g] = 0 /\ g \notin U
          /\ Orphan(m1.mem, own1, lvl1, g)
      BY <1>4, <1>6, <3>1 DEF Given, Free
    <3> QED
      BY <3>2 DEF g
  <2>4. Waiting(m1, own1, lvl1, f, 0, n, t, U) /\ \A j \in 0..n - 1 : f + j \in Frame
    BY <2>3 DEF Waiting
  <2>5. PICK own2, lvl2 : Grew(m1, own1, lvl1, m2, own2, lvl2, t, U)
    <3>1. page \in Nat /\ \A j \in 0..n - 1 : Half(page + j, t)
      BY DEF page, n
    <3> HIDE DEF U
    <3> QED
      BY <1>1, <1>2, <2>1, <2>2, <2>4, <3>1, MapRangeGrew
  <2> HIDE DEF m2
  <2>6. Grew(m, own, lvl, m2, own2, lvl2, t, U) /\ IsMachine(m2)
    <3>1. Grew(m, own, lvl, m2, own2, lvl2, t, U)
      BY <1>1, <1>4, <2>5, GrewThen
    <3> QED
      BY <3>1 DEF Grew, Held
  <2>7. Extends(m, own, lvl, m2, own2, lvl2, t)
    BY <2>6, GrewExtends
  <2>8. CASE m2.halt # "none"
    <3>1. m3 = m2
      BY <2>8 DEF CopySegment
    <3> QED
      BY <1>3, <1>6, <2>7, <3>1 DEF m1, f, n
  <2>9. CASE m2.halt = "none"
    <3> DEFINE T == {g \in Frame : own2[g] = t}
    <3>1. f..f + n - 1 \subseteq T
      <4>1. \A g \in f..f + n - 1 : g - f \in 0..n - 1 /\ f + (g - f) = g
        BY <1>1, <1>2
      <4>2. \A g \in f..f + n - 1 : g \in Frame /\ own1[g] = t
        BY <2>3, <4>1
      <4> QED
        BY <1>1, <2>5, <4>2, GrewOwner
    <3>2. BytesOf(f..f + n - 1) \subseteq BytesOf(T) /\ BytesOf(T) \subseteq BytesOf(Frame)
      BY <3>1 DEF BytesOf
    <3>3. first..first + h.filesz - 1 \subseteq BytesOf(T)
      BY <1>2, <3>2
    <3>4. /\ IsMachine(m3) /\ m3.mem = m2.mem /\ m3.used = m2.used /\ m3.cr3 = m2.cr3
          /\ DOMAIN m3.bytes \subseteq DOMAIN m2.bytes \cup (first..first + h.filesz - 1)
      BY <2>6, <2>9, <3>2, <3>3, CopySegmentMachine
    <3> HIDE DEF m3
    <3>5. BytesFor(m, m3, own2, t)
      BY <2>7, <3>3, <3>4 DEF Extends, BytesFor
    <3>6. Extends(m, own, lvl, m3, own2, lvl2, t)
      BY <2>7, <3>4, <3>5, ExtendsSame
    <3> QED
      BY <1>3, <1>6, <3>6 DEF m1, f, n
  <2> QED
    BY <2>8, <2>9
<1> QED
  BY <1>5, <1>6

\* What is pushed lies in the stack, if it fits.
LEMMA ContentsBytes ==
    ASSUME NEW args \in AllArgs, NEW val, NEW rsp, NEW sp \in Nat,
           ~(Skip(args) > StackPages * PageSize)
    PROVE  DOMAIN Contents(args, val, (sp + StackPages) * PageSize, rsp)
              \subseteq BytesOf(sp..sp + StackPages - 1)
<1> DEFINE n == StringBytes(args)
           w == WordsFrom(args)
           k == Skip(args)
           top == (sp + StackPages) * PageSize
           c == Contents(args, val, top, rsp)
           size == StackPages * PageSize
           bottom == PageSize * sp
<1>1. PageSize \in Nat \ {0} /\ StackPages \in Nat \ {0}
  BY NaturalSizes
<1>2. n \in Nat /\ nargs(args) \in Nat /\ nenv(args) \in Nat
  BY ArgsAssumption DEF AllArgs
<1>3. w \in Nat /\ n <= w
  <2>1. Align16(n) \in Nat /\ n <= Align16(n)
    BY <1>2, AlignedDistance DEF Align16
  <2>2. Pad(args) \in Nat
    BY DEF Pad
  <2> HIDE DEF n
  <2> QED
    BY <1>2, <2>1, <2>2 DEF WordsFrom, n
<1>4. k \in Nat /\ w <= k
  BY <1>2, <1>3 DEF Skip, WordCount
<1>5. size \in Nat /\ bottom \in Nat /\ top = bottom + size /\ top = PageSize * (sp + StackPages)
  BY <1>1, SMT
<1>6. DOMAIN c = (top - n..top - 1) \cup (top - k..top - w - 1)
  BY DEF Contents, Onto
<1> HIDE DEF n, w, k, c
<1>7. ASSUME NEW a \in DOMAIN c
      PROVE  a \in BytesOf(sp..sp + StackPages - 1)
  <2>1. k <= size
    BY <1>4, <1>5 DEF k
  <2>2. top \in Nat
    BY <1>5
  <2> HIDE DEF top, size, bottom
  <2>3. a \in Nat /\ bottom <= a /\ a < top
    BY <1>2, <1>3, <1>4, <1>5, <1>6, <1>7, <2>1, <2>2
  <2>4. PageSize * sp <= a /\ a < PageSize * (sp + StackPages)
    BY <1>5, <2>3 DEF bottom
  <2>5. a \in BytesOf(sp..sp + StackPages - 1)
    BY <1>1, <2>3, <2>4, BytesWithin
  <2> QED
    BY <2>5
<1> QED
  BY <1>7 DEF c

\* sched_new_elf_process fills the stack of the process that it builds.
LEMMA FillStackExtends ==
    ASSUME ControlInv, AlignInv, FillStack, NEW own, NEW lvl, Held(Machine, own, lvl),
           NEW t, t = job.new, t \in Task,
           \A f \in tasks[t].sp..tasks[t].sp + StackPages - 1 : f \in Frame /\ own[f] = t,
           tasks[t].sp \in Nat
    PROVE  Extends(Machine, own, lvl, Machine', own, lvl, t)
<1> DEFINE m == Machine
           p == Machine'
           sp == tasks[t].sp
           T == {f \in Frame : own[f] = t}
<1>1. /\ m.mem = mem /\ m.bytes = bytes /\ m.used = used /\ m.cr3 = cr3 /\ m.halt = halt
      /\ p = [x \in MachineFields |-> p[x]]
      /\ p.mem = mem' /\ p.bytes = bytes' /\ p.used = used' /\ p.cr3 = cr3' /\ p.halt = halt'
      /\ p.table = 0
  BY MachineFieldsAre, NextMachineFieldsAre
<1>2. mem' = mem /\ used' = used /\ cr3' = cr3 /\ halt' \in HaltReason
  BY DEF FillStack, HaltReason
<1>3. DOMAIN bytes' \subseteq DOMAIN bytes \cup BytesOf(T)
  <2>1. CASE bytes' = bytes
    BY <2>1
  <2>2. CASE ~(bytes' = bytes)
    <3> DEFINE c == Contents(given[t], Auxval, (sp + StackPages) * PageSize, user_rsp[t])
    <3>1. bytes' = Onto(c, bytes) /\ ~(Skip(given[t]) > StackPages * PageSize)
      BY <2>2 DEF FillStack, New
    <3>2. DOMAIN c \subseteq BytesOf(sp..sp + StackPages - 1)
      BY <3>1, ContentsBytes DEF AlignInv
    <3>3. sp..sp + StackPages - 1 \subseteq T
      OBVIOUS
    <3>4. BytesOf(sp..sp + StackPages - 1) \subseteq BytesOf(T)
      BY <3>3 DEF BytesOf
    <3> HIDE DEF c, T
    <3> QED
      BY <3>1, <3>2, <3>4 DEF Onto
  <2> QED
    BY <2>1, <2>2
<1>4. BytesOf(T) \subseteq BytesOf(Frame)
  BY DEF BytesOf
<1> HIDE DEF m, p
<1>5. IsMachine(m)
  BY DEF Held, m
<1>6. IsMachine(p)
  BY <1>1, <1>2, <1>3, <1>4, <1>5, NaturalSizes DEF IsMachine
<1>7. Grew(m, own, lvl, m, own, lvl, t, m.used)
  BY <1>5, GrewSame DEF m
<1>8. Extends(m, own, lvl, m, own, lvl, t)
  BY <1>7, GrewExtends
<1>9. BytesFor(m, p, own, t)
  BY <1>1, <1>3 DEF BytesFor
<1>10. Extends(m, own, lvl, p, own, lvl, t)
  BY <1>1, <1>2, <1>6, <1>8, <1>9, ExtendsSame
<1> QED
  BY <1>10 DEF m, p

-----------------------------------------------------------------------------
(* The inductive invariant of the address spaces.                            *)

\* Live processes have a page map, a stack and the kernel's half.
Mine(own, lvl) ==
    \A t \in Task : Alive(t) =>
        IsSpace(Machine, own, lvl, tasks[t].map, tasks[t].sp, t, kernel_pagemap)

\* Only they own pages.
Living(own) == halt = "none" => \A f \in Frame : own[f] \in Task => Alive(own[f])

\* The kernel has its page map, unless its allocation failed.
KernelOwns(own, lvl) ==
    \/ own[kernel_pagemap] = Kern /\ lvl[kernel_pagemap] = 4
    \/ NoTasks /\ (halt # "none" \/ job.phase = "boot")

SpaceInv(own, lvl) ==
    /\ Held(Machine, own, lvl)
    /\ Mine(own, lvl)
    /\ Living(own)
    /\ KernelOwns(own, lvl)

\* The same processes are alive, with the same page maps, but for t.
SameSpaces(t) ==
    \A u \in Task : u # t =>
        /\ Alive(u)' <=> Alive(u)
        /\ Alive(u) => tasks'[u].map = tasks[u].map /\ tasks'[u].sp = tasks[u].sp

\* What a step does: the kernel builds its own tables, t gets pages, nothing
\* changes in memory, or t exits.
Booting == {"boot", "vmm"}

BootStep ==
    /\ job.phase \in Booting /\ cr3' = cr3
    /\ \A u \in Task : ~Alive(u)
    /\ \A u \in Task : ~Alive(u)'

\* mmap, where the kernel chooses or with MAP_FIXED.
MmapOf(t, virt, n, fixed) ==
    Mmap(t, virt, n, fixed) /\ (fixed \/ virt = tasks[t].used_pages + AllocBase)

Mapping == \E t \in Task, virt \in Nat, n \in Nat, fixed \in BOOLEAN : MmapOf(t, virt, n, fixed)

GrowStep(own, lvl, own2, lvl2, t) ==
    /\ tasks'[t].state = "building" \/ ~Alive(t)' \/ Mapping
    /\ Extends(Machine, own, lvl, Machine', own2, lvl2, t)
    /\ SameSpaces(t)
    /\ kernel_pagemap' = kernel_pagemap
    /\ own[kernel_pagemap] = Kern /\ lvl[kernel_pagemap] = 4
    /\ \/ Alive(t) /\ Alive(t)' /\ tasks'[t].map = tasks[t].map /\ tasks'[t].sp = tasks[t].sp
       \/ ~Alive(t) /\ \A f \in Frame : own[f] # t

\* cr3 is loaded by vmm_initialize and by the switch.
Loads == LoadPagemap \/ \E t \in Task : Switch(t)

\* t is the process that exits, or Nobody.
StillStep(own, lvl, own2, lvl2, t) ==
    /\ mem' = mem /\ bytes' = bytes
    /\ cr3' = cr3 \/ Loads
    /\ SameSpaces(t)
    /\ t \in Task => ~Alive(t)'
    /\ kernel_pagemap' = kernel_pagemap
    /\ lvl2 = lvl
    /\ own2 = [f \in Frame |-> IF own[f] = t THEN Nobody ELSE own[f]]

\* A page map stays a page map.
LEMMA ExtendsSpace ==
    ASSUME NEW m, NEW own, NEW lvl, NEW m2, NEW own2, NEW lvl2, NEW t \in Task, NEW u \in Task,
           Extends(m, own, lvl, m2, own2, lvl2, t), NEW kern \in Frame, own[kern] = Kern,
           NEW map, NEW sp, IsSpace(m, own, lvl, map, sp, u, kern)
    PROVE  IsSpace(m2, own2, lvl2, map, sp, u, kern)
<1>1. u # Nobody /\ u # Kern /\ t # Kern /\ Kern # Nobody /\ t # Nobody
  BY TaskOwner
<1>2. /\ Kept(own, lvl, own2, lvl2) /\ OthersSame(m.mem, own, m2.mem, t)
      /\ UpperSame(m.mem, own, lvl, m2.mem, t)
  BY DEF Extends
<1>3. map \in Frame /\ own[map] = u /\ lvl[map] = 4 /\ SameHalf(m.mem, map, kern)
  BY DEF IsSpace
<1>4. own2[map] = u /\ lvl2[map] = 4
  BY <1>1, <1>2, <1>3 DEF Kept
<1>5. \A f \in sp..sp + StackPages - 1 : f \in Frame /\ own2[f] = u /\ lvl2[f] = 0
  BY <1>1, <1>2 DEF Kept, IsSpace
<1>6. m2.mem[kern] = m.mem[kern]
  BY <1>1, <1>2 DEF OthersSame
<1>7. ASSUME NEW i \in Index, i >= Fan \div 2
      PROVE  m2.mem[map][i] = m.mem[map][i]
  <2>1. CASE u # t
    BY <1>1, <1>2, <1>3, <2>1 DEF OthersSame
  <2>2. CASE u = t
    <3>1. ~(i < Fan \div 2)
      BY <1>7, Spans DEF Index
    <3>2. ~Slot(own, lvl, map, i)
      BY <1>1, <1>3, <2>2, <3>1 DEF Slot
    <3> QED
      BY <1>1, <1>2, <1>3, <2>2, <3>2 DEF UpperSame
  <2> QED
    BY <2>1, <2>2
<1>8. SameHalf(m2.mem, map, kern)
  BY <1>3, <1>6, <1>7 DEF SameHalf
<1> QED
  BY <1>3, <1>4, <1>5, <1>8 DEF IsSpace

\* The invariant over a step that gives t pages.
LEMMA GrowKeeps ==
    ASSUME ControlInv, NEW own, NEW lvl, SpaceInv(own, lvl), NEW t \in Task, NEW own2, NEW lvl2,
           GrowStep(own, lvl, own2, lvl2, t), halt = "none",
           Alive(t) \/ (halt' = "none" => Alive(t)' /\
              IsSpace(Machine', own2, lvl2, tasks'[t].map, tasks'[t].sp, t, kernel_pagemap)),
           Alive(t)' => Alive(t) \/ halt' = "none"
    PROVE  SpaceInv(own2, lvl2)'
<1>1. /\ Extends(Machine, own, lvl, Machine', own2, lvl2, t) /\ SameSpaces(t)
      /\ kernel_pagemap' = kernel_pagemap /\ own[kernel_pagemap] = Kern
      /\ lvl[kernel_pagemap] = 4 /\ kernel_pagemap \in Frame
  BY DEF GrowStep, ControlInv
<1> DEFINE m == Machine
           p == Machine'
<1>2. Held(p, own2, lvl2)
  BY <1>1 DEF Extends
<1>3. Mine(own2, lvl2)'
  <2> SUFFICES ASSUME NEW u \in Task, Alive(u)'
               PROVE  IsSpace(p, own2, lvl2, tasks'[u].map, tasks'[u].sp, u, kernel_pagemap')
    BY DEF Mine
  <2>1. CASE Alive(u)
    <3>1. IsSpace(m, own, lvl, tasks[u].map, tasks[u].sp, u, kernel_pagemap)
      BY <2>1 DEF SpaceInv, Mine
    <3> HIDE DEF m, p
    <3>2. IsSpace(p, own2, lvl2, tasks[u].map, tasks[u].sp, u, kernel_pagemap)
      BY <1>1, <3>1, ExtendsSpace DEF m, p
    <3>3. tasks'[u].map = tasks[u].map /\ tasks'[u].sp = tasks[u].sp
      BY <1>1, <2>1 DEF SameSpaces, GrowStep
    <3> QED
      BY <1>1, <3>2, <3>3
  <2>2. CASE ~Alive(u)
    <3>1. u = t
      BY <1>1, <2>2 DEF SameSpaces
    <3> QED
      BY <1>1, <2>2, <3>1
  <2> QED
    BY <2>1, <2>2
<1>4. Living(own2)'
  <2> SUFFICES ASSUME halt' = "none", NEW f \in Frame, own2[f] \in Task
               PROVE  Alive(own2[f])'
    BY DEF Living
  <2>1. own2[f] # Nobody /\ t # Nobody
    BY TaskOwner
  <2>2. Kept(own, lvl, own2, lvl2) /\ NewOwned(m, own, own2, t)
    BY <1>1 DEF Extends
  <2>3. CASE own[f] = Nobody
    <3>1. own2[f] = t
      BY <2>1, <2>2, <2>3 DEF NewOwned
    <3> QED
      BY <3>1 DEF GrowStep
  <2>4. CASE own[f] # Nobody
    <3>1. own2[f] = own[f]
      BY <2>2, <2>4 DEF Kept
    <3>2. Alive(own[f])
      BY <3>1 DEF SpaceInv, Living
    <3> QED
      BY <1>1, <3>1, <3>2 DEF SameSpaces, GrowStep
  <2> QED
    BY <2>3, <2>4
<1>5. KernelOwns(own2, lvl2)'
  <2>1. own2[kernel_pagemap] = Kern /\ lvl2[kernel_pagemap] = 4
    BY <1>1, TaskOwner DEF Extends, Kept
  <2> QED
    BY <1>1, <2>1 DEF KernelOwns
<1> QED
  BY <1>2, <1>3, <1>4, <1>5 DEF SpaceInv

\* The pages of t are nobody's any more.
Released(own, t) == [f \in Frame |-> IF own[f] = t THEN Nobody ELSE own[f]]

LEMMA ReleasedTrees ==
    ASSUME NEW mem1, NEW own, NEW lvl, IsGhost(own, lvl), IsMemory(mem1),
           Tree(mem1, own, lvl), Lone(mem1, own, lvl), NEW t \in Task \cup {Nobody}
    PROVE  LET own2 == Released(own, t)
           IN  /\ IsGhost(own2, lvl) /\ Tree(mem1, own2, lvl) /\ Lone(mem1, own2, lvl)
               /\ \A f \in Frame : own2[f] # Nobody <=> own[f] \notin {Nobody, t}
               /\ \A f \in Frame : own2[f] # Nobody => own2[f] = own[f]
<1> DEFINE own2 == Released(own, t)
<1>1. /\ IsGhost(own2, lvl)
      /\ \A f \in Frame : own2[f] # Nobody <=> own[f] \notin {Nobody, t}
      /\ \A f \in Frame : own[f] \notin {Nobody, t} => own2[f] = own[f]
  BY DEF Released, IsGhost, Owner
<1> HIDE DEF own2
<1>2. ASSUME NEW f \in Frame, NEW i \in Index, Edge(mem1, own2, lvl, f, i)
      PROVE  Edge(mem1, own, lvl, f, i) /\ own2[f] = own[f] /\ own[f] \notin {Nobody, t}
  BY <1>1, <1>2 DEF Edge, Slot
<1>3. Tree(mem1, own2, lvl)
  <2> SUFFICES ASSUME NEW f \in Frame, NEW i \in Index, Edge(mem1, own2, lvl, f, i)
               PROVE  /\ mem1[f][i].flags = Rights(own2[f])
                      /\ own2[mem1[f][i].frame] = own2[f]
                      /\ lvl[mem1[f][i].frame] = lvl[f] - 1
    BY DEF Tree
  <2>1. /\ mem1[f][i].flags = Rights(own[f]) /\ own[mem1[f][i].frame] = own[f]
        /\ lvl[mem1[f][i].frame] = lvl[f] - 1
        /\ own2[f] = own[f] /\ own[f] \notin {Nobody, t}
    BY <1>2 DEF Tree
  <2>2. mem1[f][i].frame \in Frame
    BY DEF IsMemory, Entry
  <2> QED
    BY <1>1, <2>1, <2>2
<1>4. Lone(mem1, own2, lvl)
  BY <1>2 DEF Lone
<1> QED
  BY <1>1, <1>3, <1>4 DEF own2

\* A machine whose variables did not change but for cr3, halt and used.
LEMMA StillMachine ==
    ASSUME NEW own, NEW lvl, Held(Machine, own, lvl), mem' = mem, bytes' = bytes,
           used' \subseteq Frame, cr3' \in Frame \cup {Loader}, halt' \in HaltReason
    PROVE  IsMachine(Machine')
<1> DEFINE m == Machine
           p == Machine'
<1>1. /\ m.mem = mem /\ m.bytes = bytes /\ IsMachine(m)
      /\ p = [x \in MachineFields |-> p[x]]
      /\ p.mem = mem' /\ p.bytes = bytes' /\ p.used = used' /\ p.cr3 = cr3' /\ p.halt = halt'
      /\ p.table = 0
  BY MachineFieldsAre, NextMachineFieldsAre DEF Held
<1> HIDE DEF m, p
<1>2. IsMachine(p)
  BY <1>1, NaturalSizes DEF IsMachine
<1> QED
  BY <1>2 DEF p

LEMMA StillKeeps ==
    ASSUME ControlInv, NEW own, NEW lvl, SpaceInv(own, lvl), NEW t \in Task \cup {Nobody},
           mem' = mem, bytes' = bytes, used' \subseteq Frame,
           cr3' \in Frame \cup {Loader}, cr3' = cr3 \/ Loads, halt' \in HaltReason,
           \A f \in Frame : own[f] \notin {Nobody, t} => f \in used',
           SameSpaces(t), t \in Task => ~Alive(t)', kernel_pagemap' = kernel_pagemap,
           halt' = "none" => halt = "none",
           own[kernel_pagemap] = Kern /\ lvl[kernel_pagemap] = 4
    PROVE  /\ SpaceInv(Released(own, t), lvl)'
           /\ StillStep(own, lvl, Released(own, t), lvl, t)
<1> DEFINE own2 == Released(own, t)
           m == Machine
           p == Machine'
<1>1. /\ IsMachine(p) /\ p.mem = m.mem /\ p.used = used'
  BY StillMachine, MachineFieldsAre, NextMachineFieldsAre DEF SpaceInv
<1>2. /\ IsGhost(own, lvl) /\ IsMemory(m.mem) /\ Tree(m.mem, own, lvl) /\ Lone(m.mem, own, lvl)
  BY DEF SpaceInv, Held, IsMachine
<1>3. /\ IsGhost(own2, lvl) /\ Tree(m.mem, own2, lvl) /\ Lone(m.mem, own2, lvl)
      /\ \A f \in Frame : own2[f] # Nobody <=> own[f] \notin {Nobody, t}
      /\ \A f \in Frame : own2[f] # Nobody => own2[f] = own[f]
  BY <1>2, ReleasedTrees
<1> HIDE DEF own2
<1>4. Held(p, own2, lvl)
  <2> HIDE DEF m, p
  <2> QED
    BY <1>1, <1>3 DEF Held
<1>5. Mine(own2, lvl)'
  <2> SUFFICES ASSUME NEW u \in Task, Alive(u)'
               PROVE  IsSpace(p, own2, lvl, tasks'[u].map, tasks'[u].sp, u, kernel_pagemap')
    BY DEF Mine
  <2>1. u # t /\ u # Nobody
    BY TaskOwner
  <2>2. Alive(u) /\ tasks'[u].map = tasks[u].map /\ tasks'[u].sp = tasks[u].sp
    BY <2>1 DEF SameSpaces
  <2>3. IsSpace(m, own, lvl, tasks[u].map, tasks[u].sp, u, kernel_pagemap)
    BY <2>2 DEF SpaceInv, Mine
  <2> HIDE DEF m, p
  <2>4. IsSpace(p, own2, lvl, tasks[u].map, tasks[u].sp, u, kernel_pagemap)
    BY <1>1, <1>3, <2>1, <2>3 DEF IsSpace
  <2> QED
    BY <2>2, <2>4
<1>6. Living(own2)'
  <2> SUFFICES ASSUME halt' = "none", NEW f \in Frame, own2[f] \in Task
               PROVE  Alive(own2[f])'
    BY DEF Living
  <2>1. own2[f] = own[f] /\ own[f] # t
    BY <1>3, TaskOwner
  <2>2. Alive(own[f])
    BY <2>1 DEF SpaceInv, Living
  <2> QED
    BY <2>1, <2>2 DEF SameSpaces
<1>7. KernelOwns(own2, lvl)'
  <2>1. own2[kernel_pagemap] = Kern
    <3>1. Kern \notin {Nobody, t}
      BY TaskOwner DEF Kern, Nobody
    <3>2. kernel_pagemap \in Frame
      BY DEF ControlInv
    <3> QED
      BY <1>3, <3>1, <3>2
  <2> QED
    BY <2>1 DEF KernelOwns
<1>8. SpaceInv(own2, lvl)'
  BY <1>4, <1>5, <1>6, <1>7 DEF SpaceInv
<1>9. StillStep(own, lvl, own2, lvl, t)
  BY DEF StillStep, own2, Released
<1> QED
  BY <1>8, <1>9 DEF own2

\* Nothing is released.
LEMMA ReleasedNobody ==
    ASSUME NEW own, NEW lvl, IsGhost(own, lvl)
    PROVE  Released(own, Nobody) = own
  BY DEF Released, IsGhost

\* A kernel that runs processes has its page map.
LEMMA KernelReady ==
    ASSUME ControlInv, NEW own, NEW lvl, SpaceInv(own, lvl), halt = "none",
           job.phase # "boot" \/ Started \/ \E t \in Task : tasks[t] # NoTask
    PROVE  own[kernel_pagemap] = Kern /\ lvl[kernel_pagemap] = 4
<1>1. NoTask.state = "none"
  BY DEF NoTask
<1>2. NoTasks => ~Started
  BY <1>1 DEF NoTasks, Started
<1>3. NoTasks => ~\E t \in Task : tasks[t] # NoTask
  BY DEF NoTasks
<1>4. job.phase = "boot" => NoTasks
  BY PhaseJob DEF ControlInv
<1> QED
  BY <1>2, <1>3, <1>4 DEF SpaceInv, KernelOwns

Moved(own, lvl, own2, lvl2) ==
    \/ BootStep
    \/ \E t \in Task : GrowStep(own, lvl, own2, lvl2, t)
    \/ \E t \in Task \cup {Nobody} : StillStep(own, lvl, own2, lvl2, t)

\* The invariant holds after the step, for some owners.
Goes(own, lvl) == \E own2, lvl2 : SpaceInv(own2, lvl2)' /\ Moved(own, lvl, own2, lvl2)

\* Before the first process none is alive.
LEMMA NoneAlive ==
    ASSUME NoTasks
    PROVE  \A u \in Task : ~Alive(u)
<1>1. NoTask.state = "none"
  BY DEF NoTask
<1> QED
  BY <1>1 DEF NoTasks, Alive

\* vmm_initialize.
LEMMA KernelGrows ==
    ASSUME ControlInv, NEW own, NEW lvl, SpaceInv(own, lvl), NoTasks, halt = "none",
           tasks' = tasks, running' = running, job.phase \in Booting,
           NEW m2, NEW own2, NEW lvl2, NEW U,
           Grew(Machine, own, lvl, m2, own2, lvl2, Kern, U), Becomes(m2),
           halt' = "none" => own2[kernel_pagemap'] = Kern /\ lvl2[kernel_pagemap'] = 4
    PROVE  Goes(own, lvl)
<1> DEFINE p == Machine'
<1>1. Held(m2, own2, lvl2) /\ IsMachine(m2)
  BY DEF Grew, Held
<1>2. Held(p, own2, lvl2)
  <2>1. IsMachine(p) /\ p.mem = m2.mem /\ p.used = m2.used
    BY <1>1, BecomesMachine
  <2> HIDE DEF p
  <2> QED
    BY <1>1, <2>1 DEF Held
<1>3. (\A u \in Task : ~Alive(u)) /\ (\A u \in Task : ~Alive(u)')
  BY NoneAlive DEF Alive
<1>4. Mine(own2, lvl2)'
  BY <1>3 DEF Mine
<1>5. \A f \in Frame : own2[f] \notin Task
  <2> SUFFICES ASSUME NEW f \in Frame, own2[f] \in Task PROVE FALSE
    OBVIOUS
  <2>1. own[f] \notin Task
    BY <1>3 DEF SpaceInv, Living
  <2>2. own2[f] # Nobody /\ own2[f] # Kern
    BY TaskOwner
  <2>3. Kept(own, lvl, own2, lvl2) /\ NewFor(Machine, own, m2, own2, Kern)
    BY DEF Grew
  <2> QED
    BY <2>1, <2>2, <2>3 DEF Kept, NewFor
<1>6. Living(own2)'
  BY <1>5 DEF Living
<1>7. KernelOwns(own2, lvl2)'
  BY DEF KernelOwns, NoTasks
<1>8. SpaceInv(own2, lvl2)'
  BY <1>2, <1>4, <1>6, <1>7 DEF SpaceInv
<1>9. cr3' = cr3
  BY MachineFieldsAre DEF Grew, Becomes
<1> QED
  BY <1>3, <1>8, <1>9 DEF Goes, Moved, BootStep

LEMMA BootSpaces ==
    ASSUME ControlInv, NEW own, NEW lvl, SpaceInv(own, lvl),
           NewKernelPagemap \/ MapWindows
    PROVE  Goes(own, lvl)
<1>1. Held(Machine, own, lvl) /\ JobOK
  BY DEF SpaceInv, ControlInv
<1>2. Kern \in Owner \ {Nobody} /\ Rights(Kern) = KernelFlags /\ 4 \in 0..4 /\ 1 \in Nat
  BY DEF Owner, Kern, Nobody, Rights
<1>3. CASE NewKernelPagemap
  <2> DEFINE m == Machine
             m2 == pmm_allocate_zero(m, 1)
  <2>1. /\ NoTasks /\ halt = "none" /\ tasks' = tasks /\ running' = running /\ Becomes(m2)
        /\ kernel_pagemap' = FirstFree(m) /\ job.phase \in Booting
    BY <1>1, <1>3, PhaseJob DEF NewKernelPagemap, Phase, Booting
  <2>2. PICK own2, lvl2 :
           /\ Grew(m, own, lvl, m2, own2, lvl2, Kern, m.used)
           /\ m2.halt = "none" => Given(m2, own2, lvl2, Granted(m, 1), Kern, 4)
    <3> HIDE DEF m
    <3> QED
      BY <1>1, <1>2, AllocateGrew DEF m
  <2>3. halt' = m2.halt
    BY <2>1 DEF Becomes
  <2> HIDE DEF m2
  <2>4. halt' = "none" => own2[kernel_pagemap'] = Kern /\ lvl2[kernel_pagemap'] = 4
    <3>1. FirstFree(m) \in Granted(m, 1)
      BY <1>2, GrantedPages
    <3> QED
      BY <2>1, <2>2, <2>3, <3>1 DEF Given
  <2> QED
    BY <2>1, <2>2, <2>4, KernelGrows
<1>4. CASE MapWindows
  <2> DEFINE m == Machine
             c == job.next
             page == WindowBase(job.window) + job.next
             m2 == vmm_map(m, kernel_pagemap, c, page, KernelFlags)
  <2>1. /\ VmmJob /\ halt = "none" /\ tasks' = tasks /\ running' = running /\ Becomes(m2)
        /\ kernel_pagemap' = kernel_pagemap /\ job.phase # "boot" /\ job.phase \in Booting
        /\ job.window <= Windows /\ job.next < WindowPages(job.window)
    BY <1>1, <1>4, PhaseJob DEF MapWindows, Phase, boot, Booting
  <2>2. c \in Frame /\ page \in Nat
    <3>1. job.window \in Nat \ {0} /\ job.next \in Nat /\ usable \in Memories
      BY <2>1 DEF VmmJob, ControlInv
    <3>2. WindowPages(job.window) \in Nat /\ WindowPages(job.window) <= Top
      <4>1. CASE job.window \in {1, 2}
        BY <4>1, MemoriesAssumption, LayoutAssumption DEF WindowPages
      <4>2. CASE job.window \notin {1, 2}
        <5>1. job.window - 2 \in 1..Len(usable)
          BY <2>1, <3>1, <4>2, MemoriesAssumption DEF Windows
        <5> QED
          BY <3>1, <4>2, <5>1, MemoriesAssumption DEF WindowPages
      <4> QED
        BY <4>1, <4>2
    <3>3. WindowBase(job.window) \in Nat
      BY SizesAssumption DEF WindowBase
    <3>4. Top \in Nat
      BY SizesAssumption
    <3> QED
      BY <2>1, <3>1, <3>2, <3>3, <3>4 DEF Frame
  <2>3. own[kernel_pagemap] = Kern /\ lvl[kernel_pagemap] = 4 /\ kernel_pagemap \in Frame
    BY <2>1, KernelReady DEF ControlInv
  <2> HIDE DEF c, page, m
  <2>4. MayMap(m, own, lvl, kernel_pagemap, c, page, Kern, m.used)
    BY <2>2, <2>3 DEF MayMap
  <2>5. PICK own2, lvl2 : Grew(m, own, lvl, m2, own2, lvl2, Kern, m.used)
    BY <1>1, <1>2, <2>2, <2>3, <2>4, MapGrew DEF m
  <2> HIDE DEF m2
  <2>6. own2[kernel_pagemap] = Kern /\ lvl2[kernel_pagemap] = 4
    BY <1>2, <2>3, <2>5, GrewOwner
  <2> QED
    BY <2>1, <2>5, <2>6, KernelGrows DEF m, VmmJob
<1> QED
  BY <1>3, <1>4

\* Steps that leave the memory alone.
LEMMA StillSpaces ==
    ASSUME ControlInv, NEW own, NEW lvl, SpaceInv(own, lvl),
           mem' = mem, bytes' = bytes, used' = used,
           cr3' \in Frame \cup {Loader}, cr3' = cr3 \/ Loads, halt' \in HaltReason,
           SameSpaces(Nobody), kernel_pagemap' = kernel_pagemap,
           halt' = "none" => halt = "none",
           own[kernel_pagemap] = Kern /\ lvl[kernel_pagemap] = 4
    PROVE  Goes(own, lvl)
<1>1. used' \subseteq Frame /\ \A f \in Frame : own[f] # Nobody => f \in used'
  BY MachineFieldsAre DEF SpaceInv, Held, IsMachine
<1>2. Nobody \notin Task
  BY DEF Task, Nobody
<1>3. SpaceInv(Released(own, Nobody), lvl)' /\ StillStep(own, lvl, Released(own, Nobody), lvl, Nobody)
  BY <1>1, <1>2, StillKeeps
<1> QED
  BY <1>3 DEF Goes, Moved

\* task_init.
LEMMA TaskInitSpaces ==
    ASSUME ControlInv, NEW own, NEW lvl, SpaceInv(own, lvl), halt = "none",
           NEW path, NEW args, NEW pages \in JunkPages, TaskInit(path, args, pages),
           own[kernel_pagemap] = Kern, lvl[kernel_pagemap] = 4
    PROVE  Goes(own, lvl)
<1> DEFINE m == Machine
           m2 == NewSpace(m)
           q == NewTask(FirstFree(m), NewMap(m), pages, path)
<1>1. NextPid < MaxTasks /\ kernel_pagemap' = kernel_pagemap
  BY DEF TaskInit, boot
<1>2. PICK t \in Task : t = NextPid /\ tasks[t] = NoTask
  BY <1>1, NextPidFree
<1>3. /\ Becomes(m2)
      /\ tasks' = IF halt' # "none" THEN tasks ELSE [tasks EXCEPT ![t] = q]
  BY <1>2, Zenon DEF TaskInit, NewSpace, NewMap
<1>4. /\ q.state = "building" /\ q.map = NewMap(m) /\ q.sp = FirstFree(m)
  BY DEF NewTask
<1> HIDE DEF q, m2
<1>5. ~Alive(t)
  BY <1>2 DEF Alive, NoTask
<1>6. \A f \in Frame : own[f] # t
  BY <1>2, <1>5 DEF SpaceInv, Living
<1>7. PICK own2, lvl2 :
         /\ Grew(m, own, lvl, m2, own2, lvl2, t, m.used)
         /\ m2.halt = "none" =>
               IsSpace(m2, own2, lvl2, NewMap(m), FirstFree(m), t, kernel_pagemap)
  <2>1. Held(m, own, lvl) /\ kernel_pagemap \in Frame
    BY DEF SpaceInv, ControlInv
  <2> HIDE DEF m
  <2> QED
    BY <1>2, <1>6, <2>1, NewSpaceGrew DEF m2
<1>8. Extends(m, own, lvl, m2, own2, lvl2, t)
  BY <1>7, GrewExtends
<1>9. Extends(m, own, lvl, Machine', own2, lvl2, t) /\ Machine'.mem = m2.mem /\ halt' = m2.halt
  <2>1. IsMachine(m2)
    BY <1>8 DEF Extends, Held
  <2> QED
    BY <1>3, <1>8, <2>1, BecomesExtends, BecomesMachine DEF Becomes
<1>10. /\ \A u \in Task : u # t => tasks'[u] = tasks[u]
       /\ tasks'[t] = IF halt' # "none" THEN tasks[t] ELSE q
  BY <1>2, <1>3 DEF ControlInv, TasksOK
<1>11. SameSpaces(t)
  BY <1>10 DEF SameSpaces, Alive
<1>12. GrowStep(own, lvl, own2, lvl2, t)
  <2>1. tasks'[t].state = "building" \/ ~Alive(t)'
    BY <1>2, <1>4, <1>10 DEF Alive, NoTask
  <2> QED
    BY <1>1, <1>5, <1>6, <1>9, <1>11, <2>1 DEF GrowStep
<1>13. /\ halt' = "none" => Alive(t)' /\
              IsSpace(Machine', own2, lvl2, tasks'[t].map, tasks'[t].sp, t, kernel_pagemap)
       /\ Alive(t)' => halt' = "none"
  <2>1. CASE halt' = "none"
    <3>1. tasks'[t] = q
      BY <1>10, <2>1
    <3>2. Alive(t)'
      BY <1>4, <3>1 DEF Alive
    <3> DEFINE p == Machine'
    <3>3. p.mem = m2.mem
      BY <1>9
    <3>4. IsSpace(m2, own2, lvl2, tasks'[t].map, tasks'[t].sp, t, kernel_pagemap)
      BY <1>4, <1>7, <1>9, <2>1, <3>1
    <3> HIDE DEF p
    <3>5. IsSpace(p, own2, lvl2, tasks'[t].map, tasks'[t].sp, t, kernel_pagemap)
      BY <3>3, <3>4 DEF IsSpace
    <3> QED
      BY <2>1, <3>2, <3>5 DEF p
  <2>2. CASE halt' # "none"
    BY <1>5, <1>10, <2>2 DEF Alive
  <2> QED
    BY <2>1, <2>2
<1>14. SpaceInv(own2, lvl2)'
  BY <1>2, <1>12, <1>13, GrowKeeps
<1> QED
  BY <1>2, <1>12, <1>14 DEF Goes, Moved

\* A step for the live process t that extends the machine.
LEMMA LiveGrows ==
    ASSUME ControlInv, NEW own, NEW lvl, SpaceInv(own, lvl), halt = "none", NEW t \in Task,
           Alive(t), Alive(t)', tasks'[t].map = tasks[t].map, tasks'[t].sp = tasks[t].sp,
           \A u \in Task : u # t => tasks'[u] = tasks[u],
           kernel_pagemap' = kernel_pagemap, tasks'[t].state = "building" \/ Mapping,
           NEW own2, NEW lvl2, Extends(Machine, own, lvl, Machine', own2, lvl2, t)
    PROVE  Goes(own, lvl)
<1>1. SameSpaces(t)
  BY DEF SameSpaces, Alive
<1>2. own[kernel_pagemap] = Kern /\ lvl[kernel_pagemap] = 4
  <2>1. tasks[t] # NoTask
    BY DEF Alive, NoTask
  <2> QED
    BY <2>1, KernelReady
<1>3. GrowStep(own, lvl, own2, lvl2, t)
  BY <1>1, <1>2 DEF GrowStep
<1>4. SpaceInv(own2, lvl2)'
  BY <1>3, GrowKeeps
<1> QED
  BY <1>3, <1>4 DEF Goes, Moved

\* The process that an exec builds.
LEMMA BuiltTask ==
    ASSUME ControlInv, NEW own, NEW lvl, SpaceInv(own, lvl), halt = "none", ExecJob
    PROVE  LET t == job.new
           IN  /\ t \in Task /\ Alive(t) /\ IsTask(tasks[t]) /\ tasks[t].state = "building"
               /\ IsSpace(Machine, own, lvl, tasks[t].map, tasks[t].sp, t, kernel_pagemap)
<1> DEFINE t == job.new
<1>1. t \in Task /\ tasks[t] # NoTask /\ tasks[t].state = "building"
  BY DEF ExecJob
<1>2. IsTask(tasks[t])
  BY <1>1 DEF ControlInv, TasksOK
<1>3. Alive(t)
  BY <1>1 DEF Alive
<1> QED
  BY <1>1, <1>2, <1>3 DEF SpaceInv, Mine

\* elf_load_program, a segment.
LEMMA SegmentSpaces ==
    ASSUME ControlInv, NEW own, NEW lvl, SpaceInv(own, lvl), LoadSegment
    PROVE  Goes(own, lvl)
<1> DEFINE m == Machine
           h == Program.headers[job.header]
           map == New.map
           m2 == MapSegment(pmm_allocate_zero(m, PageCount(h)), FirstFree(m), h)
<1>1. /\ Header("LOAD") /\ Becomes(m2) /\ tasks' = tasks /\ kernel_pagemap' = kernel_pagemap
      /\ halt = "none" /\ job.phase = "load"
  BY DEF LoadSegment, boot, Header, Phase
<1>2. ExecJob
  BY <1>1, PhaseJob DEF ControlInv
<1>3. PICK t \in Task : t = job.new /\ Alive(t) /\ tasks[t].state = "building"
                          /\ IsSpace(m, own, lvl, map, tasks[t].sp, t, kernel_pagemap)
  BY <1>1, <1>2, BuiltTask DEF New
<1>4. map \in Frame /\ own[map] = t /\ lvl[map] = 4 /\ New.map = map
  BY <1>3 DEF IsSpace
<1>5. /\ h.va \in Nat /\ h.memsz \in Nat /\ h.filesz \in Nat /\ h.filesz <= h.memsz
      /\ job.base + (h.va \div PageSize) \in Nat
      /\ \A j \in 0..PageCount(h) - 1 : Half((job.base + (h.va \div PageSize)) + j, t)
  <2>1. job.path \in DOMAIN Programs /\ job.base \in {0, LdBase} /\ job.header \in Nat \ {0}
    BY <1>1, <1>2 DEF ExecJob
  <2>2. /\ job.header <= Len(Programs[job.path].headers)
        /\ Programs[job.path].headers[job.header].type = "LOAD"
    BY <1>1 DEF Header, Program
  <2>3. Len(Programs[job.path].headers) \in Nat
    BY <2>1, ProgramsAssumption
  <2>4. job.header \in 1..Len(Programs[job.path].headers)
    BY <2>1, <2>2, <2>3
  <2> QED
    BY <1>3, <2>1, <2>2, <2>4, SegmentRange DEF Program
<1>6. m.halt = "none" /\ Held(m, own, lvl)
  BY <1>1, MachineFieldsAre DEF SpaceInv
<1> HIDE DEF m, h, map
<1>7. PICK own2, lvl2 : Extends(m, own, lvl, m2, own2, lvl2, t)
  BY <1>3, <1>4, <1>5, <1>6, SegmentExtends
<1> HIDE DEF m2
<1>8. Extends(m, own, lvl, Machine', own2, lvl2, t)
  BY <1>1, <1>7, BecomesExtends DEF m2, m, h
<1>9. Alive(t)' /\ tasks'[t].map = tasks[t].map /\ tasks'[t].sp = tasks[t].sp
  BY <1>1, <1>3 DEF Alive
<1> QED
  BY <1>1, <1>3, <1>8, <1>9, LiveGrows DEF m

LEMMA FillStackSpaces ==
    ASSUME ControlInv, AlignInv, NEW own, NEW lvl, SpaceInv(own, lvl), FillStack
    PROVE  Goes(own, lvl)
<1>1. /\ tasks' = tasks /\ kernel_pagemap' = kernel_pagemap /\ halt = "none" /\ job.phase = "stack"
  BY DEF FillStack, boot, Phase
<1>2. ExecJob
  BY <1>1, PhaseJob DEF ControlInv
<1>3. PICK t \in Task :
         /\ t = job.new /\ Alive(t) /\ IsTask(tasks[t]) /\ tasks[t].state = "building"
         /\ IsSpace(Machine, own, lvl, tasks[t].map, tasks[t].sp, t, kernel_pagemap)
  BY <1>1, <1>2, BuiltTask
<1>4. /\ \A f \in tasks[t].sp..tasks[t].sp + StackPages - 1 : f \in Frame /\ own[f] = t
      /\ tasks[t].sp \in Nat /\ Held(Machine, own, lvl)
  <2>1. tasks[t].sp \in Nat
    BY <1>3 DEF IsTask, Frame
  <2> QED
    BY <1>3, <2>1 DEF IsSpace, SpaceInv
<1>5. Extends(Machine, own, lvl, Machine', own, lvl, t)
  BY <1>3, <1>4, FillStackExtends
<1>6. Alive(t)' /\ tasks'[t].map = tasks[t].map /\ tasks'[t].sp = tasks[t].sp
  BY <1>1, <1>3 DEF Alive
<1> QED
  BY <1>1, <1>3, <1>5, <1>6, LiveGrows

\* The pages of a region lie in the user half.
LEMMA RegionHalf ==
    ASSUME NEW t \in Task, NEW virt \in Nat, NEW n \in Nat, InUserHalf(virt, n)
    PROVE  \A j \in 0..n - 1 : Half(virt + j, t) /\ virt + j \in UserPage
<1> DEFINE u == (Fan \div 2) * Span[4]
           w == Fan * Span[4]
<1>1. u \in Nat /\ w \in Nat /\ u <= w
  <2>1. Fan \div 2 \in Nat /\ Fan \in Nat /\ Fan \div 2 <= Fan /\ Span[4] \in Nat
    BY Spans
  <2>2. Span[4] * (Fan \div 2) \in Nat /\ Span[4] * Fan \in Nat
        /\ Span[4] * (Fan \div 2) <= Span[4] * Fan
    BY <2>1, TimesMonotone
  <2> QED
    BY <2>1, <2>2, SMT
<1>2. virt..virt + n - 1 \subseteq 0..u - 1
  BY DEF UserPage, InUserHalf
<1> HIDE DEF u, w
<1>3. \A j \in 0..n - 1 : virt + j \in 0..u - 1
  BY <1>1, <1>2
<1>4. \A j \in 0..n - 1 : virt + j \in Page /\ virt + j \in UserPage
  BY <1>1, <1>3 DEF Page, UserPage, u, w
<1> QED
  BY <1>4, UserEntry DEF Half

\* The task after mmap.
LEMMA MmapTask ==
    ASSUME ControlInv, NEW t \in Task, NEW virt, NEW n \in Nat, NEW fixed, Mmap(t, virt, n, fixed)
    PROVE  /\ tasks'[t].state = "ready"
           /\ tasks'[t].map = tasks[t].map /\ tasks'[t].sp = tasks[t].sp
           /\ tasks'[t].used_pages = UsedPages(t, n, fixed)
           /\ tasks'[t].regions = Append(tasks[t].regions,
                                         [page |-> virt, pages |-> n, fixed |-> fixed])
           /\ \A u \in Task : u # t => tasks'[u] = tasks[u]
<1> DEFINE p == UsedPages(t, n, fixed)
           g == Append(tasks[t].regions, [page |-> virt, pages |-> n, fixed |-> fixed])
           q == [tasks[t] EXCEPT !.used_pages = p, !.regions = g]
<1>1. IsTask(tasks[t]) /\ tasks[t].state = "ready"
  BY UserTask DEF Mmap
<1>2. p \in Nat
  BY <1>1 DEF IsTask, UsedPages
<1> HIDE DEF p
<1>3. tasks' = [tasks EXCEPT ![t].used_pages = p,
                             ![t].regions = Append(@, [page |-> virt, pages |-> n,
                                                       fixed |-> fixed])]
  BY Zenon DEF Mmap, p
<1>4. tasks'[t] = q /\ \A u \in Task : u # t => tasks'[u] = tasks[u]
  BY <1>1, <1>3 DEF ControlInv, TasksOK
<1> HIDE DEF g
<1>5. /\ q.state = tasks[t].state /\ q.map = tasks[t].map /\ q.sp = tasks[t].sp
      /\ q.regions = g /\ q.used_pages = p
  BY <1>1, <1>2 DEF IsTask, TaskFields
<1> HIDE DEF q
<1> QED
  BY <1>1, <1>4, <1>5 DEF p, g

\* mmap.
LEMMA MmapSpaces ==
    ASSUME ControlInv, NEW own, NEW lvl, SpaceInv(own, lvl), NEW t \in Task, NEW virt \in Nat,
           NEW n \in Nat, NEW fixed \in BOOLEAN, MmapOf(t, virt, n, fixed)
    PROVE  Goes(own, lvl)
<1> DEFINE m == Machine
           map == tasks[t].map
           m2 == MapRegion(t, virt, n)
<1> Mmap(t, virt, n, fixed) /\ Mapping
  BY DEF MmapOf, Mapping
<1>1. /\ InUser(t) /\ Becomes(m2) /\ kernel_pagemap' = kernel_pagemap /\ InUserHalf(virt, n)
  BY DEF Mmap, boot
<1>2. IsTask(tasks[t]) /\ tasks[t].state = "ready" /\ halt = "none" /\ Alive(t)
  BY <1>1, UserTask DEF Alive
<1>3. IsSpace(m, own, lvl, map, tasks[t].sp, t, kernel_pagemap) /\ Held(m, own, lvl)
  BY <1>2 DEF SpaceInv, Mine
<1>4. map \in Frame /\ own[map] = t /\ lvl[map] = 4
  BY <1>3 DEF IsSpace
<1>5. \A j \in 0..n - 1 : Half(virt + j, t)
  BY <1>1, RegionHalf
<1>6. PICK f : RegionLoop(f, m, map, virt, n) /\ m2 = f[n]
  BY RegionLast
<1> HIDE DEF m, map, m2
<1>7. PICK own2, lvl2 : Grew(m, own, lvl, f[n], own2, lvl2, t, m.used)
  BY <1>3, <1>4, <1>5, <1>6, RegionGrew
<1>8. Extends(m, own, lvl, m2, own2, lvl2, t)
  BY <1>6, <1>7, GrewExtends
<1>9. Extends(m, own, lvl, Machine', own2, lvl2, t)
  BY <1>1, <1>8, BecomesExtends
<1>10. /\ Alive(t)' /\ tasks'[t].map = tasks[t].map /\ tasks'[t].sp = tasks[t].sp
       /\ \A u \in Task : u # t => tasks'[u] = tasks[u]
  <2>1. /\ tasks'[t].state = "ready" /\ tasks'[t].map = tasks[t].map /\ tasks'[t].sp = tasks[t].sp
        /\ \A u \in Task : u # t => tasks'[u] = tasks[u]
    BY <1>2, MmapTask
  <2> QED
    BY <2>1 DEF Alive
<1> QED
  BY <1>1, <1>2, <1>9, <1>10, LiveGrows DEF m

\* sys_exit: the pages of t are nobody's, even those that are not freed.
LEMMA ExitSpaces ==
    ASSUME ControlInv, NEW own, NEW lvl, SpaceInv(own, lvl), NEW t \in Task,
           NEW freed, freed \in Freed(t),
           SysExit(t, freed)
    PROVE  Goes(own, lvl)
<1>1. /\ InUser(t) /\ used' = used \ freed /\ mem' = mem /\ bytes' = bytes /\ cr3' = cr3
      /\ halt' = halt /\ kernel_pagemap' = kernel_pagemap
      /\ tasks' = [tasks EXCEPT ![t].state = "dead"]
  BY DEF SysExit, boot
<1>2. /\ IsTask(tasks[t]) /\ halt = "none" /\ Alive(t) /\ tasks[t] # NoTask
  BY <1>1, UserTask DEF Alive
<1>3. IsSpace(Machine, own, lvl, tasks[t].map, tasks[t].sp, t, kernel_pagemap)
  BY <1>2 DEF SpaceInv, Mine
<1>4. \A f \in freed : own[f] = t
  <2>1. \A f \in freed : f \in StackFrames(t) \/ f = tasks[t].map
    <3>1. tasks[t].sp \in Nat /\ StackPages \in Nat
      BY <1>2, NaturalSizes DEF IsTask, Frame
    <3> QED
      BY <3>1 DEF Freed, StackFrames
  <2> QED
    BY <1>3, <2>1 DEF IsSpace, StackFrames
<1>5. /\ used \subseteq Frame /\ cr3 \in Frame \cup {Loader} /\ halt \in HaltReason
      /\ \A f \in Frame : own[f] # Nobody => f \in used
  BY MachineFieldsAre DEF SpaceInv, Held, IsMachine
<1>6. /\ used' \subseteq Frame /\ \A f \in Frame : own[f] \notin {Nobody, t} => f \in used'
  BY <1>1, <1>4, <1>5
<1>7. own[kernel_pagemap] = Kern /\ lvl[kernel_pagemap] = 4
  BY <1>2, KernelReady
<1>8. /\ \A u \in Task : u # t => tasks'[u] = tasks[u]
      /\ tasks'[t].state = "dead"
  BY <1>1, <1>2 DEF ControlInv, TasksOK, IsTask, TaskFields
<1>9. SameSpaces(t) /\ ~Alive(t)'
  BY <1>8 DEF SameSpaces, Alive
<1>10. SpaceInv(Released(own, t), lvl)' /\ StillStep(own, lvl, Released(own, t), lvl, t)
  BY <1>1, <1>5, <1>6, <1>7, <1>9, StillKeeps
<1> QED
  BY <1>10 DEF Goes, Moved

\* Steps of the exec that touch the records only.
LEMMA RecordSpaces ==
    ASSUME ControlInv, NEW own, NEW lvl, SpaceInv(own, lvl),
           \/ OpenFile \/ InterpreterHeader \/ PhdrHeader \/ OtherHeader
           \/ EndLoad \/ Push
    PROVE  Goes(own, lvl)
<1>1. /\ mem' = mem /\ bytes' = bytes /\ used' = used /\ cr3' = cr3
      /\ kernel_pagemap' = kernel_pagemap /\ halt = "none" /\ halt' \in HaltReason
      /\ job.phase \in {"open", "load", "push"}
  BY DEF OpenFile, InterpreterHeader, PhdrHeader, OtherHeader, EndLoad, Push, Header, Phase,
         boot, machine, HaltReason
<1>2. ExecJob /\ own[kernel_pagemap] = Kern /\ lvl[kernel_pagemap] = 4
  <2>1. ExecJob
    BY <1>1, PhaseJob DEF ControlInv
  <2> QED
    BY <1>1, <2>1, KernelReady
<1>3. cr3 \in Frame \cup {Loader}
  BY MachineFieldsAre DEF SpaceInv, Held, IsMachine
<1>4. SameSpaces(Nobody)
  <2>1. CASE tasks' = tasks
    BY <2>1 DEF SameSpaces, Alive
  <2>2. CASE EndLoad \/ Push
    <3>1. PICK t \in Task : t = job.new /\ IsTask(tasks[t]) /\ tasks[t].state = "building"
      BY <1>1, <1>2 DEF ExecJob, ControlInv, TasksOK
    <3>2. \A u \in Task : u # t => tasks'[u] = tasks[u]
      BY <2>2, <3>1 DEF EndLoad, Push, ControlInv, TasksOK
    <3>3. /\ tasks'[t].map = tasks[t].map /\ tasks'[t].sp = tasks[t].sp
          /\ tasks'[t].state \in {"building", "ready"}
      <4>1. CASE EndLoad
        <5> DEFINE v == job.base * PageSize + Program.entry
        <5>1. tasks' = [tasks EXCEPT ![t].rip = v]
          BY <3>1, <4>1 DEF EndLoad
        <5> HIDE DEF v
        <5> QED
          BY <3>1, <5>1 DEF ControlInv, TasksOK, IsTask, TaskFields
      <4>2. CASE Push
        <5>1. tasks' = [tasks EXCEPT ![t].state = "ready"]
          BY <3>1, <4>2 DEF Push
        <5> QED
          BY <3>1, <5>1 DEF ControlInv, TasksOK, IsTask, TaskFields
      <4> QED
        BY <2>2, <4>1, <4>2
    <3> QED
      BY <3>1, <3>2, <3>3 DEF SameSpaces, Alive
  <2> QED
    BY <2>1, <2>2 DEF OpenFile, InterpreterHeader, PhdrHeader, OtherHeader
<1> QED
  BY <1>1, <1>2, <1>3, <1>4, StillSpaces

LEMMA SwitchSpaces ==
    ASSUME ControlInv, NEW own, NEW lvl, SpaceInv(own, lvl), NEW t \in Task,
           CallUnfinished(t) \/ Switch(t)
    PROVE  Goes(own, lvl)
<1>1. /\ mem' = mem /\ bytes' = bytes /\ used' = used
      /\ kernel_pagemap' = kernel_pagemap /\ halt = "none" /\ halt' \in HaltReason
  BY DEF CallUnfinished, Switch, InUser, boot, machine, HaltReason
<1>2. tasks[t] # NoTask /\ IsTask(tasks[t])
  BY ListedTask DEF CallUnfinished, InUser, Switch, OnList, TaskState, ControlInv
<1>3. own[kernel_pagemap] = Kern /\ lvl[kernel_pagemap] = 4
  BY <1>1, <1>2, KernelReady
<1>4. cr3' \in Frame \cup {Loader} /\ (cr3' = cr3 \/ Loads)
  <2>1. cr3 \in Frame \cup {Loader}
    BY MachineFieldsAre DEF SpaceInv, Held, IsMachine
  <2>2. cr3' = cr3 \/ cr3' = tasks[t].map
    BY DEF CallUnfinished, Switch, machine
  <2>3. cr3' = cr3 \/ Loads
    <3>1. CallUnfinished(t) => cr3' = cr3
      BY DEF CallUnfinished, machine
    <3> QED
      BY <3>1, Zenon DEF Loads
  <2> QED
    BY <1>2, <2>1, <2>2, <2>3 DEF IsTask
<1>5. SameSpaces(Nobody)
  <2>1. CASE tasks' = tasks
    BY <2>1 DEF SameSpaces, Alive
  <2>2. ASSUME NEW u \in Task, tasks' = [tasks EXCEPT ![u].state = "lost"], Alive(u),
               tasks[u] # NoTask
        PROVE  SameSpaces(Nobody)
    <3>1. IsTask(tasks[u])
      BY <2>2 DEF ControlInv, TasksOK
    <3>2. /\ \A v \in Task : v # u => tasks'[v] = tasks[v]
          /\ tasks'[u].map = tasks[u].map /\ tasks'[u].sp = tasks[u].sp /\ tasks'[u].state = "lost"
      BY <2>2, <3>1 DEF ControlInv, TasksOK, IsTask, TaskFields
    <3> QED
      BY <2>2, <3>2 DEF SameSpaces, Alive
  <2>3. CASE CallUnfinished(t)
    BY <1>2, <2>2, <2>3 DEF CallUnfinished, InUser, Alive
  <2>4. CASE Switch(t) /\ ~(tasks' = tasks)
    <3>1. job # NoJob /\ tasks' = [tasks EXCEPT ![running].state = "lost"] /\ Started
      BY <2>4 DEF Switch
    <3>2. running \in Task
      BY <2>4, <3>1 DEF ControlInv, TasksOK
    <3>3. ~NoTasks
      BY <1>2 DEF NoTasks
    <3>4. ExecJob
      BY <3>1, <3>3 DEF ControlInv, JobOK, VmmJob
    <3>5. tasks[running] # NoTask /\ tasks[running].state = "ready"
      BY <3>2, <3>4 DEF ExecJob
    <3>6. PICK u \in Task : u = running
      BY <3>2
    <3> QED
      BY <2>2, <3>1, <3>5, <3>6 DEF Alive
  <2> QED
    BY <2>1, <2>3, <2>4
<1> QED
  BY <1>1, <1>3, <1>4, <1>5, StillSpaces

LEMMA RestSpaces ==
    ASSUME ControlInv, NEW own, NEW lvl, SpaceInv(own, lvl),
           NextWindow \/ LoadPagemap \/ SwitchToDead \/ NoProcess \/ MmapAstray
    PROVE  Goes(own, lvl)
<1>1. /\ mem' = mem /\ bytes' = bytes /\ used' = used /\ tasks' = tasks
      /\ kernel_pagemap' = kernel_pagemap /\ halt = "none" /\ halt' \in HaltReason
  <2>1. MmapAstray => halt = "none"
    BY DEF MmapAstray, InUser
  <2> QED
    BY <2>1 DEF NextWindow, LoadPagemap, SwitchToDead, NoProcess, MmapAstray, Phase, boot, machine,
       HaltReason
<1>2. job.phase # "boot" \/ Started
  <2>1. MmapAstray => Started
    BY DEF MmapAstray, InUser, Started
  <2> QED
    BY <2>1 DEF NextWindow, LoadPagemap, SwitchToDead, NoProcess, Phase
<1>3. own[kernel_pagemap] = Kern /\ lvl[kernel_pagemap] = 4
  BY <1>1, <1>2, KernelReady
<1>4. cr3' \in Frame \cup {Loader} /\ (cr3' = cr3 \/ Loads)
  <2>1. cr3 \in Frame \cup {Loader} /\ kernel_pagemap \in Frame
    BY MachineFieldsAre DEF SpaceInv, Held, IsMachine, ControlInv
  <2>2. NextWindow \/ SwitchToDead \/ NoProcess \/ MmapAstray => cr3' = cr3
    BY DEF NextWindow, SwitchToDead, NoProcess, MmapAstray, machine
  <2>3. LoadPagemap => cr3' = kernel_pagemap /\ Loads
    BY Zenon DEF LoadPagemap, Loads
  <2> QED
    BY <2>1, <2>2, <2>3
<1>5. SameSpaces(Nobody)
  BY <1>1 DEF SameSpaces, Alive
<1> QED
  BY <1>1, <1>3, <1>4, <1>5, StillSpaces

\* Nothing happens.
LEMMA IdleSpaces ==
    ASSUME NEW own, NEW lvl, SpaceInv(own, lvl), UNCHANGED vars
    PROVE  Goes(own, lvl)
<1>1. /\ mem' = mem /\ bytes' = bytes /\ used' = used /\ tasks' = tasks /\ cr3' = cr3
      /\ kernel_pagemap' = kernel_pagemap /\ halt' = halt /\ job' = job /\ running' = running
  BY DEF vars, machine, boot
<1>2. Machine' = Machine
  BY <1>1 DEF Machine
<1>3. SameSpaces(Nobody) /\ \A u \in Task : Alive(u)' <=> Alive(u)
  BY <1>1 DEF SameSpaces, Alive
<1>4. SpaceInv(own, lvl)'
  BY <1>1, <1>2, <1>3 DEF SpaceInv, Mine, Living, KernelOwns, NoTasks
<1>5. StillStep(own, lvl, own, lvl, Nobody)
  <2>1. Nobody \notin Task
    BY DEF Task, Nobody
  <2>2. own = Released(own, Nobody)
    BY ReleasedNobody DEF SpaceInv, Held
  <2> QED
    BY <1>1, <1>3, <2>1, <2>2 DEF StillStep, Released
<1> QED
  BY <1>4, <1>5 DEF Goes, Moved

\* mmap is asked for a page number.
LEMMA MmapCall ==
    ASSUME ControlInv, NEW t \in Task, NEW size \in Sizes,
           SysMmap(t, size) \/ \E hint \in Hints : SysMmapFixed(t, hint, size)
    PROVE  \E virt \in Nat, n \in Nat, fixed \in BOOLEAN : MmapOf(t, virt, n, fixed)
<1>1. PagesFor(size) \in Nat
  BY RegionSize
<1>2. CASE SysMmap(t, size)
  <2>1. Mmap(t, tasks[t].used_pages + AllocBase, PagesFor(size), FALSE)
    BY <1>2 DEF SysMmap
  <2>2. tasks[t].used_pages + AllocBase \in Nat
    <3>1. IsTask(tasks[t])
      BY <2>1, UserTask DEF Mmap
    <3> QED
      BY <3>1, NaturalSizes DEF IsTask
  <2> QED
    BY <1>1, <2>1, <2>2, Zenon DEF MmapOf
<1>3. ASSUME NEW hint \in Hints, SysMmapFixed(t, hint, size)
      PROVE  \E virt \in Nat, n \in Nat, fixed \in BOOLEAN : MmapOf(t, virt, n, fixed)
  <2>1. Mmap(t, hint, PagesFor(size), TRUE)
    BY <1>3 DEF SysMmapFixed
  <2>2. hint \in Nat
    BY LayoutAssumption
  <2> QED
    BY <1>1, <2>1, <2>2, Zenon DEF MmapOf
<1> QED
  BY <1>2, <1>3

LEMMA SpaceInit ==
    ASSUME Init
    PROVE  \E own, lvl : SpaceInv(own, lvl)
<1> DEFINE own == [f \in Frame |-> Nobody]
           lvl == [f \in Frame |-> 0]
           m == Machine
<1>1. /\ m = [x \in MachineFields |-> m[x]]
      /\ m.mem = mem /\ m.bytes = bytes /\ m.used = used /\ m.cr3 = cr3 /\ m.halt = halt
      /\ m.table = 0
  BY MachineFieldsAre
<1>2. /\ mem = [f \in Frame |-> ZeroTable] /\ bytes = <<>> /\ used \subseteq Frame
      /\ cr3 = Loader /\ halt = "none"
  BY DEF Init
<1>3. IsMemory(mem)
  BY <1>2, Flags DEF IsMemory, ZeroTable
<1>4. DOMAIN bytes = {}
  BY <1>2
<1> HIDE DEF m
<1>5. IsMachine(m)
  BY <1>1, <1>2, <1>3, <1>4, NaturalSizes DEF IsMachine, HaltReason
<1>6. /\ IsGhost(own, lvl) /\ \A f \in Frame : own[f] = Nobody
  BY DEF IsGhost, Owner
<1> HIDE DEF own, lvl
<1>7. Held(m, own, lvl)
  BY <1>5, <1>6 DEF Held, Tree, Lone, Edge, Slot
<1>8. NoTasks /\ job.phase = "boot"
  BY DEF Init, NoTasks
<1>9. Mine(own, lvl)
  BY <1>8, NoneAlive DEF Mine
<1>10. Living(own)
  BY <1>6, TaskOwner DEF Living
<1> QED
  BY <1>7, <1>8, <1>9, <1>10 DEF SpaceInv, KernelOwns, m

\* Every step keeps the address spaces apart.
LEMMA SpaceStep ==
    ASSUME ControlInv, AlignInv, NEW own, NEW lvl, SpaceInv(own, lvl), [Next]_vars
    PROVE  Goes(own, lvl)
<1>1. ASSUME NEW pages \in JunkPages, FirstProcess(pages)
      PROVE  Goes(own, lvl)
  <2>1. TaskInit(InitPath, InitArgs, pages) /\ job.phase = "init" /\ halt = "none"
    BY <1>1 DEF FirstProcess, Phase
  <2>2. own[kernel_pagemap] = Kern /\ lvl[kernel_pagemap] = 4
    BY <2>1, KernelReady
  <2> QED
    BY <2>1, <2>2, TaskInitSpaces
<1>2. ASSUME NEW pages \in JunkPages, NEW c \in Calls, SysExecve(c.path, c.args, pages)
      PROVE  Goes(own, lvl)
  <2>1. TaskInit(c.path, c.args, pages) /\ \E t \in Task : InUser(t)
    BY <1>2 DEF SysExecve
  <2>2. halt = "none" /\ \E t \in Task : tasks[t] # NoTask
    BY <2>1, UserTask
  <2>3. own[kernel_pagemap] = Kern /\ lvl[kernel_pagemap] = 4
    BY <2>2, KernelReady
  <2> QED
    BY <2>1, <2>2, <2>3, TaskInitSpaces
<1>3. CASE Load
  BY <1>3, RecordSpaces, SegmentSpaces, FillStackSpaces, Zenon DEF Load
<1>4. ASSUME NEW t \in Task, NEW size \in Sizes,
             SysMmap(t, size) \/ \E hint \in Hints : SysMmapFixed(t, hint, size)
      PROVE  Goes(own, lvl)
  BY <1>4, MmapCall, MmapSpaces
<1>5. ASSUME NEW t \in Task, CallUnfinished(t) \/ Switch(t)
      PROVE  Goes(own, lvl)
  BY <1>5, SwitchSpaces
<1>6. ASSUME NEW t \in Task,
             NEW freed \in Freed(t),
             SysExit(t, freed)
      PROVE  Goes(own, lvl)
  BY <1>6, ExitSpaces
<1>7. CASE NewKernelPagemap \/ MapWindows
  BY <1>7, BootSpaces
<1>8. CASE NextWindow \/ LoadPagemap \/ SwitchToDead \/ NoProcess \/ MmapAstray
  BY <1>8, RestSpaces
<1>9. CASE Idle \/ UNCHANGED vars
  BY <1>9, IdleSpaces DEF Idle
<1> QED
  BY <1>1, <1>2, <1>3, <1>4, <1>5, <1>6, <1>7, <1>8, <1>9, Zenon DEF Next

-----------------------------------------------------------------------------
(* What the CPU finds below the page map of a process.                       *)

\* Present entries of the tables of a process lead to its pages.
LEMMA TreeEntry ==
    ASSUME NEW m, NEW own, NEW lvl, Held(m, own, lvl), NEW t \in Task,
           NEW f \in Frame, own[f] = t, lvl[f] \in 1..4, NEW i \in Index,
           lvl[f] = 4 => i < Fan \div 2, Present(m.mem[f][i])
    PROVE  /\ m.mem[f][i] = Level(m.mem[f][i].frame, t) /\ m.mem[f][i].frame \in Frame
           /\ own[m.mem[f][i].frame] = t /\ lvl[m.mem[f][i].frame] = lvl[f] - 1
<1>1. t # Nobody /\ t # Kern
  BY TaskOwner
<1>2. Slot(own, lvl, f, i)
  BY <1>1 DEF Slot
<1>3. m.mem[f][i] \in Entry
  BY DEF Held, IsMachine, IsMemory
<1>4. Edge(m.mem, own, lvl, f, i)
  BY <1>2 DEF Edge
<1>5. m.mem[f][i].flags = Rights(t) /\ own[m.mem[f][i].frame] = t
      /\ lvl[m.mem[f][i].frame] = lvl[f] - 1
  BY <1>4 DEF Held, Tree
<1> QED
  BY <1>3, <1>5 DEF Entry, Level

\* Tables of t at one level, each with the number of the pages below it.
NodesOf(S, own, lvl, t, k) ==
    \A n \in S : \E y \in Nat, c \in Frame :
        n = Node(y, Level(c, t)) /\ own[c] = t /\ lvl[c] = k

\* x lies below a node of S.
Under(S, x, t) ==
    \E y \in Nat, c, d \in Frame, i \in Index :
        /\ Node(y, Level(c, t)) \in S
        /\ mem[c][i] = Level(d, t)
        /\ x = Node(y * Fan + i, Level(d, t))

LEMMA NodeFields ==
    ASSUME NEW y, NEW e, NEW z, NEW f
    PROVE  /\ Node(y, e).page = y /\ Node(y, e).entry = e
           /\ Node(y, e) = Node(z, f) => y = z /\ e = f
<1>1. Node(y, e).page = y /\ Node(y, e).entry = e /\ Node(z, f).page = z /\ Node(z, f).entry = f
  BY DEF Node
<1> QED
  BY <1>1

LEMMA LevelFields ==
    ASSUME NEW t \in Task, NEW c, NEW d
    PROVE  /\ Level(c, t).frame = c /\ Level(c, t).flags = UserFlags
           /\ Present(Level(c, t)) /\ Level(c, t) # NoEntry
           /\ Level(c, t) = Level(d, t) => c = d
           /\ Below(Level(c, t), Level(d, t)) = Level(d, t)
<1>1. Rights(t) = UserFlags
  BY TaskOwner DEF Rights
<1>2. Level(c, t).frame = c /\ Level(c, t).flags = UserFlags /\ Level(d, t).frame = d
      /\ Level(d, t).flags = UserFlags
  BY <1>1 DEF Level
<1>3. Present(Level(c, t))
  BY <1>2 DEF Present, UserFlags
<1>4. ~Present(NoEntry)
  BY Flags
<1>5. Below(Level(c, t), Level(d, t)) = Level(d, t)
  BY <1>1, <1>2 DEF Below, Level
<1> QED
  BY <1>2, <1>3, <1>4, <1>5

\* Descend goes from the tables of one level to what lies below them.
LEMMA DescendIs ==
    ASSUME NEW own, NEW lvl, Held(Machine, own, lvl), NEW t \in Task, NEW S, NEW k \in 1..3,
           NodesOf(S, own, lvl, t, k)
    PROVE  /\ \A x : x \in Descend(S) <=> Under(S, x, t)
           /\ NodesOf(Descend(S), own, lvl, t, k - 1)
<1>1. Machine.mem = mem
  BY MachineFieldsAre
<1>2. ASSUME NEW c \in Frame, own[c] = t, lvl[c] = k, NEW i \in Index
      PROVE  /\ Present(mem[c][i]) => /\ mem[c][i] = Level(mem[c][i].frame, t)
                                      /\ mem[c][i].frame \in Frame
                                      /\ own[mem[c][i].frame] = t
                                      /\ lvl[mem[c][i].frame] = k - 1
             /\ Present(mem[c][i]) => Lookup(mem, Level(c, t), i) = mem[c][i]
  <2>1. lvl[c] \in 1..4 /\ lvl[c] # 4
    BY <1>2
  <2>2. Present(mem[c][i]) => /\ mem[c][i] = Level(mem[c][i].frame, t)
                                      /\ mem[c][i].frame \in Frame
                                      /\ own[mem[c][i].frame] = t
                                      /\ lvl[mem[c][i].frame] = k - 1
    BY <1>1, <1>2, <2>1, TreeEntry
  <2>3. Lookup(mem, Level(c, t), i) = Below(Level(c, t), mem[c][i])
    BY LevelFields DEF Lookup
  <2>4. Present(mem[c][i]) => Lookup(mem, Level(c, t), i) = mem[c][i]
    BY <2>2, <2>3, LevelFields
  <2> QED
    BY <2>2, <2>4
<1>3. ASSUME NEW x, x \in Descend(S)
      PROVE  /\ Under(S, x, t)
             /\ \E y \in Nat, c \in Frame : x = Node(y, Level(c, t)) /\ own[c] = t /\ lvl[c] = k - 1
  <2>1. PICK n \in S, i \in Index : /\ Present(mem[n.entry.frame][i])
                                    /\ x = Node(n.page * Fan + i, Lookup(mem, n.entry, i))
    BY <1>3 DEF Descend
  <2>2. PICK y \in Nat, c \in Frame : n = Node(y, Level(c, t)) /\ own[c] = t /\ lvl[c] = k
    BY DEF NodesOf
  <2>3. n.page = y /\ n.entry = Level(c, t) /\ n.entry.frame = c
    BY <2>2, NodeFields, LevelFields
  <2>4. PICK d \in Frame : mem[c][i] = Level(d, t) /\ own[d] = t /\ lvl[d] = k - 1
    BY <1>2, <2>1, <2>2, <2>3
  <2>5. x = Node(y * Fan + i, Level(d, t))
    BY <1>2, <2>1, <2>2, <2>3, <2>4
  <2>6. y * Fan + i \in Nat
    BY SizesAssumption DEF Index
  <2> QED
    BY <2>2, <2>4, <2>5, <2>6 DEF Under
<1>4. ASSUME NEW x, Under(S, x, t)
      PROVE  x \in Descend(S)
  <2>1. PICK y \in Nat, c, d \in Frame, i \in Index :
            /\ Node(y, Level(c, t)) \in S
            /\ mem[c][i] = Level(d, t)
            /\ x = Node(y * Fan + i, Level(d, t))
    BY <1>4 DEF Under
  <2> DEFINE n == Node(y, Level(c, t))
  <2>2. n \in S /\ n.page = y /\ n.entry = Level(c, t) /\ n.entry.frame = c
    BY <2>1, NodeFields, LevelFields
  <2>3. own[c] = t /\ lvl[c] = k
    <3>1. PICK y2 \in Nat, c2 \in Frame : n = Node(y2, Level(c2, t)) /\ own[c2] = t /\ lvl[c2] = k
      BY <2>2 DEF NodesOf
    <3>2. Level(c2, t) = Level(c, t)
      BY <3>1, NodeFields
    <3> QED
      BY <3>1, <3>2, LevelFields
  <2>4. Present(mem[n.entry.frame][i])
    BY <2>1, <2>2, LevelFields
  <2>5. Lookup(mem, n.entry, i) = Level(d, t)
    BY <1>2, <2>1, <2>2, <2>3, <2>4
  <2> HIDE DEF n
  <2>6. x = Node(n.page * Fan + i, Lookup(mem, n.entry, i))
    BY <2>1, <2>2, <2>5
  <2> QED
    BY <2>2, <2>4, <2>6 DEF Descend
<1> QED
  BY <1>3, <1>4 DEF NodesOf

\* The user half of the page map.
LEMMA UpperIs ==
    ASSUME NEW own, NEW lvl, Held(Machine, own, lvl), NEW t \in Task,
           NEW map \in Frame, own[map] = t, lvl[map] = 4
    PROVE  /\ NodesOf(Upper(map), own, lvl, t, 3)
           /\ \A i \in 0..Fan \div 2 - 1, c \in Frame :
                 mem[map][i] = Level(c, t) => Node(i, Level(c, t)) \in Upper(map)
           /\ \A y, c : Node(y, Level(c, t)) \in Upper(map) =>
                 y \in 0..Fan \div 2 - 1 /\ mem[map][y] = Level(c, t)
<1>1. Machine.mem = mem
  BY MachineFieldsAre
<1>2. \A i \in 0..Fan \div 2 - 1 : i \in Index /\ i < Fan \div 2 /\ i \in Nat
  BY Spans DEF Index
<1>3. ASSUME NEW i \in 0..Fan \div 2 - 1, Present(mem[map][i])
      PROVE  /\ mem[map][i] = Level(mem[map][i].frame, t) /\ mem[map][i].frame \in Frame
             /\ own[mem[map][i].frame] = t /\ lvl[mem[map][i].frame] = 3
  <2>1. lvl[map] \in 1..4
    OBVIOUS
  <2> QED
    BY <1>1, <1>2, <1>3, <2>1, TreeEntry
<1>4. NodesOf(Upper(map), own, lvl, t, 3)
  <2> SUFFICES ASSUME NEW n \in Upper(map)
               PROVE  \E y \in Nat, c \in Frame :
                         n = Node(y, Level(c, t)) /\ own[c] = t /\ lvl[c] = 3
    BY DEF NodesOf
  <2>1. PICK i \in 0..Fan \div 2 - 1 : Present(mem[map][i]) /\ n = Node(i, mem[map][i])
    BY DEF Upper
  <2> QED
    BY <1>2, <1>3, <2>1
<1>5. ASSUME NEW i \in 0..Fan \div 2 - 1, NEW c \in Frame, mem[map][i] = Level(c, t)
      PROVE  Node(i, Level(c, t)) \in Upper(map)
  <2>1. Present(mem[map][i]) /\ Node(i, Level(c, t)) = Node(i, mem[map][i])
    BY <1>5, LevelFields
  <2> QED
    BY <2>1 DEF Upper
<1>6. ASSUME NEW y, NEW c, Node(y, Level(c, t)) \in Upper(map)
      PROVE  y \in 0..Fan \div 2 - 1 /\ mem[map][y] = Level(c, t)
  <2>1. PICK i \in 0..Fan \div 2 - 1 : Node(y, Level(c, t)) = Node(i, mem[map][i])
    BY <1>6 DEF Upper
  <2> QED
    BY <2>1, NodeFields
<1> QED
  BY <1>4, <1>5, <1>6

\* What lies below an entry of a table.
LEMMA UnderIs ==
    ASSUME NEW t \in Task, NEW S, NEW y, NEW d
    PROVE  Under(S, Node(y, Level(d, t)), t) <=>
              \E x \in Nat, c \in Frame, i \in Index :
                 /\ d \in Frame /\ Node(x, Level(c, t)) \in S
                 /\ mem[c][i] = Level(d, t) /\ y = x * Fan + i
<1>1. ASSUME Under(S, Node(y, Level(d, t)), t)
      PROVE  \E x \in Nat, c \in Frame, i \in Index :
                 /\ d \in Frame /\ Node(x, Level(c, t)) \in S
                 /\ mem[c][i] = Level(d, t) /\ y = x * Fan + i
  <2>1. PICK x \in Nat, c, d2 \in Frame, i \in Index :
            /\ Node(x, Level(c, t)) \in S
            /\ mem[c][i] = Level(d2, t)
            /\ Node(y, Level(d, t)) = Node(x * Fan + i, Level(d2, t))
    BY <1>1 DEF Under
  <2>2. y = x * Fan + i /\ d = d2
    BY <2>1, NodeFields, LevelFields
  <2> QED
    BY <2>1, <2>2
<1>2. ASSUME NEW x \in Nat, NEW c \in Frame, NEW i \in Index,
             d \in Frame, Node(x, Level(c, t)) \in S,
             mem[c][i] = Level(d, t), y = x * Fan + i
      PROVE  Under(S, Node(y, Level(d, t)), t)
  BY <1>2 DEF Under
<1> QED
  BY <1>1, <1>2

\* The pages below a page map, as vmm_map and the CPU number them.
LEMMA NodesReached ==
    ASSUME NEW own, NEW lvl, Held(Machine, own, lvl), NEW t \in Task,
           NEW map \in Frame, own[map] = t, lvl[map] = 4
    PROVE  /\ NodesOf(Upper(map), own, lvl, t, 3)
           /\ NodesOf(Descend(Upper(map)), own, lvl, t, 2)
           /\ NodesOf(Descend(Descend(Upper(map))), own, lvl, t, 1)
           /\ NodesOf(Descend(Descend(Descend(Upper(map)))), own, lvl, t, 0)
           /\ \A v, d : Node(v, Level(d, t)) \in Descend(Descend(Descend(Upper(map)))) <=>
                 v \in UserPage /\ d \in Frame /\ Reached(Machine, map, v, d, t)
<1> DEFINE S3 == Upper(map)
           S2 == Descend(S3)
           S1 == Descend(S2)
           S0 == Descend(S1)
<1>1. Machine.mem = mem
  BY MachineFieldsAre
<1>2. NodesOf(S3, own, lvl, t, 3)
  BY UpperIs
<1>3. NodesOf(S2, own, lvl, t, 2) /\ \A x : x \in S2 <=> Under(S3, x, t)
  BY <1>2, DescendIs, 3 \in 1..3, 3 - 1 = 2
<1>4. NodesOf(S1, own, lvl, t, 1) /\ \A x : x \in S1 <=> Under(S2, x, t)
  BY <1>3, DescendIs, 2 \in 1..3, 2 - 1 = 1
<1>5. NodesOf(S0, own, lvl, t, 0) /\ \A x : x \in S0 <=> Under(S1, x, t)
  BY <1>4, DescendIs, 1 \in 1..3, 1 - 1 = 0
<1> HIDE DEF S3, S2, S1, S0
<1>6. ASSUME NEW v, NEW d, Node(v, Level(d, t)) \in S0
      PROVE  v \in UserPage /\ d \in Frame /\ Reached(Machine, map, v, d, t)
  <2>1. PICK x1 \in Nat, a1 \in Frame, i1 \in Index :
            /\ d \in Frame /\ Node(x1, Level(a1, t)) \in S1
            /\ mem[a1][i1] = Level(d, t) /\ v = x1 * Fan + i1
    BY <1>5, <1>6, UnderIs
  <2>2. PICK x2 \in Nat, a2 \in Frame, i2 \in Index :
            /\ Node(x2, Level(a2, t)) \in S2
            /\ mem[a2][i2] = Level(a1, t) /\ x1 = x2 * Fan + i2
    BY <1>4, <2>1, UnderIs
  <2>3. PICK i4 \in Nat, a3 \in Frame, i3 \in Index :
            /\ Node(i4, Level(a3, t)) \in S3
            /\ mem[a3][i3] = Level(a2, t) /\ x2 = i4 * Fan + i3
    BY <1>3, <2>2, UnderIs
  <2>4. i4 \in 0..Fan \div 2 - 1 /\ mem[map][i4] = Level(a3, t)
    BY <2>3, UpperIs DEF S3
  <2>5. v = PageOf(i4, i3, i2, i1)
    BY <2>1, <2>2, <2>3, Zenon DEF PageOf
  <2>6. /\ v \in UserPage
        /\ PML_ENTRY(v, 4) = i4 /\ PML_ENTRY(v, 3) = i3
        /\ PML_ENTRY(v, 2) = i2 /\ PML_ENTRY(v, 1) = i1
    BY <2>4, <2>5, PageOfEntries
  <2> QED
    BY <1>1, <2>1, <2>2, <2>3, <2>4, <2>6 DEF Reached, Path
<1>7. ASSUME NEW v \in UserPage, NEW d \in Frame, Reached(Machine, map, v, d, t)
      PROVE  Node(v, Level(d, t)) \in S0
  <2> DEFINE i4 == PML_ENTRY(v, 4)
             i3 == PML_ENTRY(v, 3)
             i2 == PML_ENTRY(v, 2)
             i1 == PML_ENTRY(v, 1)
             x2 == i4 * Fan + i3
             x1 == x2 * Fan + i2
  <2>1. PICK a3, a2, a1 \in Frame :
            /\ mem[map][i4] = Level(a3, t) /\ mem[a3][i3] = Level(a2, t)
            /\ mem[a2][i2] = Level(a1, t) /\ mem[a1][i1] = Level(d, t)
    BY <1>1, <1>7 DEF Reached, Path
  <2>2. /\ v \in Page /\ i4 \in 0..Fan \div 2 - 1 /\ v = PageOf(i4, i3, i2, i1)
    BY PageHasEntries
  <2>3. i3 \in Index /\ i2 \in Index /\ i1 \in Index /\ Fan \in Nat
    BY <2>2, EntryIndex, Spans DEF Page
  <2> HIDE DEF i4, i3, i2, i1
  <2>4. i4 \in Nat /\ i3 \in Nat /\ i2 \in Nat
    BY <2>2, <2>3 DEF Index
  <2>5. x2 \in Nat
    BY <2>3, <2>4
  <2>6. v = x1 * Fan + i1
    BY <2>2, Zenon DEF PageOf
  <2> HIDE DEF x2
  <2>7. x1 \in Nat
    BY <2>3, <2>4, <2>5
  <2>8. Node(i4, Level(a3, t)) \in S3
    BY <2>1, <2>2, UpperIs DEF S3
  <2>9. Node(x2, Level(a2, t)) \in S2
    <3>1. x2 = i4 * Fan + i3
      BY DEF x2
    <3> QED
      BY <1>3, <2>1, <2>3, <2>4, <2>8, <3>1, UnderIs
  <2>10. x1 = x2 * Fan + i2
    OBVIOUS
  <2> HIDE DEF x1
  <2>11. Node(x1, Level(a1, t)) \in S1
    BY <1>4, <2>1, <2>3, <2>5, <2>9, <2>10, UnderIs
  <2> QED
    BY <1>5, <2>1, <2>3, <2>6, <2>7, <2>11, UnderIs
<1> QED
  BY <1>2, <1>3, <1>4, <1>5, <1>6, <1>7 DEF S3, S2, S1, S0

\* A page leads to one physical page, which is its owner's memory.
LEMMA ReachedOwn ==
    ASSUME NEW m, NEW own, NEW lvl, Held(m, own, lvl), NEW t \in Task,
           NEW map \in Frame, own[map] = t, lvl[map] = 4,
           NEW v \in UserPage, NEW d \in Frame, Reached(m, map, v, d, t)
    PROVE  /\ own[d] = t /\ lvl[d] = 0
           /\ \A c : Reached(m, map, v, c, t) => c = d
           /\ \A w \in UserPage : Reached(m, map, w, d, t) => w = v
<1> DEFINE i(w) == PML_ENTRY(w, 1)
<1>1. \A w \in UserPage : w \in Page /\ i(w) \in Index /\ Half(w, t)
  <2> SUFFICES ASSUME NEW w \in UserPage
               PROVE  w \in Page /\ i(w) \in Index /\ Half(w, t)
    OBVIOUS
  <2>1. w \in Page /\ PML_ENTRY(w, 4) \in 0..Fan \div 2 - 1
    BY PageHasEntries
  <2>2. w \in Nat
    BY <2>1 DEF Page
  <2>3. PML_ENTRY(w, 4) < Fan \div 2
    BY <2>1, Spans
  <2> QED
    BY <2>1, <2>2, <2>3, EntryIndex DEF Half
<1>2. t \in Owner \ {Nobody} /\ t # Kern
  BY TaskOwner DEF Owner
<1>3. ASSUME NEW w \in UserPage, NEW c, Reached(m, map, w, c, t)
      PROVE  \E b3, b2, b1 \in Frame :
                 /\ Path(m.mem, map, w, t, b3, b2, b1) /\ m.mem[b1][i(w)] = Level(c, t)
                 /\ Edge(m.mem, own, lvl, b1, i(w)) /\ m.mem[b1][i(w)].frame = c
                 /\ own[b1] = t /\ lvl[b1] = 1
  <2>1. PICK b3, b2, b1 \in Frame : /\ Path(m.mem, map, w, t, b3, b2, b1)
                                    /\ m.mem[b1][i(w)] = Level(c, t)
    BY <1>3 DEF Reached
  <2>2. own[b1] = t /\ lvl[b1] = 1
    BY <1>1, <1>2, <2>1, PathLevels
  <2>3. Slot(own, lvl, b1, i(w))
    BY <1>2, <2>2 DEF Slot
  <2>4. Present(m.mem[b1][i(w)]) /\ m.mem[b1][i(w)].frame = c
    BY <2>1, LevelFields
  <2>5. Edge(m.mem, own, lvl, b1, i(w))
    BY <2>3, <2>4 DEF Edge
  <2> QED
    BY <2>1, <2>2, <2>4, <2>5
<1> HIDE DEF i
<1>4. PICK a3, a2, a1 \in Frame :
          /\ Path(m.mem, map, v, t, a3, a2, a1) /\ m.mem[a1][i(v)] = Level(d, t)
          /\ Edge(m.mem, own, lvl, a1, i(v)) /\ m.mem[a1][i(v)].frame = d
          /\ own[a1] = t /\ lvl[a1] = 1
  BY <1>3
<1>5. own[d] = t /\ lvl[d] = 0
  BY <1>1, <1>4 DEF Held, Tree
<1>6. ASSUME NEW c, Reached(m, map, v, c, t)
      PROVE  c = d
  <2>1. PICK b3, b2, b1 \in Frame : /\ Path(m.mem, map, v, t, b3, b2, b1)
                                    /\ m.mem[b1][i(v)] = Level(c, t)
    BY <1>3, <1>6
  <2>2. b3 = a3 /\ b2 = a2 /\ b1 = a1
    <3>1. b3 = a3
      <4>1. Level(b3, t) = Level(a3, t)
        BY <1>4, <2>1 DEF Path
      <4> QED
        BY <4>1, LevelFields
    <3>2. b2 = a2
      BY <1>4, <2>1, <3>1, LevelFields DEF Path
    <3> QED
      BY <1>4, <2>1, <3>1, <3>2, LevelFields DEF Path
  <2> QED
    BY <1>4, <2>1, <2>2, LevelFields
<1>7. ASSUME NEW w \in UserPage, Reached(m, map, w, d, t)
      PROVE  w = v
  <2>1. PICK b3, b2, b1 \in Frame :
            /\ Path(m.mem, map, w, t, b3, b2, b1)
            /\ Edge(m.mem, own, lvl, b1, i(w)) /\ m.mem[b1][i(w)].frame = d
    BY <1>3, <1>7
  <2>2. b1 = a1 /\ i(w) = i(v)
    BY <1>1, <1>4, <2>1 DEF Held, Lone
  <2> QED
    BY <1>1, <1>2, <1>4, <2>1, <2>2, PathsApart DEF i
<1> QED
  BY <1>5, <1>6, <1>7

\* The pages of a process, and the physical page behind each.
Mapped(m, map, t) == {v \in UserPage : \E d \in Frame : Reached(m, map, v, d, t)}

Behind(s, m, map, t) ==
    /\ s = [v \in Mapped(m, map, t) |-> s[v]]
    /\ \A v \in Mapped(m, map, t) : s[v] \in Frame /\ Reached(m, map, v, s[v], t)

LEMMA SpaceOfIs ==
    ASSUME NEW own, NEW lvl, Held(Machine, own, lvl), NEW t \in Task,
           tasks[t].map \in Frame, own[tasks[t].map] = t, lvl[tasks[t].map] = 4
    PROVE  Behind(SpaceOf(t), Machine, tasks[t].map, t)
<1> DEFINE map == tasks[t].map
           all == Descend(Descend(Descend(Upper(map))))
           nodes == {n \in all : n.entry.flags = UserFlags}
           pages == {n.page : n \in nodes}
           s == [v \in pages |-> (CHOOSE n \in nodes : n.page = v).entry.frame]
<1>1. /\ NodesOf(all, own, lvl, t, 0)
      /\ \A v, d : Node(v, Level(d, t)) \in all <=>
            v \in UserPage /\ d \in Frame /\ Reached(Machine, map, v, d, t)
  BY NodesReached
<1>2. SpaceOf(t) = s
  BY DEF SpaceOf
<1> HIDE DEF all, map
<1>3. \A v, d : Node(v, Level(d, t)) \in nodes <=>
            v \in UserPage /\ d \in Frame /\ Reached(Machine, map, v, d, t)
  BY <1>1, NodeFields, LevelFields
<1>4. \A n \in nodes : \E v, d : n = Node(v, Level(d, t))
  BY <1>1 DEF NodesOf
<1> HIDE DEF nodes
<1>5. pages = Mapped(Machine, map, t)
  <2>1. ASSUME NEW v \in pages
        PROVE  v \in Mapped(Machine, map, t)
    <3>1. PICK n \in nodes : n.page = v
      OBVIOUS
    <3>2. PICK w, d : n = Node(w, Level(d, t))
      BY <1>4
    <3>3. w = v
      BY <3>1, <3>2, NodeFields
    <3> QED
      BY <1>3, <3>2, <3>3 DEF Mapped
  <2>2. ASSUME NEW v \in Mapped(Machine, map, t)
        PROVE  v \in pages
    <3>1. PICK d \in Frame : Node(v, Level(d, t)) \in nodes
      BY <1>3 DEF Mapped
    <3>2. Node(v, Level(d, t)).page = v
      BY NodeFields
    <3> QED
      BY <3>1, <3>2
  <2> QED
    BY <2>1, <2>2
<1>6. ASSUME NEW v \in pages
      PROVE  s[v] \in Frame /\ Reached(Machine, map, v, s[v], t)
  <2> DEFINE n == CHOOSE n \in nodes : n.page = v
  <2>1. n \in nodes /\ n.page = v
    OBVIOUS
  <2>2. s[v] = n.entry.frame
    OBVIOUS
  <2> HIDE DEF n, s
  <2>3. PICK w, d : n = Node(w, Level(d, t))
    BY <1>4, <2>1
  <2>4. w = v /\ n.entry.frame = d
    BY <2>1, <2>3, NodeFields, LevelFields
  <2> QED
    BY <1>3, <2>1, <2>2, <2>3, <2>4
<1>7. s = [v \in pages |-> s[v]]
  OBVIOUS
<1> HIDE DEF pages, s
<1> QED
  BY <1>2, <1>5, <1>6, <1>7 DEF Behind, map

\* The tables of a process are its own.
LEMMA TablesOwn ==
    ASSUME NEW own, NEW lvl, Held(Machine, own, lvl), NEW t \in Task,
           NEW map \in Frame, own[map] = t, lvl[map] = 4
    PROVE  \A f \in Tables(map) : f \in Frame /\ own[f] = t /\ lvl[f] # 0
<1>1. ASSUME NEW S, NEW k \in 1..3, NodesOf(S, own, lvl, t, k), NEW f \in Frames(S)
      PROVE  f \in Frame /\ own[f] = t /\ lvl[f] # 0
  <2>1. PICK n \in S : f = n.entry.frame
    BY DEF Frames
  <2>2. PICK y \in Nat, c \in Frame : n = Node(y, Level(c, t)) /\ own[c] = t /\ lvl[c] = k
    BY <1>1 DEF NodesOf
  <2>3. f = c
    BY <2>1, <2>2, NodeFields, LevelFields
  <2> QED
    BY <2>2, <2>3
<1>2. /\ NodesOf(Upper(map), own, lvl, t, 3)
      /\ NodesOf(Descend(Upper(map)), own, lvl, t, 2)
      /\ NodesOf(Descend(Descend(Upper(map))), own, lvl, t, 1)
  BY NodesReached
<1>3. 1 \in 1..3 /\ 2 \in 1..3 /\ 3 \in 1..3
  OBVIOUS
<1>4. /\ \A f \in Frames(Upper(map)) : f \in Frame /\ own[f] = t /\ lvl[f] # 0
      /\ \A f \in Frames(Descend(Upper(map))) : f \in Frame /\ own[f] = t /\ lvl[f] # 0
      /\ \A f \in Frames(Descend(Descend(Upper(map)))) : f \in Frame /\ own[f] = t /\ lvl[f] # 0
  BY <1>1, <1>2, <1>3
<1>5. lvl[map] # 0
  OBVIOUS
<1> QED
  BY <1>4, <1>5, Zenon DEF Tables

\* The tables of vmm_initialize are the kernel's.
LEMMA KernelTablesOwn ==
    ASSUME NEW own, NEW lvl, Held(Machine, own, lvl), kernel_pagemap \in Frame,
           own[kernel_pagemap] = Kern, lvl[kernel_pagemap] = 4
    PROVE  \A f \in KernelTables : own[f] = Kern
<1> DEFINE Of(S, k) == \A f \in S : f \in Frame /\ own[f] = Kern /\ lvl[f] = k
<1>1. Machine.mem = mem
  BY MachineFieldsAre
<1>2. ASSUME NEW S, NEW k \in 2..4, Of(S, k)
      PROVE  Of(Children(S), k - 1)
  <2> SUFFICES ASSUME NEW f \in Children(S)
               PROVE  f \in Frame /\ own[f] = Kern /\ lvl[f] = k - 1
    OBVIOUS
  <2>1. PICK g \in S, i \in Index : Present(mem[g][i]) /\ f = mem[g][i].frame
    BY DEF Children
  <2>2. g \in Frame /\ own[g] = Kern /\ lvl[g] = k
    BY <1>2
  <2>3. Kern # Nobody /\ k # 0 /\ k # 1
    BY DEF Kern, Nobody
  <2>4. Slot(own, lvl, g, i)
    BY <2>2, <2>3 DEF Slot
  <2>5. Edge(mem, own, lvl, g, i)
    BY <2>1, <2>4 DEF Edge
  <2>6. mem[g][i] \in Entry /\ Tree(mem, own, lvl)
    BY <1>1, <2>2 DEF Held, IsMachine, IsMemory
  <2>7. f \in Frame
    BY <2>1, <2>6 DEF Entry
  <2> QED
    BY <2>1, <2>2, <2>5, <2>6, <2>7 DEF Tree
<1> DEFINE S3 == Children({kernel_pagemap})
           S2 == Children(S3)
           S1 == Children(S2)
<1>3. Of({kernel_pagemap}, 4)
  OBVIOUS
<1>4. 2 \in 2..4 /\ 3 \in 2..4 /\ 4 \in 2..4 /\ 4 - 1 = 3 /\ 3 - 1 = 2 /\ 2 - 1 = 1
  OBVIOUS
<1> HIDE DEF Of
<1>5. Of(S3, 3)
  BY <1>2, <1>3, <1>4
<1>6. Of(S2, 2)
  BY <1>2, <1>4, <1>5
<1>7. Of(S1, 1)
  BY <1>2, <1>4, <1>6
<1>8. KernelTables = {kernel_pagemap} \cup S3 \cup S2 \cup S1
  BY DEF KernelTables
<1> HIDE DEF S3, S2, S1
<1> QED
  BY <1>3, <1>5, <1>6, <1>7, <1>8 DEF Of

\* The inductive invariant: pages have owners, and the tables are theirs.
ExecInv ==
    /\ AlignInv
    /\ ControlInv
    /\ \E own, lvl : SpaceInv(own, lvl)

LEMMA ExecInit ==
    ASSUME Init
    PROVE  ExecInv
<1>1. AlignInv
  BY DEF Init, AlignInv, AllArgs
<1>2. ControlInv
  BY ControlInit
<1> QED
  BY <1>1, <1>2, SpaceInit DEF ExecInv

LEMMA ExecStep ==
    ASSUME ExecInv, [Next]_vars
    PROVE  ExecInv'
<1>1. AlignInv /\ ControlInv /\ AlignInv' /\ ControlInv'
  BY StepAligned, ControlStep DEF ExecInv
<1>2. PICK own, lvl : SpaceInv(own, lvl)
  BY DEF ExecInv
<1>3. PICK own2, lvl2 : SpaceInv(own2, lvl2)'
  BY <1>1, <1>2, SpaceStep DEF Goes
<1> QED
  BY <1>1, <1>3 DEF ExecInv

LEMMA ExecTypes ==
    ASSUME ExecInv
    PROVE  TypeOK
<1>1. PICK own, lvl : SpaceInv(own, lvl)
  BY DEF ExecInv
<1>2. ControlInv /\ IsMachine(Machine)
  BY <1>1 DEF ExecInv, SpaceInv, Held
<1>3. /\ IsMemory(mem) /\ DOMAIN bytes \subseteq BytesOf(Frame) /\ used \subseteq Frame
      /\ cr3 \in Frame \cup {Loader} /\ halt \in HaltReason
  BY <1>2, MachineFieldsAre DEF IsMachine
<1>4. \A f \in Frame, i \in Index : mem[f][i] \in Entry
  BY <1>3 DEF IsMemory
<1>5. /\ kernel_pagemap \in Frame /\ lock \in BOOLEAN /\ running \in Task \cup {Boot}
      /\ user_rsp \in [Task -> Nat]
      /\ \A t \in Task : tasks[t] = NoTask \/ IsTask(tasks[t])
  BY <1>2 DEF ControlInv, TasksOK
<1>6. \A r : IsTask(r) =>
         /\ DOMAIN r = {"state", "sp", "map", "used_pages", "rip", "path", "regions"}
         /\ r.sp \in Frame /\ r.map \in Frame /\ r.rip \in Nat /\ r.used_pages \in Nat
  BY DEF IsTask, TaskFields
<1> QED
  BY <1>3, <1>4, <1>5, <1>6, Zenon DEF TypeOK

\* A process has as many pages as physical pages behind them.
LEMMA AsManyPages ==
    ASSUME NEW D \in SUBSET UserPage, NEW s, s = [v \in D |-> s[v]],
           \A v, w \in D : s[v] = s[w] => v = w
    PROVE  Cardinality(Range(s)) = Cardinality(DOMAIN s)
<1>1. IsFiniteSet(D)
  <2> DEFINE n == (Fan \div 2) * Span[4]
  <2>1. n \in Nat
    BY Spans
  <2> HIDE DEF n
  <2>2. 0 \in Int /\ n - 1 \in Int
    BY <2>1
  <2>3. IsFiniteSet(0..n - 1)
    BY <2>2, FS_Interval
  <2>4. UserPage = 0..n - 1
    BY DEF UserPage, n
  <2> QED
    BY <2>3, <2>4, FS_Subset
<1>2. DOMAIN s = D
  OBVIOUS
<1>3. Range(s) = {s[v] : v \in D}
  BY <1>2 DEF Range
<1>4. s \in [D -> Range(s)]
  BY <1>3
<1>5. s \in Bijection(D, Range(s))
  BY <1>2, <1>3, <1>4 DEF Bijection, Injection, Surjection, IsInjective
<1> QED
  BY <1>1, <1>2, <1>5, FS_Bijection DEF ExistsBijection

\* What belongs to a live process.
LEMMA TaskHas ==
    ASSUME NEW own, NEW lvl, SpaceInv(own, lvl), NEW t \in Task, Alive(t)
    PROVE  /\ \A f \in Tables(tasks[t].map) : f \in Frame /\ own[f] = t /\ lvl[f] # 0
           /\ \A f \in Range(SpaceOf(t)) : f \in Frame /\ own[f] = t /\ lvl[f] = 0
           /\ Cardinality(Range(SpaceOf(t))) = Cardinality(DOMAIN SpaceOf(t))
           /\ Behind(SpaceOf(t), Machine, tasks[t].map, t)
<1> DEFINE map == tasks[t].map
           s == SpaceOf(t)
           D == Mapped(Machine, map, t)
<1>1. Held(Machine, own, lvl) /\ map \in Frame /\ own[map] = t /\ lvl[map] = 4
  BY DEF SpaceInv, Mine, IsSpace
<1>2. \A f \in Tables(map) : f \in Frame /\ own[f] = t /\ lvl[f] # 0
  BY <1>1, TablesOwn
<1>3. Behind(s, Machine, map, t)
  BY <1>1, SpaceOfIs
<1> HIDE DEF s
<1>4. /\ s = [v \in D |-> s[v]] /\ D \subseteq UserPage
      /\ \A v \in D : s[v] \in Frame /\ Reached(Machine, map, v, s[v], t)
  BY <1>3 DEF Behind, Mapped
<1> HIDE DEF D, map
<1>5. \A v \in D : own[s[v]] = t /\ lvl[s[v]] = 0
  BY <1>1, <1>4, ReachedOwn
<1>6. \A v, w \in D : s[v] = s[w] => v = w
  <2> SUFFICES ASSUME NEW v \in D, NEW w \in D, s[v] = s[w]
               PROVE  v = w
    OBVIOUS
  <2>1. v \in UserPage /\ w \in UserPage /\ s[v] \in Frame
        /\ Reached(Machine, map, v, s[v], t) /\ Reached(Machine, map, w, s[v], t)
    BY <1>4
  <2> QED
    BY <1>1, <2>1, ReachedOwn
<1>7. Cardinality(Range(s)) = Cardinality(DOMAIN s)
  BY <1>4, <1>6, AsManyPages
<1>8. DOMAIN s = D
  BY <1>4
<1>9. \A f \in Range(s) : f \in Frame /\ own[f] = t /\ lvl[f] = 0
  BY <1>4, <1>5, <1>8 DEF Range
<1> QED
  BY <1>2, <1>3, <1>7, <1>9 DEF map, s

LEMMA InvApart ==
    ASSUME ExecInv
    PROVE  FramesApart
<1>1. PICK own, lvl : SpaceInv(own, lvl)
  BY DEF ExecInv
<1>2. TypeOK
  BY ExecTypes
<1> DEFINE mine == spaces
           tables == [t \in DOMAIN mine |-> Tables(tasks[t].map)]
<1>3. DOMAIN mine = {u \in Task : Alive(u)} /\ \A t \in DOMAIN mine : mine[t] = SpaceOf(t)
  BY DEF spaces
<1>4. \A t \in DOMAIN mine : tables[t] = Tables(tasks[t].map)
  OBVIOUS
<1> HIDE DEF mine, tables
<1>5. ASSUME NEW t \in DOMAIN mine
      PROVE  /\ t \in Task
             /\ \A f \in tables[t] : f \in Frame /\ own[f] = t /\ lvl[f] # 0
             /\ \A f \in Range(mine[t]) : f \in Frame /\ own[f] = t /\ lvl[f] = 0
             /\ Cardinality(Range(mine[t])) = Cardinality(DOMAIN mine[t])
  BY <1>1, <1>3, <1>4, TaskHas
<1>6. ASSUME NEW t \in DOMAIN mine
      PROVE  \A f \in KernelTables : own[f] = Kern
  <2>1. tasks[t] # NoTask
    BY <1>3 DEF Alive, NoTask
  <2>2. own[kernel_pagemap] = Kern /\ lvl[kernel_pagemap] = 4
    BY <1>1, <1>5, <2>1 DEF SpaceInv, KernelOwns, NoTasks
  <2> QED
    BY <1>1, <2>2, KernelTablesOwn DEF SpaceInv, ExecInv, ControlInv
<1>7. \A f \in Frame : own[f] # Nobody => f \in used
  BY <1>1, MachineFieldsAre DEF SpaceInv, Held
<1>8. ASSUME NEW t \in DOMAIN mine
      PROVE  /\ tables[t] \cup Range(mine[t]) \subseteq used
             /\ (tables[t] \cup Range(mine[t])) \cap KernelTables = {}
             /\ tables[t] \cap Range(mine[t]) = {}
             /\ Cardinality(Range(mine[t])) = Cardinality(DOMAIN mine[t])
             /\ \A u \in DOMAIN mine \ {t} :
                   (tables[t] \cup Range(mine[t]))
                       \cap (tables[u] \cup Range(mine[u])) = {}
  <2>1. t # Nobody /\ t # Kern
    BY <1>5, TaskOwner
  <2>2. tables[t] \cup Range(mine[t]) \subseteq used
    BY <1>5, <1>7, <2>1
  <2>3. (tables[t] \cup Range(mine[t])) \cap KernelTables = {}
    BY <1>5, <1>6, <2>1
  <2>4. tables[t] \cap Range(mine[t]) = {}
    BY <1>5
  <2>5. ASSUME NEW u \in DOMAIN mine \ {t}
        PROVE  (tables[t] \cup Range(mine[t])) \cap (tables[u] \cup Range(mine[u])) = {}
    BY <1>5
  <2> QED
    BY <1>5, <2>2, <2>3, <2>4, <2>5
<1> QED
  BY <1>2, <1>8 DEF FramesApart, mine, tables

\* A physical page is a table of the kernel, a table of one process or memory
\* of one process behind one page, and the bitmap of pmm.c marks it: whatever
\* task_init, elf_load_program, mmap, exit and the switches between them do,
\* with any memory map, programs, arguments and requests.
THEOREM FramesStayApart == Spec => []FramesApart
  <1>1. Spec => []ExecInv
    BY ExecInit, ExecStep, PTL DEF Spec
  <1>2. ExecInv => FramesApart
    BY InvApart
  <1> QED  BY <1>1, <1>2, PTL

-----------------------------------------------------------------------------
(* Exec implements AddressSpaces.                                            *)

\* m holds a page map of t.
HasMap(m, own, lvl, map, t) ==
    Held(m, own, lvl) /\ map \in Frame /\ own[map] = t /\ lvl[map] = 4

LEMMA BehindOwn ==
    ASSUME NEW m, NEW own, NEW lvl, NEW map, NEW t \in Task, HasMap(m, own, lvl, map, t),
           NEW s, Behind(s, m, map, t)
    PROVE  /\ DOMAIN s = Mapped(m, map, t)
           /\ \A v \in DOMAIN s : s[v] \in Frame /\ own[s[v]] = t
           /\ \A v, w \in DOMAIN s : s[v] = s[w] => v = w
           /\ \A v \in DOMAIN s : \A d : Reached(m, map, v, d, t) => s[v] = d
<1>1. /\ Held(m, own, lvl) /\ map \in Frame /\ own[map] = t /\ lvl[map] = 4
  BY DEF HasMap
<1>2. DOMAIN s = Mapped(m, map, t)
  BY DEF Behind
<1>3. \A v \in DOMAIN s : v \in UserPage /\ s[v] \in Frame /\ Reached(m, map, v, s[v], t)
  BY <1>2 DEF Behind, Mapped
<1>4. \A v \in DOMAIN s : own[s[v]] = t
  BY <1>1, <1>3, ReachedOwn
<1>5. ASSUME NEW v \in DOMAIN s, NEW w \in DOMAIN s, s[v] = s[w]
      PROVE  v = w
  <2>1. v \in UserPage /\ w \in UserPage /\ s[v] \in Frame
        /\ Reached(m, map, v, s[v], t) /\ Reached(m, map, w, s[v], t)
    BY <1>3, <1>5
  <2> QED
    BY <1>1, <2>1, ReachedOwn
<1>6. ASSUME NEW v \in DOMAIN s, NEW d, Reached(m, map, v, d, t)
      PROVE  s[v] = d
  <2>1. v \in UserPage /\ s[v] \in Frame /\ Reached(m, map, v, s[v], t)
    BY <1>3
  <2> QED
    BY <1>1, <1>6, <2>1, ReachedOwn
<1> QED
  BY <1>2, <1>3, <1>4, <1>5, <1>6

LEMMA UserHalf ==
    ASSUME NEW t \in Task, NEW v \in UserPage
    PROVE  Half(v, t) /\ \A k \in 1..4 : PML_ENTRY(v, k) \in Index
<1>1. v \in Page /\ PML_ENTRY(v, 4) \in 0..Fan \div 2 - 1
  BY PageHasEntries
<1>2. v \in Nat
  BY <1>1 DEF Page
<1>3. PML_ENTRY(v, 4) < Fan \div 2
  BY <1>1, Spans
<1> QED
  BY <1>1, <1>2, <1>3, EntryIndex DEF Half

\* The same tables lead to the same pages.
LEMMA SameBehind ==
    ASSUME NEW m, NEW own, NEW lvl, NEW m2, NEW own2, NEW lvl2, NEW map, NEW t \in Task,
           HasMap(m, own, lvl, map, t), HasMap(m2, own2, lvl2, map, t),
           \A f \in Frame : own[f] = t => m2.mem[f] = m.mem[f],
           \A f \in Frame : own2[f] = t => m.mem[f] = m2.mem[f],
           NEW s, NEW s2, Behind(s, m, map, t), Behind(s2, m2, map, t)
    PROVE  s2 = s
<1>1. t \in Owner \ {Nobody}
  BY TaskOwner
<1>2. ASSUME NEW v \in UserPage, NEW d
      PROVE  Reached(m, map, v, d, t) <=> Reached(m2, map, v, d, t)
  <2>1. Half(v, t)
    BY UserHalf
  <2>2. Reached(m, map, v, d, t) => Reached(m2, map, v, d, t)
    BY <1>1, <2>1, ReachedSame DEF HasMap
  <2>3. Reached(m2, map, v, d, t) => Reached(m, map, v, d, t)
    BY <1>1, <2>1, ReachedSame DEF HasMap
  <2> QED
    BY <2>2, <2>3
<1>3. Mapped(m, map, t) = Mapped(m2, map, t)
  BY <1>2 DEF Mapped
<1>4. DOMAIN s = Mapped(m, map, t) /\ DOMAIN s2 = Mapped(m2, map, t)
  BY BehindOwn
<1>5. ASSUME NEW v \in DOMAIN s
      PROVE  s[v] = s2[v]
  <2>1. v \in UserPage /\ v \in DOMAIN s2 /\ Reached(m2, map, v, s2[v], t)
    BY <1>3, <1>4 DEF Behind, Mapped
  <2>2. Reached(m, map, v, s2[v], t)
    BY <1>2, <2>1
  <2> QED
    BY <2>2, BehindOwn
<1>6. s = [v \in DOMAIN s |-> s[v]] /\ s2 = [v \in DOMAIN s |-> s2[v]]
  BY <1>3, <1>4 DEF Behind
<1> QED
  BY <1>5, <1>6

\* A step for t leaves the pages of the others alone.
LEMMA OtherSpace ==
    ASSUME NEW m, NEW own, NEW lvl, NEW m2, NEW own2, NEW lvl2, NEW map,
           NEW t \in Task, NEW u \in Task, u # t, Extends(m, own, lvl, m2, own2, lvl2, t),
           HasMap(m, own, lvl, map, u), HasMap(m2, own2, lvl2, map, u),
           NEW s, NEW s2, Behind(s, m, map, u), Behind(s2, m2, map, u)
    PROVE  s2 = s
<1>1. u # Nobody /\ t # Nobody
  BY TaskOwner
<1>2. Kept(own, lvl, own2, lvl2) /\ NewOwned(m, own, own2, t) /\ OthersSame(m.mem, own, m2.mem, t)
  BY DEF Extends
<1>3. \A f \in Frame : own[f] = u => m2.mem[f] = m.mem[f]
  BY <1>1, <1>2 DEF OthersSame
<1>4. \A f \in Frame : own2[f] = u => own[f] = u
  BY <1>1, <1>2 DEF Kept, NewOwned
<1> QED
  BY <1>3, <1>4, SameBehind

\* The way to a page stays.
LEMMA PathStays ==
    ASSUME NEW m, NEW own, NEW lvl, NEW m2, NEW own2, NEW lvl2, NEW map, NEW t \in Task,
           Extends(m, own, lvl, m2, own2, lvl2, t), HasMap(m, own, lvl, map, t),
           NEW v \in UserPage, NEW a3 \in Frame, NEW a2 \in Frame, NEW a1 \in Frame,
           Path(m.mem, map, v, t, a3, a2, a1)
    PROVE  Path(m2.mem, map, v, t, a3, a2, a1) /\ own[a1] = t /\ lvl[a1] = 1
<1> DEFINE i4 == PML_ENTRY(v, 4)
           i3 == PML_ENTRY(v, 3)
           i2 == PML_ENTRY(v, 2)
<1>1. Half(v, t) /\ t \in Owner \ {Nobody} /\ i4 \in Index /\ i3 \in Index /\ i2 \in Index
  BY UserHalf, TaskOwner
<1>2. /\ own[a3] = t /\ lvl[a3] = 3 /\ own[a2] = t /\ lvl[a2] = 2 /\ own[a1] = t /\ lvl[a1] = 1
      /\ own[map] = t /\ lvl[map] = 4 /\ map \in Frame
  BY <1>1, PathLevels DEF HasMap
<1>3. m.mem[map][i4] = Level(a3, t) /\ m.mem[a3][i3] = Level(a2, t) /\ m.mem[a2][i2] = Level(a1, t)
  BY DEF Path
<1> HIDE DEF i4, i3, i2
<1>4. Present(m.mem[map][i4]) /\ Present(m.mem[a3][i3]) /\ Present(m.mem[a2][i2])
  BY <1>3, LevelFields
<1>5. 4 # 1 /\ 3 # 1 /\ 2 # 1
  OBVIOUS
<1>6. /\ m2.mem[map][i4] = m.mem[map][i4] /\ m2.mem[a3][i3] = m.mem[a3][i3]
      /\ m2.mem[a2][i2] = m.mem[a2][i2]
  BY <1>1, <1>2, <1>4, <1>5 DEF Extends, Stays
<1> QED
  BY <1>2, <1>3, <1>6 DEF Path, i4, i3, i2

\* t keeps its pages, and a page that it gets lies where none of its pages lay.
LEMMA OwnSpace ==
    ASSUME NEW m, NEW own, NEW lvl, NEW m2, NEW own2, NEW lvl2, NEW map,
           NEW t \in Task, Extends(m, own, lvl, m2, own2, lvl2, t),
           HasMap(m, own, lvl, map, t), HasMap(m2, own2, lvl2, map, t),
           NEW s, NEW s2, Behind(s, m, map, t), Behind(s2, m2, map, t)
    PROVE  /\ DOMAIN s \subseteq DOMAIN s2
           /\ \A v \in DOMAIN s2, w \in DOMAIN s : s2[v] = s[w] => v = w
<1>1. t # Nobody /\ t # Kern /\ t \in Owner \ {Nobody}
  BY TaskOwner
<1>2. /\ Stays(m.mem, own, lvl, m2.mem, t) /\ Kept(own, lvl, own2, lvl2)
      /\ FreshLeaves(m.mem, own, lvl, m2.mem, own2, lvl2, t, m.used)
  BY DEF Extends
<1>3. DOMAIN s = Mapped(m, map, t) /\ DOMAIN s2 = Mapped(m2, map, t)
  BY BehindOwn
<1>4. /\ Held(m, own, lvl) /\ Held(m2, own2, lvl2) /\ map \in Frame
      /\ own2[map] = t /\ lvl2[map] = 4
  BY DEF HasMap
<1>5. ASSUME NEW v \in DOMAIN s
      PROVE  v \in DOMAIN s2
  <2> DEFINE i1 == PML_ENTRY(v, 1)
  <2>1. v \in UserPage /\ i1 \in Index /\ Reached(m, map, v, s[v], t)
    BY <1>3, UserHalf DEF Behind, Mapped
  <2>2. PICK a3, a2, a1 \in Frame :
            Path(m.mem, map, v, t, a3, a2, a1) /\ m.mem[a1][i1] = Level(s[v], t)
    BY <2>1 DEF Reached
  <2>3. Path(m2.mem, map, v, t, a3, a2, a1) /\ own[a1] = t /\ lvl[a1] = 1
    BY <2>1, <2>2, PathStays
  <2> HIDE DEF i1
  <2>4. Present(m2.mem[a1][i1])
    BY <1>2, <2>1, <2>2, <2>3, LevelFields DEF Stays
  <2>5. own2[a1] = t /\ lvl2[a1] = 1
    BY <1>1, <1>2, <2>3 DEF Kept
  <2>6. lvl2[a1] \in 1..4 /\ lvl2[a1] # 4
    BY <2>5
  <2>7. PICK d \in Frame : m2.mem[a1][i1] = Level(d, t)
    BY <1>4, <2>1, <2>4, <2>5, <2>6, TreeEntry
  <2> QED
    BY <1>3, <2>1, <2>3, <2>7 DEF Mapped, Reached, i1
<1>6. ASSUME NEW v \in DOMAIN s2, NEW w \in DOMAIN s, s2[v] = s[w]
      PROVE  v = w
  <2> DEFINE i == PML_ENTRY(v, 1)
             j == PML_ENTRY(w, 1)
             d == s[w]
  <2>1. /\ v \in UserPage /\ i \in Index /\ Reached(m2, map, v, d, t)
        /\ w \in UserPage /\ j \in Index /\ Reached(m, map, w, d, t)
    <3>1. v \in UserPage /\ Reached(m2, map, v, s2[v], t)
      BY <1>3 DEF Behind, Mapped
    <3>2. w \in UserPage /\ Reached(m, map, w, s[w], t)
      BY <1>3 DEF Behind, Mapped
    <3>3. i \in Index /\ j \in Index
      BY <3>1, <3>2, UserHalf
    <3> QED
      BY <1>6, <3>1, <3>2, <3>3
  <2>2. d \in Frame /\ own[d] = t /\ d \in m.used
    BY <1>1, <1>4, BehindOwn DEF Held
  <2> HIDE DEF d
  <2>3. PICK a3, a2, a1 \in Frame :
            Path(m2.mem, map, v, t, a3, a2, a1) /\ m2.mem[a1][i] = Level(d, t)
    BY <2>1 DEF Reached
  <2>4. PICK b3, b2, b1 \in Frame :
            Path(m.mem, map, w, t, b3, b2, b1) /\ m.mem[b1][j] = Level(d, t)
    BY <2>1 DEF Reached
  <2>5. Path(m2.mem, map, w, t, b3, b2, b1) /\ own[b1] = t /\ lvl[b1] = 1
    BY <2>1, <2>4, PathStays
  <2>6. Half(v, t) /\ Half(w, t)
    BY <2>1, UserHalf
  <2>7. own2[a1] = t /\ lvl2[a1] = 1
    BY <1>1, <1>4, <2>3, <2>6, PathLevels
  <2> HIDE DEF i, j
  <2>8. own[a1] = t /\ lvl[a1] = 1 /\ m.mem[a1][i] = Level(d, t)
    <3>1. Present(m2.mem[a1][i]) /\ m2.mem[a1][i].frame = d
      BY <2>3, LevelFields
    <3> QED
      BY <1>1, <1>2, <2>1, <2>2, <2>3, <2>7, <3>1 DEF FreshLeaves
  <2>9. Edge(m.mem, own, lvl, a1, i) /\ Edge(m.mem, own, lvl, b1, j)
    <3>1. 1 # 0 /\ 1 # 4
      OBVIOUS
    <3>2. Slot(own, lvl, a1, i) /\ Slot(own, lvl, b1, j)
      BY <1>1, <2>5, <2>8, <3>1 DEF Slot
    <3> QED
      BY <2>4, <2>8, <3>2, LevelFields DEF Edge
  <2>10. a1 = b1 /\ i = j
    <3>1. m.mem[a1][i].frame = m.mem[b1][j].frame
      BY <2>4, <2>8
    <3> QED
      BY <1>4, <2>1, <2>9, <3>1 DEF Held, Lone
  <2> QED
    BY <1>1, <1>4, <2>3, <2>5, <2>6, <2>10, PathsApart DEF i, j
<1> QED
  BY <1>5, <1>6

\* Live processes have a page map and the pages below it.
HaveSpaces ==
    \A own, lvl : SpaceInv(own, lvl) => \A t \in Task : Alive(t) =>
        /\ HasMap(Machine, own, lvl, tasks[t].map, t)
        /\ Behind(SpaceOf(t), Machine, tasks[t].map, t)

LEMMA SpacesHad == HaveSpaces
<1> SUFFICES ASSUME NEW own, NEW lvl, SpaceInv(own, lvl), NEW t \in Task, Alive(t)
             PROVE  /\ HasMap(Machine, own, lvl, tasks[t].map, t)
                    /\ Behind(SpaceOf(t), Machine, tasks[t].map, t)
  BY DEF HaveSpaces
<1>1. HasMap(Machine, own, lvl, tasks[t].map, t)
  BY DEF SpaceInv, Mine, IsSpace, HasMap
<1> QED
  BY <1>1, TaskHas

LEMMA SpacesHave == HaveSpaces'
  BY SpacesHad, PTL

\* A step for t creates or extends its address space.
LEMMA GrowSpaces ==
    ASSUME NEW own, NEW lvl, SpaceInv(own, lvl), NEW own2, NEW lvl2, SpaceInv(own2, lvl2)',
           NEW t \in Task, GrowStep(own, lvl, own2, lvl2, t)
    PROVE  [AS!Next]_spaces
<1> DEFINE m == Machine
           p == Machine'
           old == spaces
           new == spaces'
           A == {u \in Task : Alive(u)}
           B == {u \in Task : Alive(u)'}
<1>1. DOMAIN old = A /\ DOMAIN new = B /\ old = [u \in A |-> old[u]] /\ new = [u \in B |-> new[u]]
  BY DEF spaces
<1>2. \A u \in A : /\ HasMap(m, own, lvl, tasks[u].map, u)
                   /\ Behind(old[u], m, tasks[u].map, u)
  <2>1. \A u \in A : old[u] = SpaceOf(u)
    BY DEF spaces
  <2> QED
    BY <2>1, SpacesHad DEF HaveSpaces
<1>3. \A u \in B : /\ HasMap(p, own2, lvl2, tasks'[u].map, u)
                   /\ Behind(new[u], p, tasks'[u].map, u)
  <2>1. \A u \in B : new[u] = SpaceOf(u)'
    BY DEF spaces
  <2> QED
    BY <2>1, SpacesHave DEF HaveSpaces
<1>4. /\ Extends(m, own, lvl, p, own2, lvl2, t)
      /\ \A u \in Task : u # t => (u \in A <=> u \in B) /\ (u \in A => tasks'[u].map = tasks[u].map)
      /\ \/ t \in A /\ t \in B /\ tasks'[t].map = tasks[t].map
         \/ t \notin A /\ \A f \in Frame : own[f] # t
  BY DEF GrowStep, SameSpaces
<1>5. A \subseteq Task /\ B \subseteq Task
  OBVIOUS
<1>6. [AS!Next]_spaces <=>
         \/ \E u \in DOMAIN new : AS!Create(old, new, u) \/ AS!Extend(old, new, u)
         \/ \E u \in DOMAIN old : AS!Drop(old, new, u)
         \/ new = old
  BY Zenon DEF AS!Next
<1> HIDE DEF m, p, old, new, A, B
<1>7. ASSUME NEW u \in A, u # t
      PROVE  new[u] = old[u]
  <2>1. u \in Task /\ u \in B /\ tasks'[u].map = tasks[u].map
    BY <1>4, <1>5, <1>7
  <2>2. /\ HasMap(m, own, lvl, tasks[u].map, u) /\ Behind(old[u], m, tasks[u].map, u)
        /\ HasMap(p, own2, lvl2, tasks[u].map, u) /\ Behind(new[u], p, tasks[u].map, u)
    BY <1>2, <1>3, <2>1
  <2> QED
    BY <1>4, <1>7, <2>1, <2>2, OtherSpace
<1>8. AS!OnlyFor(old, new, t)
  <2>1. A \ {t} = B \ {t}
    BY <1>4, <1>5
  <2> QED
    BY <1>1, <1>7, <2>1 DEF AS!OnlyFor
<1>9. \A u \in A : \A w \in DOMAIN old[u] : old[u][w] \in Frame /\ own[old[u][w]] = u
  BY <1>2, <1>5, BehindOwn
<1>10. t \in B => /\ \A v \in DOMAIN new[t] : new[t][v] \in Frame /\ own2[new[t][v]] = t
                  /\ \A v, w \in DOMAIN new[t] : new[t][v] = new[t][w] => v = w
  BY <1>3, <1>5, BehindOwn
<1>11. ASSUME NEW u \in A, u # t, NEW w \in DOMAIN old[u]
       PROVE  own2[old[u][w]] = u
  <2>1. old[u][w] \in Frame /\ own[old[u][w]] = u /\ u # Nobody
    BY <1>5, <1>9, TaskOwner
  <2> QED
    BY <1>4, <2>1 DEF Extends, Kept
<1>12. CASE t \in A
  <2>1. t \in B /\ tasks'[t].map = tasks[t].map
    BY <1>4, <1>12
  <2>2. /\ HasMap(m, own, lvl, tasks[t].map, t) /\ Behind(old[t], m, tasks[t].map, t)
        /\ HasMap(p, own2, lvl2, tasks[t].map, t) /\ Behind(new[t], p, tasks[t].map, t)
    BY <1>2, <1>3, <1>12, <2>1
  <2>3. /\ DOMAIN old[t] \subseteq DOMAIN new[t]
        /\ \A v \in DOMAIN new[t], w \in DOMAIN old[t] : new[t][v] = old[t][w] => v = w
    BY <1>4, <2>2, OwnSpace
  <2>4. ASSUME NEW v \in AS!Changed(old, new, t)
        PROVE  /\ \A u \in DOMAIN old : new[t][v] \notin AS!Range(old[u])
               /\ \A w \in DOMAIN new[t] : new[t][v] = new[t][w] => v = w
    <3>1. v \in DOMAIN new[t] /\ (v \notin DOMAIN old[t] \/ old[t][v] # new[t][v])
      BY <1>1, <1>12 DEF AS!Changed
    <3>2. ASSUME NEW u \in A, NEW w \in DOMAIN old[u], new[t][v] = old[u][w]
          PROVE  FALSE
      <4>1. own2[new[t][v]] = t
        BY <1>10, <2>1, <3>1
      <4>2. u = t
        BY <1>11, <3>2, <4>1
      <4>3. v = w
        BY <2>3, <3>1, <3>2, <4>2
      <4> QED
        BY <3>1, <3>2, <4>2, <4>3
    <3> QED
      BY <1>1, <1>10, <2>1, <3>1, <3>2 DEF AS!Range
  <2>5. AS!Extend(old, new, t)
    BY <1>1, <1>8, <1>12, <2>3, <2>4 DEF AS!Extend, AS!Fresh
  <2> QED
    BY <1>1, <1>6, <2>1, <2>5
<1>13. CASE t \notin A /\ t \in B
  <2>1. ASSUME NEW v \in AS!Changed(old, new, t)
        PROVE  /\ \A u \in DOMAIN old : new[t][v] \notin AS!Range(old[u])
               /\ \A w \in DOMAIN new[t] : new[t][v] = new[t][w] => v = w
    <3>1. v \in DOMAIN new[t]
      BY DEF AS!Changed
    <3>2. ASSUME NEW u \in A, NEW w \in DOMAIN old[u], new[t][v] = old[u][w]
          PROVE  FALSE
      <4>1. own2[new[t][v]] = t
        BY <1>10, <1>13, <3>1
      <4> QED
        BY <1>11, <1>13, <3>2, <4>1
    <3> QED
      BY <1>1, <1>10, <1>13, <3>1, <3>2 DEF AS!Range
  <2>2. AS!Create(old, new, t)
    BY <1>1, <1>8, <1>13, <2>1 DEF AS!Create, AS!Fresh
  <2> QED
    BY <1>1, <1>6, <1>13, <2>2
<1>14. CASE t \notin A /\ t \notin B
  <2>1. A = B
    BY <1>4, <1>5, <1>14
  <2>2. \A u \in A : new[u] = old[u]
    BY <1>7, <1>14
  <2>3. new = old
    BY <1>1, <2>1, <2>2
  <2> QED
    BY <1>6, <2>3
<1> QED
  BY <1>12, <1>13, <1>14

\* A step that leaves the tables alone drops the address space of t, if any.
LEMMA StillSpacesDrop ==
    ASSUME NEW own, NEW lvl, SpaceInv(own, lvl), NEW own2, NEW lvl2, SpaceInv(own2, lvl2)',
           NEW t \in Task \cup {Nobody}, StillStep(own, lvl, own2, lvl2, t)
    PROVE  [AS!Next]_spaces
<1> DEFINE old == spaces
           new == spaces'
           A == {u \in Task : Alive(u)}
           B == {u \in Task : Alive(u)'}
<1>1. DOMAIN old = A /\ DOMAIN new = B /\ old = [u \in A |-> old[u]] /\ new = [u \in B |-> new[u]]
  BY DEF spaces
<1>2. /\ \A u \in Task : u # t => (u \in A <=> u \in B) /\ (u \in A => tasks'[u].map = tasks[u].map)
      /\ t \notin B
  <2>1. \A u \in Task : u # t => (u \in A <=> u \in B) /\ (u \in A => tasks'[u].map = tasks[u].map)
    BY DEF StillStep, SameSpaces
  <2>2. t \in Task => ~Alive(t)'
    BY DEF StillStep
  <2> QED
    BY <2>1, <2>2
<1>3. ASSUME NEW u \in A, u # t
      PROVE  new[u] = old[u]
  <2>1. old[u] = SpaceOf(u)
    BY DEF spaces
  <2>2. u \in B
    BY <1>2, <1>3
  <2>3. new[u] = SpaceOf(u)'
    BY <2>2 DEF spaces
  <2>4. u \in Task /\ tasks'[u].map = tasks[u].map
    BY <1>2, <1>3
  <2>5. /\ HasMap(Machine, own, lvl, tasks[u].map, u) /\ Behind(old[u], Machine, tasks[u].map, u)
    BY <2>1, <2>4, SpacesHad DEF HaveSpaces
  <2>6. /\ HasMap(Machine', own2, lvl2, tasks[u].map, u)
        /\ Behind(new[u], Machine', tasks[u].map, u)
    BY <2>2, <2>3, <2>4, SpacesHave DEF HaveSpaces
  <2> DEFINE m == Machine
             q == Machine'
             map == tasks[u].map
  <2>7. q.mem = m.mem
    BY DEF StillStep, Machine
  <2> HIDE DEF m, q, map, old, new
  <2>8. /\ \A f \in Frame : own[f] = u => q.mem[f] = m.mem[f]
        /\ \A f \in Frame : own2[f] = u => m.mem[f] = q.mem[f]
    BY <2>7
  <2>9. /\ HasMap(m, own, lvl, map, u) /\ Behind(old[u], m, map, u)
        /\ HasMap(q, own2, lvl2, map, u) /\ Behind(new[u], q, map, u)
    BY <2>5, <2>6 DEF m, q, map
  <2> QED
    BY <2>4, <2>8, <2>9, SameBehind
<1>6. [AS!Next]_spaces <=>
         \/ \E u \in DOMAIN new : AS!Create(old, new, u) \/ AS!Extend(old, new, u)
         \/ \E u \in DOMAIN old : AS!Drop(old, new, u)
         \/ new = old
  BY Zenon DEF AS!Next
<1>7. A \subseteq Task /\ B \subseteq Task
  OBVIOUS
<1> HIDE DEF old, new, A, B
<1>8. CASE t \in A
  <2>1. A \ {t} = B \ {t}
    BY <1>2, <1>7
  <2>2. AS!Drop(old, new, t)
    BY <1>1, <1>2, <1>3, <2>1 DEF AS!Drop, AS!OnlyFor
  <2> QED
    BY <1>1, <1>6, <1>8, <2>2
<1>9. CASE t \notin A
  <2>1. A = B
    BY <1>2, <1>7, <1>9
  <2>2. new = old
    BY <1>1, <1>3, <1>9, <2>1
  <2> QED
    BY <1>6, <2>2
<1> QED
  BY <1>8, <1>9

LEMMA SpacesMove ==
    ASSUME ExecInv, [Next]_vars
    PROVE  [AS!Next]_spaces
<1>1. PICK own, lvl : SpaceInv(own, lvl)
  BY DEF ExecInv
<1>2. PICK own2, lvl2 : SpaceInv(own2, lvl2)' /\ Moved(own, lvl, own2, lvl2)
  BY <1>1, SpaceStep DEF ExecInv, Goes
<1>3. CASE BootStep
  <2>1. {u \in Task : Alive(u)} = {} /\ {u \in Task : Alive(u)'} = {}
    BY <1>3 DEF BootStep
  <2>2. spaces' = spaces
    BY <2>1 DEF spaces
  <2> QED
    BY <2>2
<1> QED
  BY <1>1, <1>2, <1>3, GrowSpaces, StillSpacesDrop DEF Moved

\* Exec implements AddressSpaces: a step gives one process pages on physical
\* pages that nobody had, one each, or creates a process, or takes one away,
\* and leaves the memory of all others where it was.
THEOREM ExecIsAddressSpaces == Spec => IsAddressSpaces
  <1>1. Spec => []ExecInv
    BY ExecInit, ExecStep, PTL DEF Spec
  <1>2. Init => spaces = <<>>
    <2> SUFFICES ASSUME Init
                 PROVE  spaces = <<>>
      OBVIOUS
    <2>1. NoTasks
      BY DEF Init, NoTasks
    <2>2. {u \in Task : Alive(u)} = {}
      BY <2>1, NoneAlive
    <2>3. spaces = [t \in {} |-> SpaceOf(t)]
      BY <2>2 DEF spaces
    <2> QED
      BY <2>3
  <1>3. ExecInv /\ [Next]_vars => [AS!Next]_spaces
    BY SpacesMove
  <1> QED
    BY <1>1, <1>2, <1>3, PTL DEF Spec, IsAddressSpaces, AS!Spec, AS!Init

-----------------------------------------------------------------------------
(* The kernel's half of the address spaces.                                  *)

\* A step after the boot keeps who runs, or resumes t.
Resumed(t) ==
    /\ running' = t /\ cr3' = tasks[t].map
    /\ tasks'[t].map = tasks[t].map /\ tasks'[t].state # "dead"

Remains ==
    /\ running' = running
    /\ running \in Task => tasks'[running].map = tasks[running].map
    /\ running \in Task /\ tasks'[running].state = "dead" =>
          mem' = mem /\ (tasks[running].state = "dead" \/ Alive(running))

Later ==
    /\ job.phase \notin Booting /\ job'.phase \notin Booting
    /\ kernel_pagemap' = kernel_pagemap /\ usable' = usable
    /\ Remains \/ \E t \in Task : Switch(t) /\ Resumed(t)

LEMMA BootedPhases ==
    ASSUME ControlInv
    PROVE  /\ ExecJob => job.phase \notin Booting
           /\ (\E t \in Task : tasks[t] # NoTask) => job.phase \notin Booting
           /\ Started => job.phase \notin Booting
           /\ NoJob.phase \notin Booting
<1>1. NoTask.state = "none" /\ NoJob.phase = "none"
  BY DEF NoTask, NoJob
<1>2. job.phase \in Booting => NoTasks
  BY PhaseJob DEF ControlInv, Booting, VmmJob
<1> QED
  BY <1>1, <1>2 DEF Booting, ExecJob, NoTasks, Started

LEMMA TaskInitLater ==
    ASSUME ControlInv, NEW path, NEW args, NEW pages, TaskInit(path, args, pages),
           job.phase \notin Booting, running \in Task => tasks[running].state = "ready"
    PROVE  Later
<1>1. /\ NextPid < MaxTasks /\ kernel_pagemap' = kernel_pagemap /\ usable' = usable
      /\ running' = running
  BY DEF TaskInit, boot
<1>2. PICK t \in Task : t = NextPid /\ tasks[t] = NoTask
  BY <1>1, NextPidFree
<1>3. job'.phase = "open"
  BY DEF TaskInit
<1>4. running \in Task => tasks'[running] = tasks[running]
  <2>1. \E q : tasks' = IF halt' # "none" THEN tasks ELSE [tasks EXCEPT ![t] = q]
    BY <1>2, Zenon DEF TaskInit
  <2> QED
    BY <1>2, <2>1 DEF ControlInv, TasksOK
<1>5. Remains
  BY <1>1, <1>4 DEF Remains
<1> QED
  BY <1>1, <1>3, <1>5 DEF Later, Booting

\* The steps of an exec.
LEMMA LoadLater ==
    ASSUME ControlInv, Load
    PROVE  Later
<1>1. /\ kernel_pagemap' = kernel_pagemap /\ usable' = usable /\ running' = running
      /\ halt = "none" /\ job.phase \in {"open", "load", "stack", "push"}
  BY DEF Load, OpenFile, LoadSegment, InterpreterHeader, PhdrHeader, OtherHeader, EndLoad,
         FillStack, Push, boot, Header, Phase
<1>2. ExecJob
  BY <1>1, PhaseJob DEF ControlInv
<1>3. job' = NoJob \/ job'.phase \in {"open", "load", "stack", "push"}
  <2>1. job = [x \in JobFields |-> job[x]]
    BY <1>2 DEF ExecJob
  <2>2. CASE OpenFile
    BY <1>1, <2>1, <2>2 DEF OpenFile, JobFields
  <2>3. CASE LoadSegment \/ OtherHeader
    BY <1>1, <2>1, <2>3 DEF LoadSegment, OtherHeader, NextHeader, JobFields
  <2>4. CASE InterpreterHeader
    BY <1>1, <2>1, <2>4 DEF InterpreterHeader, NextHeader, JobFields
  <2>5. CASE PhdrHeader
    <3> DEFINE v == job.base * PageSize + Program.headers[job.header].va
    <3>1. job' = [NextHeader EXCEPT !.at_phdr = v]
      BY <2>5 DEF PhdrHeader
    <3> HIDE DEF v
    <3> QED
      BY <1>1, <2>1, <3>1 DEF NextHeader, JobFields
  <2>6. CASE EndLoad
    BY <1>1, <2>1, <2>6 DEF EndLoad, JobFields
  <2>7. CASE FillStack
    BY <1>1, <2>1, <2>7 DEF FillStack, JobFields
  <2>8. CASE Push
    BY <2>8 DEF Push
  <2> QED
    BY <2>2, <2>3, <2>4, <2>5, <2>6, <2>7, <2>8 DEF Load
<1>4. PICK t \in Task : t = job.new /\ running # t
  BY <1>2 DEF ExecJob
<1>5. running \in Task => tasks'[running] = tasks[running] /\ tasks[running].state = "ready"
  <2>1. tasks' = tasks \/ (\E q : tasks' = [tasks EXCEPT ![t] = q])
    BY <1>4, Zenon DEF Load, OpenFile, LoadSegment, InterpreterHeader, PhdrHeader, OtherHeader,
       EndLoad, FillStack, Push
  <2> QED
    BY <1>2, <1>4, <2>1 DEF ControlInv, TasksOK, ExecJob
<1>6. Remains
  BY <1>1, <1>5 DEF Remains
<1> QED
  BY <1>1, <1>2, <1>3, <1>6, BootedPhases DEF Later, Booting

\* The system calls of a process.
LEMMA CallLater ==
    ASSUME ControlInv, NEW t \in Task,
           \/ \E virt, fixed : \E n \in Nat : Mmap(t, virt, n, fixed)
           \/ CallUnfinished(t)
           \/ \E freed : SysExit(t, freed)
    PROVE  Later
<1>1. InUser(t) /\ kernel_pagemap' = kernel_pagemap /\ usable' = usable /\ running' = running
      /\ job' = job
  BY Zenon DEF Mmap, CallUnfinished, SysExit, boot
<1>2. /\ IsTask(tasks[t]) /\ tasks[t] # NoTask /\ tasks[t].state = "ready"
      /\ job = NoJob /\ running = t
  BY <1>1, UserTask
<1>3. Alive(t)
  BY <1>2 DEF Alive
<1>4. tasks'[t].map = tasks[t].map /\ (tasks'[t].state = "dead" => mem' = mem)
  <2>1. ASSUME NEW virt, NEW fixed, NEW n \in Nat, Mmap(t, virt, n, fixed)
        PROVE  tasks'[t].map = tasks[t].map /\ tasks'[t].state = "ready"
    BY <2>1, MmapTask
  <2>2. CASE CallUnfinished(t)
    <3>1. tasks' = [tasks EXCEPT ![t].state = "lost"] /\ mem' = mem
      BY <2>2 DEF CallUnfinished, machine
    <3> QED
      BY <1>2, <3>1 DEF ControlInv, TasksOK, IsTask, TaskFields
  <2>3. ASSUME NEW freed, SysExit(t, freed)
        PROVE  tasks'[t].map = tasks[t].map /\ mem' = mem
    <3>1. tasks' = [tasks EXCEPT ![t].state = "dead"] /\ mem' = mem
      BY <2>3 DEF SysExit
    <3> QED
      BY <1>2, <3>1 DEF ControlInv, TasksOK, IsTask, TaskFields
  <2> QED
    BY <2>1, <2>2, <2>3
<1>5. Remains
  BY <1>1, <1>2, <1>3, <1>4 DEF Remains
<1> QED
  BY <1>1, <1>2, <1>5, BootedPhases DEF Later

LEMMA SwitchLater ==
    ASSUME ControlInv, NEW t \in Task, Switch(t)
    PROVE  Later /\ Resumed(t)
<1>1. /\ kernel_pagemap' = kernel_pagemap /\ usable' = usable /\ running' = t
      /\ job' = NoJob /\ Started /\ cr3' = tasks[t].map /\ t # running
      /\ tasks[t].state \in {"ready", "lost"}
  BY DEF Switch, boot, OnList
<1>2. tasks'[t] = tasks[t]
  BY <1>1 DEF Switch, ControlInv, TasksOK
<1>3. Resumed(t)
  BY <1>1, <1>2 DEF Resumed
<1> QED
  BY <1>1, <1>3, BootedPhases DEF Later

\* The steps of the boot, and the others.
LEMMA LaterStep ==
    ASSUME ControlInv, [Next]_vars
    PROVE  \/ NewKernelPagemap \/ MapWindows \/ NextWindow \/ LoadPagemap \/ UNCHANGED vars
           \/ Later
<1>1. ASSUME NEW pages \in JunkPages, FirstProcess(pages)
      PROVE  Later
  <2>1. TaskInit(InitPath, InitArgs, pages) /\ job.phase = "init"
    BY <1>1 DEF FirstProcess, Phase
  <2>2. running = Boot
    BY <2>1, PhaseJob DEF ControlInv, NoTasks
  <2> QED
    BY <2>1, <2>2, BootAssumption, TaskInitLater DEF Booting
<1>2. ASSUME NEW pages \in JunkPages, NEW c \in Calls, SysExecve(c.path, c.args, pages)
      PROVE  Later
  <2>1. PICK t \in Task : TaskInit(c.path, c.args, pages) /\ InUser(t)
    BY <1>2 DEF SysExecve
  <2>2. running = t /\ tasks[t].state = "ready" /\ tasks[t] # NoTask
    BY <2>1, UserTask
  <2>3. job.phase \notin Booting
    BY <2>2, BootedPhases
  <2> QED
    BY <2>1, <2>2, <2>3, TaskInitLater
<1>3. CASE Load
  BY <1>3, LoadLater
<1>4. ASSUME NEW t \in Task, NEW size \in Sizes,
             SysMmap(t, size) \/ \E hint \in Hints : SysMmapFixed(t, hint, size)
      PROVE  Later
  BY <1>4, RegionSize, CallLater DEF SysMmap, SysMmapFixed
<1>5. ASSUME NEW t \in Task, CallUnfinished(t) \/ (\E freed : SysExit(t, freed)) \/ Switch(t)
      PROVE  Later
  BY <1>5, CallLater, SwitchLater
<1>6. CASE SwitchToDead \/ NoProcess \/ MmapAstray
  <2>1. /\ kernel_pagemap' = kernel_pagemap /\ usable' = usable /\ running' = running
        /\ job' = job /\ Started /\ tasks' = tasks /\ mem' = mem
    <3>1. MmapAstray => Started
      BY DEF MmapAstray, InUser, Started
    <3> QED
      BY <1>6, <3>1 DEF SwitchToDead, NoProcess, MmapAstray, boot
  <2>2. Remains
    BY <2>1 DEF Remains
  <2> QED
    BY <2>1, <2>2, BootedPhases DEF Later
<1> QED
  BY <1>1, <1>2, <1>3, <1>4, <1>5, <1>6, Zenon DEF Next, Idle

\* The pages of the windows.
LEMMA WindowSize ==
    ASSUME usable \in Memories, NEW k \in 1..Windows
    PROVE  /\ WindowPages(k) \in Nat /\ WindowPages(k) <= Top /\ WindowBase(k) \in Nat
           /\ \A f \in 0..WindowPages(k) - 1 : f \in Frame
           /\ Windows \in Nat
<1>1. Len(usable) \in Nat /\ Top \in Nat /\ Windows \in Nat
  BY MemoriesAssumption, SizesAssumption DEF Windows
<1>2. WindowPages(k) \in Nat /\ WindowPages(k) <= Top
  <2>1. CASE k \in {1, 2}
    BY <2>1, MemoriesAssumption, LayoutAssumption DEF WindowPages
  <2>2. CASE k \notin {1, 2}
    <3>1. k - 2 \in 1..Len(usable)
      BY <1>1, <2>2 DEF Windows
    <3> QED
      BY <2>2, <3>1, MemoriesAssumption DEF WindowPages
  <2> QED
    BY <2>1, <2>2
<1>3. WindowBase(k) \in Nat
  BY SizesAssumption DEF WindowBase
<1> QED
  BY <1>1, <1>2, <1>3 DEF Frame

LEMMA WindowPage ==
    ASSUME usable \in Memories, NEW k \in 1..Windows, NEW f \in 0..WindowPages(k) - 1
    PROVE  /\ WindowBase(k) + f \in Page
           /\ (Fan \div 2) * Span[4] <= WindowBase(k) + f
           /\ \A j \in 1..Windows : \A g \in 0..WindowPages(j) - 1 :
                 WindowBase(j) + g = WindowBase(k) + f => g = f
<1> DEFINE h == (Fan \div 2) * Span[4]
           w == Fan * Span[4]
<1>1. h \in Nat /\ w \in Nat
  BY Spans
<1>2. /\ h <= IoBase /\ IoBase + Top <= KernelBase /\ KernelBase + KernelPages <= w
      /\ IoBase \in Nat /\ KernelBase \in Nat /\ Top \in Nat /\ KernelPages \in Nat
  BY WindowsAssumption, SizesAssumption, LayoutAssumption
<1> HIDE DEF h, w
<1>3. ASSUME NEW j \in 1..Windows, NEW g \in 0..WindowPages(j) - 1
      PROVE  /\ g \in Nat /\ g < Top /\ h <= WindowBase(j) + g /\ WindowBase(j) + g < w
             /\ (WindowBase(j) = KernelBase /\ g < KernelPages) \/ WindowBase(j) = IoBase
  <2>1. WindowPages(j) \in Nat /\ WindowPages(j) <= Top
    BY WindowSize
  <2>2. g \in Nat /\ g < Top
    BY <1>2, <2>1
  <2>3. CASE j = 1
    <3>1. WindowBase(j) = KernelBase /\ WindowPages(j) = KernelPages
      BY <2>3 DEF WindowBase, WindowPages
    <3> QED
      BY <1>1, <1>2, <2>2, <3>1
  <2>4. CASE j # 1
    <3>1. WindowBase(j) = IoBase
      BY <2>4 DEF WindowBase
    <3> QED
      BY <1>1, <1>2, <2>2, <3>1
  <2> QED
    BY <2>3, <2>4
<1>4. WindowBase(k) + f \in 0..w - 1
  BY <1>1, <1>2, <1>3
<1>5. ASSUME NEW j \in 1..Windows, NEW g \in 0..WindowPages(j) - 1,
             WindowBase(j) + g = WindowBase(k) + f
      PROVE  g = f
  <2>1. /\ g \in Nat /\ g < Top /\ f \in Nat /\ f < Top
        /\ WindowBase(j) = KernelBase \/ WindowBase(j) = IoBase
        /\ WindowBase(k) = KernelBase \/ WindowBase(k) = IoBase
    BY <1>3
  <2> QED
    BY <1>2, <1>5, <2>1
<1> QED
  BY <1>3, <1>4, <1>5 DEF Page, h, w

\* The pages that vmm_initialize has mapped, up to page n of window w.
Windowed(w, n) ==
    \A k \in 1..Windows : \A f \in 0..WindowPages(k) - 1 :
        (k < w \/ (k = w /\ f < n)) =>
            Reached(Machine, kernel_pagemap, WindowBase(k) + f, f, Kern)

WindowInv ==
    halt = "none" =>
        /\ job.phase = "vmm" => Windowed(job.window, job.next)
        /\ job.phase \notin Booting => Windowed(Windows + 1, 0)

LEMMA ReachedMemory ==
    ASSUME NEW m, NEW m2, m2.mem = m.mem, NEW map, NEW v, NEW d, NEW t, Reached(m, map, v, d, t)
    PROVE  Reached(m2, map, v, d, t)
  BY DEF Reached

\* The machine goes on only if it has not stopped.
LEMMA Runs ==
    ASSUME [Next]_vars, halt' = "none"
    PROVE  halt = "none"
  BY DEF Next, vars, machine, NewKernelPagemap, MapWindows, NextWindow, LoadPagemap, Phase,
     FirstProcess, SysExecve, InUser, Load, OpenFile, LoadSegment, InterpreterHeader,
     PhdrHeader, OtherHeader, EndLoad, FillStack, Push, Header, SysMmap, SysMmapFixed, Mmap,
     CallUnfinished, SysExit, Switch, SwitchToDead, NoProcess, MmapAstray, Idle

\* vmm_initialize maps one page more, at the same place in every window.
LEMMA MapWindowed ==
    ASSUME ControlInv, NEW own, NEW lvl, SpaceInv(own, lvl), WindowInv, MapWindows, halt' = "none"
    PROVE  WindowInv'
<1> DEFINE m == Machine
           w == job.window
           n == job.next
           map == kernel_pagemap
           page == WindowBase(w) + n
           m2 == vmm_map(m, map, n, page, KernelFlags)
<1>1. /\ VmmJob /\ halt = "none" /\ Becomes(m2) /\ kernel_pagemap' = map /\ usable' = usable
      /\ job.phase = "vmm" /\ w <= Windows /\ n < WindowPages(w)
      /\ job' = [job EXCEPT !.next = @ + 1]
  BY PhaseJob DEF MapWindows, Phase, boot, ControlInv
<1>2. /\ w \in Nat \ {0} /\ n \in Nat /\ usable \in Memories /\ map \in Frame
  BY <1>1 DEF VmmJob, ControlInv
<1>3. job'.phase = "vmm" /\ job'.window = w /\ job'.next = n + 1
  BY <1>1 DEF VmmJob
<1>4. w \in 1..Windows /\ n \in 0..WindowPages(w) - 1
  <2>1. Windows \in Nat
    BY <1>2, MemoriesAssumption DEF Windows
  <2>2. w \in 1..Windows
    BY <1>1, <1>2, <2>1
  <2> QED
    BY <1>1, <1>2, <2>2, WindowSize
<1>5. page \in Page /\ n \in Frame /\ page \in Nat
  <2>1. page \in Page
    BY <1>2, <1>4, WindowPage
  <2> QED
    BY <1>2, <1>4, <2>1, WindowSize DEF Page
<1>6. own[map] = Kern /\ lvl[map] = 4 /\ Held(m, own, lvl)
  BY <1>1, KernelReady DEF SpaceInv
<1>7. Kern \in Owner \ {Nobody} /\ Rights(Kern) = KernelFlags
  BY DEF Owner, Kern, Nobody, Rights
<1>8. halt' = m2.halt /\ mem' = m2.mem
  BY <1>1 DEF Becomes
<1> HIDE DEF m, page, map, n, w
<1>9. MayMap(m, own, lvl, map, n, page, Kern, m.used)
  BY <1>2, <1>5, <1>6 DEF MayMap
<1>10. PICK own2, lvl2 : /\ Grew(m, own, lvl, m2, own2, lvl2, Kern, m.used)
                         /\ m2.halt = "none" => MapsTo(m, own, lvl, m2, map, page, n, Kern)
  BY <1>2, <1>5, <1>6, <1>7, <1>9, MapGrew
<1> HIDE DEF m2
<1>11. MapsTo(m, own, lvl, m2, map, page, n, Kern)
  BY <1>8, <1>10
<1>12. Reached(m2, map, page, n, Kern)
  BY <1>11 DEF MapsTo, Reached
<1>13. Machine'.mem = m2.mem
  BY <1>8, NextMachineFieldsAre
<1>14. ASSUME NEW k \in 1..Windows, NEW f \in 0..WindowPages(k) - 1,
              k < w \/ (k = w /\ f < n + 1)
       PROVE  Reached(Machine', map, WindowBase(k) + f, f, Kern)
  <2> DEFINE q == WindowBase(k) + f
  <2>1. q \in Page
    BY <1>2, WindowPage
  <2>2. CASE q = page
    <3>1. f = n
      BY <1>2, <1>4, <2>2, WindowPage DEF page
    <3>2. Reached(m2, map, q, f, Kern)
      BY <1>12, <2>2, <3>1
    <3> QED
      BY <1>13, <3>2, ReachedMemory
  <2>3. CASE q # page
    <3>1. k < w \/ (k = w /\ f < n)
      <4>1. f \in Int /\ n \in Nat
        BY <1>2
      <4>2. k = w => f # n
        BY <2>3 DEF page
      <4> QED
        BY <1>14, <4>1, <4>2
    <3>2. Reached(m, map, q, f, Kern)
      BY <1>1, <3>1 DEF WindowInv, Windowed, m, map, w, n
    <3>3. Half(q, Kern) /\ Half(page, Kern)
      BY <1>5, <2>1 DEF Half
    <3> HIDE DEF q
    <3>4. Reached(m2, map, q, f, Kern)
      BY <1>2, <1>6, <1>7, <1>10, <1>11, <2>3, <3>2, <3>3, ReachedKept
    <3> QED
      BY <1>13, <3>4, ReachedMemory DEF q
  <2> QED
    BY <2>2, <2>3
<1>15. Windows' = Windows /\ \A k : WindowPages(k)' = WindowPages(k) /\ WindowBase(k)' = WindowBase(k)
  BY <1>1 DEF Windows, WindowPages, WindowBase
<1>16. Windowed(job.window, job.next)'
  BY <1>1, <1>3, <1>14, <1>15 DEF Windowed, map
<1> QED
  BY <1>3, <1>16 DEF WindowInv, Booting

\* The kernel's tables stay, once it runs processes.
LEMMA LaterWindowed ==
    ASSUME ControlInv, NEW own, NEW lvl, SpaceInv(own, lvl), WindowInv, Later, halt = "none",
           NEW own2, NEW lvl2, Moved(own, lvl, own2, lvl2)
    PROVE  WindowInv'
<1> DEFINE m == Machine
           p == Machine'
           map == kernel_pagemap
<1>1. /\ job.phase \notin Booting /\ job'.phase \notin Booting
      /\ kernel_pagemap' = map /\ usable' = usable
  BY DEF Later
<1>2. own[map] = Kern /\ lvl[map] = 4 /\ Held(m, own, lvl) /\ map \in Frame
  BY <1>1, KernelReady DEF SpaceInv, ControlInv, Booting
<1>3. Kern \in Owner \ {Nobody} /\ Kern \notin Task /\ Kern # Nobody
  BY TaskOwner DEF Owner, Kern, Nobody, Task
<1>4. \A f \in Frame : own[f] = Kern => p.mem[f] = m.mem[f]
  <2>1. ASSUME NEW t \in Task, GrowStep(own, lvl, own2, lvl2, t)
        PROVE  \A f \in Frame : own[f] = Kern => p.mem[f] = m.mem[f]
    <3>1. OthersSame(m.mem, own, p.mem, t)
      BY <2>1 DEF GrowStep, Extends
    <3> QED
      BY <1>3, <3>1 DEF OthersSame
  <2>2. ASSUME NEW t, StillStep(own, lvl, own2, lvl2, t)
        PROVE  p.mem = m.mem
    BY <2>2 DEF StillStep, Machine
  <2>3. ~BootStep
    BY <1>1 DEF BootStep
  <2> QED
    BY <2>1, <2>2, <2>3 DEF Moved
<1> HIDE DEF m, p, map
<1>5. \A q \in Page : \A d : Reached(m, map, q, d, Kern) => Reached(p, map, q, d, Kern)
  <2>1. \A q \in Page : Half(q, Kern)
    BY DEF Half
  <2> QED
    BY <1>2, <1>3, <1>4, <2>1, ReachedSame
<1>6. Windows' = Windows /\ \A k : WindowPages(k)' = WindowPages(k) /\ WindowBase(k)' = WindowBase(k)
  BY <1>1 DEF Windows, WindowPages, WindowBase
<1>7. Windowed(Windows + 1, 0)
  BY <1>1 DEF WindowInv
<1>8. usable \in Memories
  BY DEF ControlInv
<1>9. ASSUME NEW k \in 1..Windows, NEW f \in 0..WindowPages(k) - 1
      PROVE  Reached(p, map, WindowBase(k) + f, f, Kern)
  <2>1. k < Windows + 1
    BY <1>8, WindowSize
  <2>2. Reached(m, map, WindowBase(k) + f, f, Kern)
    BY <1>7, <2>1 DEF Windowed, m, map
  <2>3. WindowBase(k) + f \in Page
    BY <1>8, WindowPage
  <2> QED
    BY <1>5, <2>2, <2>3
<1>10. Windowed(Windows + 1, 0)'
  BY <1>1, <1>6, <1>9 DEF Windowed, p, map
<1> QED
  BY <1>1, <1>10 DEF WindowInv, Booting

\* Steps that leave the memory alone.
LEMMA StillWindowed ==
    ASSUME mem' = mem, usable' = usable, kernel_pagemap' = kernel_pagemap,
           NEW w, NEW n, NEW w2, NEW n2, Windowed(w, n),
           \A k \in 1..Windows : \A f \in 0..WindowPages(k) - 1 :
              (k < w2 \/ (k = w2 /\ f < n2)) => (k < w \/ (k = w /\ f < n))
    PROVE  Windowed(w2, n2)'
<1>1. Windows' = Windows /\ \A k : WindowPages(k)' = WindowPages(k) /\ WindowBase(k)' = WindowBase(k)
  BY DEF Windows, WindowPages, WindowBase
<1>2. Machine'.mem = Machine.mem
  BY MachineFieldsAre, NextMachineFieldsAre
<1> DEFINE m == Machine
           p == Machine'
<1> HIDE DEF m, p
<1>3. \A q, d : Reached(m, kernel_pagemap, q, d, Kern) => Reached(p, kernel_pagemap, q, d, Kern)
  BY <1>2, ReachedMemory DEF m, p
<1> QED
  BY <1>1, <1>3 DEF Windowed, m, p

LEMMA WindowInit ==
    ASSUME Init
    PROVE  WindowInv
  BY DEF Init, WindowInv, Booting

LEMMA WindowStep ==
    ASSUME ExecInv, WindowInv, [Next]_vars
    PROVE  WindowInv'
<1>1. PICK own, lvl : SpaceInv(own, lvl)
  BY DEF ExecInv
<1>2. ControlInv /\ AlignInv /\ usable \in Memories
  BY DEF ExecInv, ControlInv
<1> SUFFICES ASSUME halt' = "none"
             PROVE  WindowInv'
  BY DEF WindowInv
<1>3. halt = "none"
  BY Runs
<1>4. CASE NewKernelPagemap
  <2>1. job' = [phase |-> "vmm", window |-> 1, next |-> 0]
    BY <1>4 DEF NewKernelPagemap
  <2>2. Windowed(1, 0)'
    BY DEF Windowed
  <2> QED
    BY <2>1, <2>2 DEF WindowInv, Booting
<1>5. CASE MapWindows
  BY <1>1, <1>2, <1>5, MapWindowed
<1>6. CASE NextWindow
  <2>1. /\ VmmJob /\ job.phase = "vmm" /\ job.window <= Windows /\ job.next >= WindowPages(job.window)
        /\ job' = [phase |-> "vmm", window |-> job.window + 1, next |-> 0]
        /\ mem' = mem /\ usable' = usable /\ kernel_pagemap' = kernel_pagemap
    BY <1>2, <1>6, PhaseJob DEF NextWindow, Phase, machine, boot, ControlInv
  <2>2. job.window \in Nat /\ job.next \in Nat
    BY <2>1 DEF VmmJob
  <2>3. Windowed(job.window, job.next)
    BY <1>3, <2>1 DEF WindowInv
  <2>0. PICK w, n : w = job.window /\ n = job.next
    OBVIOUS
  <2>4. ASSUME NEW k \in 1..Windows, NEW f \in 0..WindowPages(k) - 1,
               k < w + 1 \/ (k = w + 1 /\ f < 0)
        PROVE  k < w \/ (k = w /\ f < n)
    <3>1. WindowPages(k) \in Nat
      BY <1>2, WindowSize
    <3> QED
      BY <2>0, <2>1, <2>2, <2>4, <3>1
  <2>5. Windowed(w + 1, 0)'
    <3> DEFINE v == w + 1
    <3>1. Windowed(w, n)
      BY <2>0, <2>3
    <3> HIDE DEF v
    <3>2. Windowed(v, 0)'
      BY <2>1, <2>4, <3>1, StillWindowed DEF v
    <3> QED
      BY <3>2 DEF v
  <2>6. job'.window = w + 1 /\ job'.next = 0 /\ job'.phase = "vmm"
    BY <2>0, <2>1
  <2> QED
    BY <2>5, <2>6 DEF WindowInv, Booting
<1>7. CASE LoadPagemap
  <2>1. /\ VmmJob /\ job.phase = "vmm" /\ job.window > Windows /\ job' = [phase |-> "init"]
        /\ mem' = mem /\ usable' = usable /\ kernel_pagemap' = kernel_pagemap
    BY <1>2, <1>7, PhaseJob DEF LoadPagemap, Phase, boot, ControlInv
  <2>2. job.window \in Nat /\ Windows \in Nat
    BY <1>2, <2>1, MemoriesAssumption DEF VmmJob, Windows
  <2>3. Windowed(job.window, job.next)
    BY <1>3, <2>1 DEF WindowInv
  <2>4. \A k \in 1..Windows : k < job.window
    BY <2>1, <2>2
  <2>5. Windowed(Windows + 1, 0)'
    <3>1. Windows' = Windows
      BY <2>1 DEF Windows
    <3> DEFINE w == Windows + 1
    <3> HIDE DEF w
    <3>2. Windowed(w, 0)'
      BY <2>1, <2>3, <2>4, StillWindowed
    <3> QED
      BY <3>1, <3>2 DEF Windowed, w
  <2>6. job'.phase = "init"
    BY <2>1
  <2> QED
    BY <2>5, <2>6 DEF WindowInv, Booting
<1>8. CASE UNCHANGED vars
  BY <1>8 DEF vars, machine, boot, WindowInv, Windowed, Windows, WindowPages, Machine
<1>9. CASE Later
  <2>1. PICK own2, lvl2 : Moved(own, lvl, own2, lvl2)
    BY <1>1, <1>2, SpaceStep DEF Goes
  <2> QED
    BY <1>1, <1>2, <1>3, <1>9, <2>1, LaterWindowed
<1> QED
  BY <1>2, <1>4, <1>5, <1>6, <1>7, <1>8, <1>9, LaterStep

\* The CPU walks the kernel's page map, or that of the process that runs; the
\* page map of a process that exits keeps the kernel's half.
CrInv ==
    /\ job.phase \in Booting => cr3 = Loader
    /\ halt = "none" =>
          /\ running = Boot => cr3 \in {Loader, kernel_pagemap}
          /\ running \in Task => cr3 = tasks[running].map
          /\ running \in Task /\ tasks[running].state = "dead" =>
                SameHalf(mem, cr3, kernel_pagemap)

LEMMA LaterCr ==
    ASSUME ControlInv, NEW own, NEW lvl, SpaceInv(own, lvl), CrInv, Later, halt = "none",
           NEW own2, NEW lvl2, Moved(own, lvl, own2, lvl2)
    PROVE  CrInv'
<1>1. /\ job.phase \notin Booting /\ job'.phase \notin Booting
      /\ kernel_pagemap' = kernel_pagemap
  BY DEF Later
<1>2. CASE \E t \in Task : Switch(t) /\ Resumed(t)
  <2>1. PICK t \in Task : Resumed(t)
    BY <1>2
  <2>2. running' = t /\ t # Boot /\ cr3' = tasks'[t].map /\ tasks'[t].state # "dead"
    BY <2>1, BootAssumption DEF Resumed
  <2> QED
    BY <1>1, <2>2 DEF CrInv
<1>3. CASE Remains /\ ~\E t \in Task : Switch(t)
  <2>1. /\ running' = running
        /\ running \in Task => tasks'[running].map = tasks[running].map
        /\ running \in Task /\ tasks'[running].state = "dead" =>
              mem' = mem /\ (tasks[running].state = "dead" \/ Alive(running))
    BY <1>3 DEF Remains
  <2>2. cr3' = cr3
    <3>1. ~LoadPagemap
      BY <1>1 DEF LoadPagemap, Phase, Booting
    <3>2. ~BootStep
      BY <1>1 DEF BootStep
    <3>3. ASSUME NEW t, GrowStep(own, lvl, own2, lvl2, t)
          PROVE  cr3' = cr3
      BY <3>3, MachineFieldsAre, NextMachineFieldsAre DEF GrowStep, Extends
    <3>4. ASSUME NEW t, StillStep(own, lvl, own2, lvl2, t)
          PROVE  cr3' = cr3
      BY <1>3, <3>1, <3>4 DEF StillStep, Loads
    <3> QED
      BY <3>2, <3>3, <3>4 DEF Moved
  <2>3. ASSUME running \in Task, tasks'[running].state = "dead"
        PROVE  SameHalf(mem', cr3', kernel_pagemap')
    <3>1. mem' = mem /\ cr3 = tasks[running].map
      BY <2>1, <2>3 DEF CrInv
    <3>2. CASE tasks[running].state = "dead"
      BY <1>1, <2>2, <2>3, <3>1, <3>2 DEF CrInv
    <3>3. CASE Alive(running)
      <4>1. SameHalf(Machine.mem, tasks[running].map, kernel_pagemap)
        BY <2>3, <3>3 DEF SpaceInv, Mine, IsSpace
      <4> QED
        BY <1>1, <2>2, <3>1, <4>1, MachineFieldsAre
    <3> QED
      BY <2>1, <2>3, <3>2, <3>3
  <2> QED
    BY <1>1, <2>1, <2>2, <2>3 DEF CrInv
<1> QED
  BY <1>2, <1>3, SwitchLater DEF Later

LEMMA CrStep ==
    ASSUME ExecInv, CrInv, [Next]_vars
    PROVE  CrInv'
<1>1. PICK own, lvl : SpaceInv(own, lvl)
  BY DEF ExecInv
<1>2. ControlInv /\ AlignInv
  BY DEF ExecInv
<1>3. PICK own2, lvl2 : Moved(own, lvl, own2, lvl2)
  BY <1>1, <1>2, SpaceStep DEF Goes
<1>4. CASE NewKernelPagemap \/ MapWindows \/ NextWindow \/ LoadPagemap
  <2>1. job.phase \in Booting /\ running' = running
    BY <1>4 DEF NewKernelPagemap, MapWindows, NextWindow, LoadPagemap, Phase, Booting
  <2>2. NoTasks
    BY <1>2, <2>1, PhaseJob DEF ControlInv, Booting, VmmJob
  <2>3. running' = Boot /\ running' \notin Task /\ cr3 = Loader
    BY <2>1, <2>2, BootAssumption DEF NoTasks, CrInv
  <2>4. CASE LoadPagemap
    BY <2>3, <2>4 DEF CrInv, LoadPagemap, boot, Booting
  <2>5. CASE NextWindow
    BY <2>3, <2>5 DEF CrInv, NextWindow, machine, Booting
  <2>6. CASE NewKernelPagemap \/ MapWindows
    <3>1. cr3' = cr3
      <4>1. ASSUME NEW t, GrowStep(own, lvl, own2, lvl2, t)
            PROVE  cr3' = cr3
        BY <4>1, MachineFieldsAre, NextMachineFieldsAre DEF GrowStep, Extends
      <4>2. ~Started
        <5>1. NoTask.state = "none"
          BY DEF NoTask
        <5> QED
          BY <2>2, <5>1 DEF NoTasks, Started
      <4>3. ~LoadPagemap
        <5>1. NewKernelPagemap => job.phase = "boot"
          BY DEF NewKernelPagemap, Phase
        <5>2. LoadPagemap => job.phase = "vmm" /\ job.window > Windows
          BY DEF LoadPagemap, Phase
        <5>3. MapWindows => job.window <= Windows /\ job.phase = "vmm"
          BY DEF MapWindows, Phase
        <5>4. job.phase = "vmm" => job.window \in Nat /\ Windows \in Nat
          BY <1>2, PhaseJob, MemoriesAssumption DEF ControlInv, VmmJob, Windows
        <5> QED
          BY <2>6, <5>1, <5>2, <5>3, <5>4
      <4>4. ASSUME NEW t, StillStep(own, lvl, own2, lvl2, t)
            PROVE  cr3' = cr3
        BY <4>2, <4>3, <4>4 DEF StillStep, Loads, Switch
      <4> QED
        BY <1>3, <4>1, <4>4 DEF Moved, BootStep
    <3> QED
      BY <2>3, <3>1 DEF CrInv
  <2> QED
    BY <1>4, <2>4, <2>5, <2>6
<1>5. CASE UNCHANGED vars
  BY <1>5 DEF CrInv, vars, machine, boot
<1>6. CASE Later /\ halt = "none"
  BY <1>1, <1>2, <1>3, <1>6, LaterCr
<1>7. CASE Later /\ halt # "none"
  <2>1. halt' # "none"
    BY <1>7, Runs
  <2> QED
    BY <1>7, <2>1 DEF CrInv, Later
<1> QED
  BY <1>2, <1>4, <1>5, <1>6, <1>7, LaterStep

\* Pages above the user half have entries above it.
LEMMA UpperEntry ==
    ASSUME NEW v \in Page, (Fan \div 2) * Span[4] <= v
    PROVE  PML_ENTRY(v, 4) >= Fan \div 2 /\ \A k \in 1..4 : PML_ENTRY(v, k) \in Index
<1> DEFINE s == Span[4]
           h == Fan \div 2
           x == v \div s
<1>1. s \in Nat \ {0} /\ h \in Nat /\ h < Fan /\ Fan \in Nat
  BY Spans
<1>2. v \in 0..Fan * s - 1 /\ h * s <= v
  BY DEF Page
<1> HIDE DEF s, h
<1>3. h * s \in Nat /\ s * h = h * s /\ Fan * s \in Nat /\ s * Fan = Fan * s
  BY <1>1, SMT
<1>4. v \in Nat /\ v < s * Fan /\ s * h <= v
  <2> DEFINE fs == Fan * s
  <2> HIDE DEF fs
  <2>1. v \in 0..fs - 1 /\ fs \in Nat
    BY <1>2, <1>3 DEF fs
  <2>2. v \in Nat /\ v < fs
    BY <2>1
  <2> QED
    BY <1>2, <1>3, <2>2 DEF fs
<1>5. x \in Nat /\ v % s \in 0..s - 1 /\ s * x \in Nat /\ v = s * x + (v % s)
  BY <1>1, <1>4, Division
<1> HIDE DEF x
<1>6. ~(x + 1 <= h)
  <2>1. SUFFICES ASSUME x + 1 <= h PROVE FALSE
    OBVIOUS
  <2>2. x + 1 \in Nat
    BY <1>5
  <2>3. s * (x + 1) <= s * h
    BY <1>1, <2>1, <2>2, TimesMonotone
  <2>4. s * (x + 1) = s * x + s
    BY <1>1, <1>5, SMT
  <2> DEFINE sh == s * h
             sx == s * x
             r == v % s
  <2>5. sx + s <= sh /\ sh <= v /\ v = sx + r /\ r \in 0..s - 1 /\ sx \in Nat /\ sh \in Nat
    BY <1>3, <1>4, <1>5, <2>3, <2>4
  <2> HIDE DEF sh, sx, r
  <2> QED
    BY <1>1, <1>4, <2>5
<1>7. ~(Fan <= x)
  <2>1. SUFFICES ASSUME Fan <= x PROVE FALSE
    OBVIOUS
  <2>2. s * Fan <= s * x
    BY <1>1, <1>5, <2>1, TimesMonotone
  <2> DEFINE sf == s * Fan
             sx == s * x
             r == v % s
  <2>3. sf <= sx /\ v < sf /\ sx \in Nat /\ sf \in Nat /\ v = sx + r /\ r \in 0..s - 1
    BY <1>3, <1>4, <1>5, <2>2
  <2> HIDE DEF sf, sx, r
  <2> QED
    BY <1>1, <1>4, <2>3
<1>8. x % Fan = x
  BY <1>1, <1>5, <1>7, SMT
<1>9. PML_ENTRY(v, 4) = x
  BY <1>8 DEF PML_ENTRY, s, x
<1> QED
  BY <1>1, <1>4, <1>5, <1>6, <1>9, EntryIndex DEF h

\* What the CPU finds at a page that the tables of t lead to.
LEMMA WalkReached ==
    ASSUME NEW t \in Owner, NEW map, NEW v, NEW d, Reached(Machine, map, v, d, t)
    PROVE  Walk(mem, map, v) = Level(d, t)
<1> DEFINE i4 == PML_ENTRY(v, 4)
           i3 == PML_ENTRY(v, 3)
           i2 == PML_ENTRY(v, 2)
           i1 == PML_ENTRY(v, 1)
           L(c) == Level(c, t)
<1>1. Machine.mem = mem
  BY MachineFieldsAre
<1>2. PICK a3, a2, a1 \in Frame : Path(Machine.mem, map, v, t, a3, a2, a1)
                                  /\ Machine.mem[a1][PML_ENTRY(v, 1)] = Level(d, t)
  BY DEF Reached
<1>3. /\ mem[map][i4] = L(a3) /\ mem[a3][i3] = L(a2)
      /\ mem[a2][i2] = L(a1) /\ mem[a1][i1] = L(d)
  BY <1>1, <1>2 DEF Path
<1>4. \A c : L(c).frame = c /\ L(c).flags = Rights(t) /\ L(c) = [frame |-> c, flags |-> Rights(t)]
  BY DEF Level
<1>5. Rights(t) \in {KernelFlags, UserFlags} /\ KernelFlags = 3 /\ UserFlags = 7
  BY DEF Rights, KernelFlags, UserFlags
<1> HIDE DEF L, i4, i3, i2, i1
<1>6. \A c : Present(L(c)) /\ Present([frame |-> c, flags |-> UserFlags])
  BY <1>4, <1>5 DEF Present
<1>7. \A b, c : /\ Below(L(b), L(c)) = L(c)
                /\ Below([frame |-> b, flags |-> UserFlags], L(c)) = L(c)
  <2> SUFFICES ASSUME NEW b, NEW c
               PROVE  /\ Below(L(b), L(c)) = L(c)
                      /\ Below([frame |-> b, flags |-> UserFlags], L(c)) = L(c)
    OBVIOUS
  <2>1. Below(L(b), L(c)) = [frame |-> c, flags |-> Rights(t)]
    BY <1>4, <1>5 DEF Below
  <2>2. Below([frame |-> b, flags |-> UserFlags], L(c)) = [frame |-> c, flags |-> Rights(t)]
    BY <1>4, <1>5 DEF Below
  <2> QED
    BY <1>4, <2>1, <2>2
<1>8. \A b, c, i : mem[b][i] = L(c) =>
         /\ Lookup(mem, L(b), i) = L(c)
         /\ Lookup(mem, [frame |-> b, flags |-> UserFlags], i) = L(c)
  BY <1>4, <1>6, <1>7 DEF Lookup
<1>9. Level3(mem, map, v) = L(a3)
  BY <1>3, <1>8 DEF Level3, i4
<1>10. Lookup(mem, L(a3), i3) = L(a2) /\ Lookup(mem, L(a2), i2) = L(a1)
       /\ Lookup(mem, L(a1), i1) = L(d)
  BY <1>3, <1>8
<1>11. Walk(mem, map, v) = L(d)
  BY <1>9, <1>10, Zenon DEF Walk, i3, i2, i1
<1> QED
  BY <1>11 DEF L

\* What the CPU finds in the kernel's half of any page map.
LEMMA WalkUpper ==
    ASSUME NEW map, NEW kern, SameHalf(mem, map, kern), NEW v \in Page,
           (Fan \div 2) * Span[4] <= v, NEW d, Reached(Machine, kern, v, d, Kern)
    PROVE  Walk(mem, map, v) = [frame |-> d, flags |-> KernelFlags]
<1>1. Machine.mem = mem
  BY MachineFieldsAre
<1>2. PML_ENTRY(v, 4) \in Index /\ PML_ENTRY(v, 4) >= Fan \div 2
  BY UpperEntry
<1>3. PICK a3, a2, a1 \in Frame : Path(Machine.mem, kern, v, Kern, a3, a2, a1)
                                  /\ Machine.mem[a1][PML_ENTRY(v, 1)] = Level(d, Kern)
  BY DEF Reached
<1>4. mem[map][PML_ENTRY(v, 4)] = mem[kern][PML_ENTRY(v, 4)]
  BY <1>2 DEF SameHalf
<1>5. Path(Machine.mem, map, v, Kern, a3, a2, a1)
  BY <1>1, <1>3, <1>4 DEF Path
<1>6. Reached(Machine, map, v, d, Kern)
  BY <1>3, <1>5 DEF Reached
<1>7. Kern \in Owner /\ Level(d, Kern) = [frame |-> d, flags |-> KernelFlags]
  BY DEF Owner, Level, Rights
<1> QED
  BY <1>6, <1>7, WalkReached

\* The largest of the windows at IoBase is one of them.
LEMMA IoWindowIs ==
    ASSUME usable \in Memories
    PROVE  IoWindow = IoPages \/ \E i \in 1..Len(usable) : IoWindow = usable[i].length
<1> DEFINE S == {IoPages} \cup {e.length : e \in Range(usable)}
           T == {Top - x : x \in S}
<1>1. Range(usable) = {usable[i] : i \in 1..Len(usable)}
  BY MemoriesAssumption DEF Range
<1>2. \A x \in S : x \in Nat /\ x <= Top
  BY <1>1, MemoriesAssumption, LayoutAssumption
<1>3. \A x \in S : x = IoPages \/ \E i \in 1..Len(usable) : x = usable[i].length
  BY <1>1
<1>4. Top \in Nat /\ S # {}
  BY SizesAssumption
<1> HIDE DEF S
<1>5. T \in SUBSET Nat /\ T # {}
  BY <1>2, <1>4
<1>6. PICK n \in T : \A k \in T : n <= k
  BY <1>5, LeastNumber
<1>7. PICK x \in S : n = Top - x
  OBVIOUS
<1>8. \A y \in S : x >= y
  <2> SUFFICES ASSUME NEW y \in S PROVE x >= y
    OBVIOUS
  <2>1. Top - y \in T
    OBVIOUS
  <2>2. Top - x <= Top - y
    BY <1>6, <1>7, <2>1
  <2> QED
    BY <1>2, <1>4, <2>2
<1>9. Max(S) \in S
  BY <1>8 DEF Max
<1>10. IoWindow = Max(S)
  BY DEF IoWindow, S
<1> QED
  BY <1>3, <1>9, <1>10

LEMMA InvShared ==
    ASSUME ExecInv, WindowInv, CrInv
    PROVE  KernelShared
<1> SUFFICES ASSUME Booted, halt = "none",
                    NEW map \in {cr3} \cup {tasks[t].map : t \in {u \in Task : Alive(u)}}
             PROVE  /\ \A f \in 0..IoWindow - 1 :
                         Walk(mem, map, IoBase + f) = [frame |-> f, flags |-> KernelFlags]
                    /\ \A f \in 0..KernelPages - 1 :
                         Walk(mem, map, KernelBase + f) = [frame |-> f, flags |-> KernelFlags]
  BY DEF KernelShared
<1>1. PICK own, lvl : SpaceInv(own, lvl)
  BY DEF ExecInv
<1>2. ControlInv /\ usable \in Memories
  BY DEF ExecInv, ControlInv
<1>3. \A t \in Task : Alive(t) => SameHalf(mem, tasks[t].map, kernel_pagemap)
  BY <1>1, MachineFieldsAre DEF SpaceInv, Mine, IsSpace
<1>4. SameHalf(mem, cr3, kernel_pagemap)
  <2>1. CASE running = Boot
    BY <2>1 DEF CrInv, Booted, SameHalf
  <2>2. CASE running \in Task /\ tasks[running].state = "dead"
    BY <2>2 DEF CrInv
  <2>3. CASE running \in Task /\ tasks[running].state # "dead"
    <3>1. tasks[running].state \in TaskState
      BY <1>2, <2>3 DEF ControlInv, TasksOK, IsTask
    <3>2. Alive(running)
      BY <2>3, <3>1 DEF Alive, TaskState
    <3> QED
      BY <1>3, <2>3, <3>2 DEF CrInv
  <2> QED
    BY <1>2, <2>1, <2>2, <2>3 DEF ControlInv
<1>5. SameHalf(mem, map, kernel_pagemap)
  BY <1>3, <1>4
<1>6. Windowed(Windows + 1, 0)
  BY DEF CrInv, Booted, WindowInv
<1>7. ASSUME NEW k \in 1..Windows, NEW f \in 0..WindowPages(k) - 1
      PROVE  Walk(mem, map, WindowBase(k) + f) = [frame |-> f, flags |-> KernelFlags]
  <2>1. k < Windows + 1
    BY <1>2, WindowSize
  <2>2. Reached(Machine, kernel_pagemap, WindowBase(k) + f, f, Kern)
    BY <1>6, <2>1 DEF Windowed
  <2>3. WindowBase(k) + f \in Page /\ (Fan \div 2) * Span[4] <= WindowBase(k) + f
    BY <1>2, WindowPage
  <2> QED
    BY <1>5, <2>2, <2>3, WalkUpper
<1>8. Len(usable) \in Nat
  BY <1>2, MemoriesAssumption
<1>9. ASSUME NEW f \in 0..KernelPages - 1
      PROVE  Walk(mem, map, KernelBase + f) = [frame |-> f, flags |-> KernelFlags]
  <2>1. 1 \in 1..Windows /\ WindowPages(1) = KernelPages /\ WindowBase(1) = KernelBase
    BY <1>8 DEF Windows, WindowPages, WindowBase
  <2> QED
    BY <1>7, <2>1
<1>10. ASSUME NEW f \in 0..IoWindow - 1
       PROVE  Walk(mem, map, IoBase + f) = [frame |-> f, flags |-> KernelFlags]
  <2>1. \E k \in 1..Windows : WindowPages(k) = IoWindow /\ WindowBase(k) = IoBase
    <3>1. CASE IoWindow = IoPages
      <4>1. 2 \in 1..Windows /\ WindowPages(2) = IoPages /\ WindowBase(2) = IoBase
        BY <1>8 DEF Windows, WindowPages, WindowBase
      <4> QED
        BY <3>1, <4>1
    <3>2. ASSUME NEW i \in 1..Len(usable), IoWindow = usable[i].length
          PROVE  \E k \in 1..Windows : WindowPages(k) = IoWindow /\ WindowBase(k) = IoBase
      <4>1. i + 2 \in 1..Windows /\ i + 2 # 1 /\ i + 2 # 2 /\ (i + 2) - 2 = i
        BY <1>8 DEF Windows
      <4>2. WindowPages(i + 2) = usable[i].length /\ WindowBase(i + 2) = IoBase
        BY <4>1 DEF WindowPages, WindowBase
      <4> QED
        BY <3>2, <4>1, <4>2
    <3> QED
      BY <1>2, <3>1, <3>2, IoWindowIs
  <2> QED
    BY <1>7, <2>1
<1> QED
  BY <1>9, <1>10

\* Under every page map that the CPU walks, or walks once its process runs,
\* the kernel finds each physical page of its two windows where it computes
\* it, with the kernel's rights, however many processes it created and
\* whichever of them exited.
THEOREM KernelStaysShared == Spec => []KernelShared
  <1>1. Init => CrInv
    BY BootAssumption DEF Init, CrInv, Booting
  <1>2. ExecInv /\ WindowInv /\ CrInv /\ [Next]_vars => ExecInv' /\ WindowInv' /\ CrInv'
    BY ExecStep, WindowStep, CrStep
  <1>3. ExecInv /\ WindowInv /\ CrInv => KernelShared
    BY InvShared
  <1> QED  BY <1>1, <1>2, <1>3, ExecInit, WindowInit, PTL DEF Spec

-----------------------------------------------------------------------------
(* The regions that mmap returned.                                           *)

Region == [page : Nat, pages : Nat, fixed : BOOLEAN]

\* The regions lie in the user half; those that the kernel chose lie one above
\* the other and below limit.
Arranged(rs, limit) ==
    /\ rs \in Seq(Region)
    /\ \A i \in 1..Len(rs) :
          /\ RegionPages(rs[i]) \subseteq UserPage
          /\ ~rs[i].fixed => rs[i].page + rs[i].pages <= limit
    /\ \A i, j \in 1..Len(rs) :
          i < j /\ ~rs[i].fixed /\ ~rs[j].fixed => rs[i].page + rs[i].pages <= rs[j].page

\* A process that is being built has no regions.
RegionsOf(r) ==
    /\ Arranged(r.regions, r.used_pages + AllocBase)
    /\ r.state = "building" => r.regions = <<>>

\* The pages of the regions lead to pages of zeroes.
Clean(u) ==
    \A i \in 1..Len(tasks[u].regions) : \A v \in RegionPages(tasks[u].regions[i]) :
        CleanAt(Machine, tasks[u].map, v, u)

RegionInv ==
    /\ \A u \in Task : tasks[u] # NoTask => RegionsOf(tasks[u])
    /\ halt = "none" => \A u \in Task : Alive(u) => Clean(u)

\* The step leaves the regions of u alone, or u is new.
RegionsKept(u) ==
    \/ tasks'[u] = tasks[u]
    \/ tasks'[u].regions = <<>> /\ tasks'[u].used_pages \in Nat
    \/ /\ tasks[u] # NoTask
       /\ tasks'[u].regions = tasks[u].regions /\ tasks'[u].used_pages = tasks[u].used_pages
       /\ tasks'[u].state = "building" => tasks[u].state = "building"

LEMMA TaskInitRegions ==
    ASSUME ControlInv, NEW path, NEW args, NEW pages \in JunkPages, TaskInit(path, args, pages)
    PROVE  \A u \in Task : RegionsKept(u)
<1>1. NextPid < MaxTasks
  BY DEF TaskInit
<1>2. PICK t \in Task : t = NextPid
  BY <1>1, NextPidFree
<1>3. \E sp, map : tasks' = IF halt' # "none" THEN tasks
                            ELSE [tasks EXCEPT ![t] = NewTask(sp, map, pages, path)]
  BY <1>2, Zenon DEF TaskInit
<1>4. \A sp, map : NewTask(sp, map, pages, path).regions = <<>>
                   /\ NewTask(sp, map, pages, path).used_pages \in Nat
  BY LayoutAssumption DEF NewTask
<1> QED
  BY <1>3, <1>4 DEF ControlInv, TasksOK, RegionsKept

\* The record of one task changes, but for its regions.
LEMMA RecordRegions ==
    ASSUME ControlInv, NEW t \in Task, tasks[t] # NoTask,
           \/ \E s \in {"ready", "lost", "dead"} : tasks' = [tasks EXCEPT ![t].state = s]
           \/ \E rip : tasks' = [tasks EXCEPT ![t].rip = rip]
    PROVE  \A u \in Task : RegionsKept(u)
<1>1. IsTask(tasks[t])
  BY DEF ControlInv, TasksOK
<1>2. \A u \in Task : u # t => tasks'[u] = tasks[u]
  BY DEF ControlInv, TasksOK
<1>3. ASSUME NEW s \in {"ready", "lost", "dead"}, tasks' = [tasks EXCEPT ![t].state = s]
      PROVE  RegionsKept(t)
  <2>1. tasks'[t] = [tasks[t] EXCEPT !.state = s]
    BY <1>3 DEF ControlInv, TasksOK
  <2> QED
    BY <1>1, <2>1 DEF IsTask, TaskFields, RegionsKept
<1>4. ASSUME NEW rip, tasks' = [tasks EXCEPT ![t].rip = rip]
      PROVE  RegionsKept(t)
  <2>1. tasks'[t] = [tasks[t] EXCEPT !.rip = rip]
    BY <1>4 DEF ControlInv, TasksOK
  <2> QED
    BY <1>1, <2>1 DEF IsTask, TaskFields, RegionsKept
<1> QED
  BY <1>2, <1>3, <1>4 DEF RegionsKept

\* Only mmap changes the regions of a process.
LEMMA RegionsStep ==
    ASSUME ControlInv, [Next]_vars
    PROVE  Mapping \/ \A u \in Task : RegionsKept(u)
<1>1. ASSUME NEW pages \in JunkPages,
             FirstProcess(pages) \/ \E c \in Calls : SysExecve(c.path, c.args, pages)
      PROVE  \A u \in Task : RegionsKept(u)
  BY <1>1, TaskInitRegions DEF FirstProcess, SysExecve
<1>2. CASE tasks' = tasks
  BY <1>2 DEF RegionsKept
<1>3. CASE EndLoad \/ Push
  <2>1. halt = "none" /\ job.phase \in {"load", "push"}
    BY <1>3 DEF EndLoad, Push, Phase
  <2>2. ExecJob
    BY <2>1, PhaseJob DEF ControlInv
  <2>3. PICK t \in Task : t = job.new /\ tasks[t] # NoTask
    BY <2>1, <2>2 DEF ExecJob
  <2>4. \/ tasks' = [tasks EXCEPT ![t].state = "ready"]
        \/ \E rip : tasks' = [tasks EXCEPT ![t].rip = rip]
    BY <1>3, <2>3, Zenon DEF EndLoad, Push
  <2> QED
    BY <2>3, <2>4, RecordRegions
<1>4. CASE Load
  <2>1. EndLoad \/ Push \/ tasks' = tasks
    BY <1>4 DEF Load, OpenFile, LoadSegment, InterpreterHeader, PhdrHeader, OtherHeader, FillStack
  <2> QED
    BY <1>2, <1>3, <2>1
<1>5. ASSUME NEW t \in Task, NEW size \in Sizes,
             SysMmap(t, size) \/ \E hint \in Hints : SysMmapFixed(t, hint, size)
      PROVE  Mapping
  BY <1>5, MmapCall, Zenon DEF Mapping
<1>6. ASSUME NEW t \in Task, CallUnfinished(t) \/ \E freed : SysExit(t, freed)
      PROVE  \A u \in Task : RegionsKept(u)
  <2>1. InUser(t) /\ \E s \in {"lost", "dead"} : tasks' = [tasks EXCEPT ![t].state = s]
    BY <1>6, Zenon DEF CallUnfinished, SysExit
  <2>2. tasks[t] # NoTask
    BY <2>1, UserTask
  <2> QED
    BY <2>1, <2>2, RecordRegions
<1>7. ASSUME NEW t \in Task, Switch(t)
      PROVE  \A u \in Task : RegionsKept(u)
  <2>1. CASE job = NoJob
    <3>1. tasks' = tasks
      BY <1>7, <2>1 DEF Switch
    <3> QED
      BY <3>1 DEF RegionsKept
  <2>2. CASE job # NoJob
    <3>1. tasks' = [tasks EXCEPT ![running].state = "lost"]
      BY <1>7, <2>2 DEF Switch
    <3>2. CASE running \in Task
      <4>1. PICK u \in Task : u = running /\ tasks[u] # NoTask
        BY <3>2 DEF ControlInv
      <4> QED
        BY <3>1, <4>1, RecordRegions
    <3>3. CASE running \notin Task
      <4>1. \A u \in Task : tasks'[u] = tasks[u]
        BY <3>1, <3>3 DEF ControlInv, TasksOK
      <4> QED
        BY <4>1 DEF RegionsKept
    <3> QED
      BY <3>2, <3>3
  <2> QED
    BY <2>1, <2>2
<1>8. CASE NewKernelPagemap \/ MapWindows \/ NextWindow \/ LoadPagemap \/ SwitchToDead \/ NoProcess
           \/ MmapAstray
           \/ Idle \/ UNCHANGED vars
  BY <1>2, <1>8 DEF NewKernelPagemap, MapWindows, NextWindow, LoadPagemap, SwitchToDead, NoProcess, MmapAstray,
     Idle, vars
<1> QED
  BY <1>1, <1>4, <1>5, <1>6, <1>7, <1>8, Zenon DEF Next

\* A step for t leaves the pages of zeroes of the others alone.
LEMMA CleanKept ==
    ASSUME NEW m, NEW own, NEW lvl, NEW m2, NEW own2, NEW lvl2, NEW map,
           NEW t \in Task, NEW u \in Task, u # t, Extends(m, own, lvl, m2, own2, lvl2, t),
           HasMap(m, own, lvl, map, u), NEW v \in UserPage, CleanAt(m, map, v, u)
    PROVE  CleanAt(m2, map, v, u)
<1>1. u \in Owner \ {Nobody} /\ u # Nobody /\ Half(v, u)
  BY TaskOwner, UserHalf
<1>2. PICK d \in Frame : Reached(m, map, v, d, u) /\ BytesOf({d}) \cap DOMAIN m.bytes = {}
  BY DEF CleanAt
<1>3. Held(m, own, lvl) /\ map \in Frame /\ own[map] = u /\ lvl[map] = 4
  BY DEF HasMap
<1>4. own[d] = u
  BY <1>2, <1>3, ReachedOwn
<1>5. /\ Kept(own, lvl, own2, lvl2) /\ OthersSame(m.mem, own, m2.mem, t)
      /\ BytesFor(m, m2, own2, t)
  BY DEF Extends
<1>6. \A f \in Frame : own[f] = u => m2.mem[f] = m.mem[f]
  BY <1>1, <1>5 DEF OthersSame
<1>7. Reached(m2, map, v, d, u)
  BY <1>1, <1>2, <1>3, <1>6, ReachedSame
<1>8. own2[d] = u
  BY <1>1, <1>4, <1>5 DEF Kept
<1> DEFINE T == {f \in Frame : own2[f] = t}
<1>9. {d} \in SUBSET Nat /\ T \in SUBSET Nat /\ {d} \cap T = {}
  BY <1>8 DEF Frame
<1>10. DOMAIN m2.bytes \subseteq DOMAIN m.bytes \cup BytesOf(T)
  BY <1>5 DEF BytesFor
<1> HIDE DEF T
<1>11. BytesOf({d}) \cap BytesOf(T) = {}
  BY <1>9, BytesApart
<1>12. BytesOf({d}) \cap DOMAIN m2.bytes = {}
  BY <1>2, <1>10, <1>11
<1> QED
  BY <1>7, <1>12 DEF CleanAt

\* Only the memory counts.
LEMMA CleanMemory ==
    ASSUME NEW m, NEW m2, m2.mem = m.mem, m2.bytes = m.bytes, NEW map, NEW v, NEW t,
           CleanAt(m, map, v, t)
    PROVE  CleanAt(m2, map, v, t)
  BY ReachedMemory DEF CleanAt

\* One region more.
LEMMA ArrangedAppend ==
    ASSUME NEW rs, NEW limit \in Nat, Arranged(rs, limit), NEW virt \in Nat, NEW n \in Nat,
           NEW fixed \in BOOLEAN, fixed \/ virt = limit, InUserHalf(virt, n)
    PROVE  Arranged(Append(rs, [page |-> virt, pages |-> n, fixed |-> fixed]),
                    limit + (IF fixed THEN 0 ELSE n))
<1> DEFINE r == [page |-> virt, pages |-> n, fixed |-> fixed]
           qs == Append(rs, r)
           limit2 == limit + (IF fixed THEN 0 ELSE n)
<1>1. r \in Region /\ r.page = virt /\ r.pages = n /\ r.fixed = fixed
  BY DEF Region
<1>2. RegionPages(r) \subseteq UserPage
  <2> SUFFICES ASSUME NEW v \in RegionPages(r)
               PROVE  v \in UserPage
    OBVIOUS
  <2>1. v - virt \in 0..n - 1 /\ virt + (v - virt) = v
    BY <1>1 DEF RegionPages
  <2>2. 0 \in Task
    BY NaturalSizes DEF Task
  <2> QED
    BY <2>1, <2>2, RegionHalf
<1> HIDE DEF r
<1>3. rs \in Seq(Region) /\ Len(rs) \in Nat
  BY DEF Arranged
<1>4. qs \in Seq(Region) /\ Len(qs) = Len(rs) + 1 /\ qs[Len(rs) + 1] = r
      /\ \A i \in 1..Len(rs) : qs[i] = rs[i]
  BY <1>1, <1>3
<1>5. \A i \in 1..Len(rs) : rs[i].page \in Nat /\ rs[i].pages \in Nat
  <2>1. \A i \in 1..Len(rs) : rs[i] \in Region
    BY <1>3
  <2> QED
    BY <2>1 DEF Region
<1>6. limit2 \in Nat /\ limit <= limit2 /\ (~fixed => virt = limit /\ limit2 = virt + n)
  OBVIOUS
<1> HIDE DEF qs, limit2
<1>7. ASSUME NEW i \in 1..Len(qs)
      PROVE  /\ RegionPages(qs[i]) \subseteq UserPage
             /\ ~qs[i].fixed => qs[i].page + qs[i].pages <= limit2
  <2>1. CASE i = Len(rs) + 1
    BY <1>1, <1>2, <1>4, <1>6, <2>1
  <2>2. CASE i \in 1..Len(rs)
    <3>1. qs[i] = rs[i] /\ RegionPages(rs[i]) \subseteq UserPage
          /\ (~rs[i].fixed => rs[i].page + rs[i].pages <= limit)
      BY <1>4, <2>2 DEF Arranged
    <3> QED
      BY <1>5, <1>6, <2>2, <3>1
  <2> QED
    BY <1>3, <1>4, <2>1, <2>2
<1>8. ASSUME NEW i \in 1..Len(qs), NEW j \in 1..Len(qs), i < j, ~qs[i].fixed, ~qs[j].fixed
      PROVE  qs[i].page + qs[i].pages <= qs[j].page
  <2>1. i \in 1..Len(rs) /\ qs[i] = rs[i]
    BY <1>3, <1>4, <1>8
  <2>2. CASE j = Len(rs) + 1
    <3>1. qs[j].page = limit
      BY <1>1, <1>4, <1>6, <1>8, <2>2
    <3> QED
      BY <1>8, <2>1, <3>1 DEF Arranged
  <2>3. CASE j \in 1..Len(rs)
    <3>1. qs[j] = rs[j]
      BY <1>4, <2>3
    <3> QED
      BY <1>8, <2>1, <2>3, <3>1 DEF Arranged
  <2> QED
    BY <1>3, <1>4, <2>2, <2>3
<1>9. Arranged(qs, limit2)
  BY <1>4, <1>7, <1>8 DEF Arranged
<1> QED
  BY <1>9 DEF qs, limit2, r

\* mmap gives a process pages of zeroes, above the regions it chose before.
LEMMA MmapRegions ==
    ASSUME ControlInv, NEW own, NEW lvl, SpaceInv(own, lvl), RegionInv, NEW t \in Task,
           NEW virt \in Nat, NEW n \in Nat, NEW fixed \in BOOLEAN, MmapOf(t, virt, n, fixed)
    PROVE  RegionInv'
<1> DEFINE m == Machine
           p == Machine'
           map == tasks[t].map
           m2 == MapRegion(t, virt, n)
           r == [page |-> virt, pages |-> n, fixed |-> fixed]
<1>1. Mmap(t, virt, n, fixed) /\ (fixed \/ virt = tasks[t].used_pages + AllocBase)
  BY DEF MmapOf
<1>2. InUser(t) /\ Becomes(m2) /\ InUserHalf(virt, n)
  BY <1>1 DEF Mmap
<1>3. /\ IsTask(tasks[t]) /\ tasks[t] # NoTask /\ tasks[t].state = "ready" /\ halt = "none"
      /\ Alive(t) /\ m.halt = "none"
  BY <1>2, UserTask, MachineFieldsAre DEF Alive
<1>4. \A u \in Task : Alive(u) => HasMap(m, own, lvl, tasks[u].map, u)
  BY DEF SpaceInv, Mine, IsSpace, HasMap
<1>5. map \in Frame /\ own[map] = t /\ lvl[map] = 4 /\ Held(m, own, lvl)
  BY <1>3, <1>4 DEF HasMap
<1>6. \A j \in 0..n - 1 : Half(virt + j, t)
  BY <1>2, RegionHalf
<1>7. PICK f : RegionLoop(f, m, map, virt, n) /\ m2 = f[n]
  BY RegionLast
<1>8. /\ tasks'[t].state = "ready" /\ tasks'[t].map = map
      /\ tasks'[t].used_pages = UsedPages(t, n, fixed)
      /\ tasks'[t].regions = Append(tasks[t].regions, r)
      /\ \A u \in Task : u # t => tasks'[u] = tasks[u]
  BY <1>1, MmapTask
<1>9. \A u \in Task : tasks[u] # NoTask => RegionsOf(tasks[u])
  BY DEF RegionInv
<1>10. RegionsOf(tasks'[t])
  <2> DEFINE limit == tasks[t].used_pages + AllocBase
  <2>1. limit \in Nat /\ Arranged(tasks[t].regions, limit)
    BY <1>3, <1>9, NaturalSizes DEF IsTask, RegionsOf
  <2>2. tasks'[t].used_pages + AllocBase = limit + (IF fixed THEN 0 ELSE n)
    BY <1>3, <1>8, NaturalSizes DEF UsedPages, IsTask
  <2>3. fixed \/ virt = limit
    BY <1>1
  <2> HIDE DEF limit
  <2>4. Arranged(tasks'[t].regions, tasks'[t].used_pages + AllocBase)
    BY <1>2, <1>8, <2>1, <2>2, <2>3, ArrangedAppend
  <2> QED
    BY <1>8, <2>4 DEF RegionsOf
<1>11. \A u \in Task : tasks'[u] # NoTask => RegionsOf(tasks'[u])
  BY <1>8, <1>9, <1>10
<1>12. ASSUME halt' = "none", NEW u \in Task, Alive(u)', NEW i \in 1..Len(tasks'[u].regions),
              NEW v \in RegionPages(tasks'[u].regions[i])
       PROVE  CleanAt(p, tasks'[u].map, v, u)
  <2> HIDE DEF m, map, m2, r
  <2>1. PICK own2, lvl2 :
           /\ Grew(m, own, lvl, f[n], own2, lvl2, t, m.used)
           /\ f[n].halt = "none" =>
                 /\ \A j \in 0..n - 1 : CleanAt(f[n], map, virt + j, t)
                 /\ \A q : Half(q, t) /\ CleanAt(m, map, q, t) => CleanAt(f[n], map, q, t)
    BY <1>5, <1>6, <1>7, RegionGrew
  <2>2. Extends(m, own, lvl, m2, own2, lvl2, t) /\ IsMachine(m2)
    <3>1. Extends(m, own, lvl, m2, own2, lvl2, t)
      BY <1>7, <2>1, GrewExtends
    <3> QED
      BY <3>1 DEF Extends, Held
  <2>3. p.mem = m2.mem /\ p.bytes = m2.bytes /\ m2.halt = "none"
    BY <1>2, <1>12, <2>2, BecomesMachine DEF Becomes
  <2> HIDE DEF p
  <2>4. tasks'[u] # NoTask
    BY <1>12 DEF Alive, NoTask
  <2>5. v \in UserPage /\ tasks'[u].regions \in Seq(Region)
    BY <1>11, <1>12, <2>4 DEF RegionsOf, Arranged
  <2>6. CASE u # t
    <3>1. tasks'[u] = tasks[u] /\ Alive(u)
      BY <1>8, <1>12, <2>6 DEF Alive
    <3>2. CleanAt(m, tasks[u].map, v, u)
      BY <1>3, <1>12, <3>1 DEF RegionInv, Clean, m
    <3>3. CleanAt(m2, tasks[u].map, v, u)
      BY <1>4, <2>2, <2>5, <2>6, <3>1, <3>2, CleanKept
    <3> QED
      BY <2>3, <3>1, <3>3, CleanMemory
  <2>7. CASE u = t
    <3>1. CleanAt(m2, map, v, t)
      <4>1. tasks[t].regions \in Seq(Region)
        BY <1>3, <1>9 DEF RegionsOf, Arranged
      <4>2. CASE i \in 1..Len(tasks[t].regions)
        <5>1. tasks'[t].regions[i] = tasks[t].regions[i]
          BY <1>8, <4>1, <4>2
        <5>2. CleanAt(m, map, v, t)
          BY <1>3, <1>12, <2>7, <4>2, <5>1 DEF RegionInv, Clean, m, map
        <5> QED
          BY <1>7, <2>1, <2>3, <2>5, <5>2, UserHalf
      <4>3. CASE i = Len(tasks[t].regions) + 1
        <5>1. tasks'[t].regions[i] = r
          BY <1>8, <4>1, <4>3
        <5>2. v \in RegionPages(r) /\ r.page = virt /\ r.pages = n
          BY <1>12, <2>7, <5>1 DEF r
        <5>3. v - virt \in 0..n - 1 /\ virt + (v - virt) = v
          BY <5>2 DEF RegionPages
        <5> QED
          BY <1>7, <2>1, <2>3, <5>3
      <4>4. i \in 1..Len(tasks[t].regions) + 1
        BY <1>8, <1>12, <2>7, <4>1
      <4> QED
        BY <4>1, <4>2, <4>3, <4>4
    <3> QED
      BY <1>8, <2>3, <2>7, <3>1, CleanMemory
  <2> QED
    BY <2>6, <2>7
<1> QED
  BY <1>11, <1>12 DEF RegionInv, Clean

\* Every step keeps the regions apart and clean.
LEMMA RegionStep ==
    ASSUME ExecInv, RegionInv, [Next]_vars
    PROVE  RegionInv'
<1>1. ControlInv /\ AlignInv
  BY DEF ExecInv
<1>2. PICK own, lvl : SpaceInv(own, lvl)
  BY DEF ExecInv
<1>3. CASE Mapping
  BY <1>1, <1>2, <1>3, MmapRegions DEF Mapping
<1>4. CASE ~Mapping
  <2>1. \A u \in Task : RegionsKept(u)
    BY <1>1, <1>4, RegionsStep
  <2>2. PICK own2, lvl2 : Moved(own, lvl, own2, lvl2)
    BY <1>1, <1>2, SpaceStep DEF Goes
  <2>3. ASSUME NEW u \in Task, tasks'[u] # NoTask
        PROVE  RegionsOf(tasks'[u])
    <3>1. CASE tasks'[u].regions = <<>>
      BY <3>1 DEF RegionsOf, Arranged
    <3>2. CASE tasks'[u] = tasks[u]
      BY <2>3, <3>2 DEF RegionInv
    <3>3. CASE /\ tasks[u] # NoTask
               /\ tasks'[u].regions = tasks[u].regions
               /\ tasks'[u].used_pages = tasks[u].used_pages
               /\ tasks'[u].state = "building" => tasks[u].state = "building"
      BY <3>3 DEF RegionInv, RegionsOf
    <3> QED
      BY <2>1, <3>1, <3>2, <3>3 DEF RegionsKept
  <2>4. ASSUME halt' = "none", NEW u \in Task, Alive(u)', NEW i \in 1..Len(tasks'[u].regions),
               NEW v \in RegionPages(tasks'[u].regions[i])
        PROVE  CleanAt(Machine', tasks'[u].map, v, u)
    <3> DEFINE m == Machine
               p == Machine'
    <3>1. tasks'[u] # NoTask /\ halt = "none"
      BY <2>4, Runs DEF Alive, NoTask
    <3>2. /\ Arranged(tasks'[u].regions, tasks'[u].used_pages + AllocBase)
          /\ tasks'[u].state = "building" => tasks'[u].regions = <<>>
          /\ tasks'[u].regions # <<>>
      BY <2>3, <2>4, <3>1 DEF RegionsOf
    <3>3. v \in UserPage
      BY <2>4, <3>2 DEF Arranged
    <3>4. tasks'[u].regions = tasks[u].regions
      BY <2>1, <3>2 DEF RegionsKept
    <3>5. ASSUME Alive(u), tasks'[u].map = tasks[u].map
          PROVE  CleanAt(m, tasks'[u].map, v, u) /\ HasMap(m, own, lvl, tasks'[u].map, u)
      <4>1. CleanAt(m, tasks[u].map, v, u)
        BY <2>4, <3>1, <3>4, <3>5 DEF RegionInv, Clean
      <4> QED
        BY <1>2, <3>5, <4>1 DEF SpaceInv, Mine, IsSpace, HasMap
    <3>6. m.mem = mem /\ m.bytes = bytes /\ p.mem = mem' /\ p.bytes = bytes'
      BY MachineFieldsAre, NextMachineFieldsAre
    <3> HIDE DEF m, p
    <3>7. ASSUME NEW t \in Task, GrowStep(own, lvl, own2, lvl2, t)
          PROVE  CleanAt(p, tasks'[u].map, v, u)
      <4>1. /\ Extends(m, own, lvl, p, own2, lvl2, t) /\ SameSpaces(t)
            /\ tasks'[t].state = "building" \/ ~Alive(t)'
        BY <1>4, <3>7 DEF GrowStep, m, p
      <4>2. u # t
        BY <2>4, <3>2, <4>1
      <4>3. Alive(u) /\ tasks'[u].map = tasks[u].map
        BY <2>4, <4>1, <4>2 DEF SameSpaces
      <4> QED
        BY <3>3, <3>5, <4>1, <4>2, <4>3, CleanKept
    <3>8. ASSUME NEW t \in Task \cup {Nobody}, StillStep(own, lvl, own2, lvl2, t)
          PROVE  CleanAt(p, tasks'[u].map, v, u)
      <4>1. mem' = mem /\ bytes' = bytes /\ SameSpaces(t) /\ (t \in Task => ~Alive(t)')
        BY <3>8 DEF StillStep
      <4>2. Alive(u) /\ tasks'[u].map = tasks[u].map
        BY <2>4, <4>1 DEF SameSpaces
      <4> QED
        BY <3>5, <3>6, <4>1, <4>2, CleanMemory
    <3>9. CASE BootStep
      BY <2>4, <3>9 DEF BootStep
    <3> QED
      BY <2>2, <3>7, <3>8, <3>9 DEF Moved, p
  <2> QED
    BY <2>3, <2>4 DEF RegionInv, Clean
<1> QED
  BY <1>3, <1>4

LEMMA InvRegions ==
    ASSUME ExecInv, RegionInv
    PROVE  RegionsFresh
<1> SUFFICES ASSUME NEW t \in Task, halt = "none", OnList(t)
             PROVE  /\ \A i, j \in DOMAIN tasks[t].regions :
                          LET r == tasks[t].regions[i]
                              q == tasks[t].regions[j]
                          IN  i # j /\ ~r.fixed /\ ~q.fixed
                                => RegionPages(r) \cap RegionPages(q) = {}
                    /\ \A r \in Range(tasks[t].regions) : \A v \in RegionPages(r) :
                          \E e \in {Walk(mem, tasks[t].map, v)} :
                              /\ e.flags = UserFlags
                              /\ BytesOf({e.frame}) \cap DOMAIN bytes = {}
  BY Zenon DEF RegionsFresh
<1> DEFINE rs == tasks[t].regions
<1>1. tasks[t] # NoTask /\ Alive(t)
  BY DEF OnList, Alive, NoTask
<1>2. Arranged(rs, tasks[t].used_pages + AllocBase) /\ Clean(t)
  BY <1>1 DEF RegionInv, RegionsOf
<1>3. rs \in Seq(Region) /\ DOMAIN rs = 1..Len(rs) /\ Len(rs) \in Nat
  BY <1>2 DEF Arranged
<1>4. \A i \in DOMAIN rs : rs[i].page \in Nat /\ rs[i].pages \in Nat
  <2>1. \A i \in DOMAIN rs : rs[i] \in Region
    BY <1>3
  <2> QED
    BY <2>1 DEF Region
<1>5. ASSUME NEW i \in DOMAIN rs, NEW j \in DOMAIN rs, i < j, ~rs[i].fixed, ~rs[j].fixed
      PROVE  RegionPages(rs[i]) \cap RegionPages(rs[j]) = {}
  <2>1. rs[i].page + rs[i].pages <= rs[j].page
    BY <1>2, <1>3, <1>5 DEF Arranged
  <2> HIDE DEF rs
  <2> QED
    BY <1>4, <2>1 DEF RegionPages
<1>6. ASSUME NEW i \in DOMAIN rs, NEW j \in DOMAIN rs, i # j, ~rs[i].fixed, ~rs[j].fixed
      PROVE  RegionPages(rs[i]) \cap RegionPages(rs[j]) = {}
  <2>1. i < j \/ j < i
    BY <1>3, <1>6
  <2> QED
    BY <1>5, <1>6, <2>1
<1>7. ASSUME NEW i \in DOMAIN rs, NEW v \in RegionPages(rs[i])
      PROVE  \E e \in {Walk(mem, tasks[t].map, v)} :
                /\ e.flags = UserFlags
                /\ BytesOf({e.frame}) \cap DOMAIN bytes = {}
  <2>1. CleanAt(Machine, tasks[t].map, v, t)
    BY <1>2, <1>3, <1>7 DEF Clean
  <2>2. PICK d \in Frame : /\ Reached(Machine, tasks[t].map, v, d, t)
                           /\ BytesOf({d}) \cap DOMAIN bytes = {}
    BY <2>1, MachineFieldsAre DEF CleanAt
  <2>3. Walk(mem, tasks[t].map, v) = Level(d, t)
    BY <2>2, WalkReached, TaskOwner
  <2>4. Level(d, t).frame = d /\ Level(d, t).flags = UserFlags
    BY LevelFields
  <2> QED
    BY <2>2, <2>3, <2>4
<1>8. Range(rs) = {rs[i] : i \in DOMAIN rs}
  BY DEF Range
<1> QED
  BY <1>6, <1>7, <1>8

\* The regions that mmap chose for a process stay apart, and every page of a
\* region that it returned stays there for user mode and holds no byte of
\* whoever had the physical page before, whatever other processes load, map
\* and free meanwhile.
THEOREM RegionsStayFresh == Spec => []RegionsFresh
  <1>1. Init => RegionInv
    BY DEF Init, RegionInv, Alive, NoTask
  <1>2. ExecInv /\ RegionInv /\ [Next]_vars => ExecInv' /\ RegionInv'
    BY ExecStep, RegionStep
  <1>3. ExecInv /\ RegionInv => RegionsFresh
    BY InvRegions
  <1> QED  BY <1>1, <1>2, <1>3, ExecInit, PTL DEF Spec
=============================================================================
