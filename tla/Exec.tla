-------------------------------- MODULE Exec --------------------------------
(***************************************************************************)
(* The address spaces of bestOS: vmm_initialize, the creation of processes *)
(* by task_init, elf_load_program and sched_new_elf_process, sys_mmap,     *)
(* sys_exit, and the switch of cr3 by the timer.                           *)
(*                                                                         *)
(* Which process runs next is left open here.  A system call that a switch *)
(* cuts short never goes on (Sched), so what it had done so far is seen by *)
(* nobody and each loop over pages is one step; its process is "lost", and *)
(* resuming it stops the machine ("wild").  A switch inside vmm_map leaves *)
(* the lock of vmm.c taken.                                                *)
(***************************************************************************)
EXTENDS PageTables, ExecStack, FiniteSets

CONSTANTS MaxTasks,       \* bound: processes ever created
          Memories,       \* the usable entries of memory maps, after pmm.c
          IoPages,        \* 4 GiB, the pages mapped at IoBase
          KernelPages,    \* 128 MiB, the pages mapped at KernelBase
          StackPages,     \* STACK_SIZE / PAGE_SIZE
          StackTop,       \* USER_STACK_TOP, as a page
          AllocBase,      \* ALLOC_BASE, as a page
          LdBase,         \* 0x40000000, as a page
          Programs,       \* the ELF files, by path
          InitPath,       \* "/bin/init"
          InitArgs,       \* argv and envp in kernel_main
          Calls,          \* arguments of execve, each a path and its lists
          JunkPages,      \* used_pages of a new Task: never set
          Sizes, Hints,   \* arguments of mmap, a hint as the page it lies in
          MaxRegions,     \* bound: calls of mmap
          Boot            \* the context of kernel_main

ASSUME LayoutAssumption ==
    /\ MaxTasks \in Nat \ {0} /\ StackPages \in Nat \ {0}
    /\ StackTop \in Nat /\ AllocBase \in Nat /\ LdBase \in Nat
    /\ IoPages \in Nat /\ KernelPages \in Nat
    /\ JunkPages \subseteq Nat /\ Hints \subseteq Nat

\* Physical addresses end at Top, above the 4 GiB, with or without memory
\* behind them; the boot loader's map is a list of entries.
ASSUME MemoriesAssumption ==
    /\ KernelPages <= Top /\ IoPages <= Top
    /\ \A u \in Memories :
          /\ Len(u) \in Nat /\ DOMAIN u = 1..Len(u)
          /\ \A i \in 1..Len(u) : u[i].length \in Nat /\ u[i].length <= Top

\* The kernel's windows lie in the upper half, one above the other.
ASSUME WindowsAssumption ==
    /\ (Fan \div 2) * Span[4] <= IoBase
    /\ IoBase + Top <= KernelBase
    /\ KernelBase + KernelPages <= Fan * Span[4]

\* Stacks lie in the user half, and what mmap is asked for are numbers.
ASSUME UserAssumption ==
    /\ StackPages <= StackTop /\ StackTop <= (Fan \div 2) * Span[4]
    /\ LdBase # 0 /\ Sizes \subseteq Nat

Task == 0..MaxTasks - 1

ASSUME BootAssumption == Boot \notin Task

\* The strings have lengths.
ASSUME ArgsAssumption ==
    \A args \in {c.args : c \in Calls} \cup {InitArgs} :
        /\ nargs(args) \in Nat /\ nenv(args) \in Nat
        /\ StringBytes(args) \in Nat

VARIABLES
    mem, bytes, used, cr3, halt,   \* the machine, see PageTables
    usable,        \* entries of the boot loader's memory map
    kernel_pagemap,
    lock,       \* of vmm.c; TRUE once its holder was switched out
    tasks,
    user_rsp,   \* Task.stack.rsp
    given,      \* the arguments of each process
    running,
    job         \* sched_new_elf_process while it is under way

machine == <<mem, bytes, used, cr3, halt>>
boot == <<usable, kernel_pagemap>>
stacks == <<user_rsp, given>>
vars == <<machine, boot, lock, tasks, stacks, running, job>>

UsablePages == UNION {e.base..e.base + e.length - 1 : e \in Range(usable)}

NoJob == [phase |-> "none"]

NoTask == [state |-> "none"]

Init ==
    /\ usable \in Memories
    /\ mem = [f \in Frame |-> ZeroTable]
    /\ bytes = <<>>
    /\ used = Frame \ UsablePages
    /\ cr3 = Loader
    /\ halt = "none"
    /\ kernel_pagemap = 0
    /\ lock = FALSE
    /\ tasks = [t \in Task |-> NoTask]
    /\ user_rsp = [t \in Task |-> 0]
    /\ given = [t \in Task |-> InitArgs]
    /\ running = Boot
    /\ job = [phase |-> "boot"]

Machine == [mem |-> mem, bytes |-> bytes, used |-> used, cr3 |-> cr3,
            table |-> 0, halt |-> halt]

Becomes(m) ==
    /\ mem' = m.mem /\ bytes' = m.bytes /\ used' = m.used
    /\ cr3' = m.cr3 /\ halt' = m.halt

Alive(t) == tasks[t].state \in {"building", "ready", "lost"}
OnList(t) == tasks[t].state \in {"ready", "lost"}

Phase(p) == halt = "none" /\ job.phase = p

\* A process in user mode, about to make a system call.
InUser(t) == halt = "none" /\ job = NoJob /\ running = t /\ tasks[t].state = "ready"

-----------------------------------------------------------------------------
(* vmm_initialize.                                                         *)

\* What is mapped, from physical page 0 on: 128 MiB, 4 GiB, and once for every
\* usable entry.  That loop starts at 0 too and not at the base of the entry.
Windows == Len(usable) + 2
WindowBase(k) == IF k = 1 THEN KernelBase ELSE IoBase
WindowPages(k) ==
    IF k = 1 THEN KernelPages ELSE IF k = 2 THEN IoPages ELSE usable[k - 2].length

NewKernelPagemap ==
    /\ Phase("boot")
    /\ kernel_pagemap' = FirstFree(Machine)
    /\ Becomes(pmm_allocate_zero(Machine, 1))
    /\ job' = [phase |-> "vmm", window |-> 1, next |-> 0]
    /\ UNCHANGED <<usable, lock, tasks, running, stacks>>

MapWindows ==
    /\ Phase("vmm")
    /\ job.window <= Windows /\ job.next < WindowPages(job.window)
    /\ Becomes(vmm_map(Machine, kernel_pagemap, job.next,
                       WindowBase(job.window) + job.next, KernelFlags))
    /\ job' = [job EXCEPT !.next = @ + 1]
    /\ UNCHANGED <<boot, lock, tasks, running, stacks>>

NextWindow ==
    /\ Phase("vmm")
    /\ job.window <= Windows /\ job.next >= WindowPages(job.window)
    /\ job' = [phase |-> "vmm", window |-> job.window + 1, next |-> 0]
    /\ UNCHANGED <<machine, boot, lock, tasks, running, stacks>>

LoadPagemap ==
    /\ Phase("vmm")
    /\ job.window > Windows
    /\ cr3' = kernel_pagemap
    /\ job' = [phase |-> "init"]
    /\ UNCHANGED <<mem, bytes, used, halt, boot, lock, tasks, running, stacks>>

-----------------------------------------------------------------------------
(* task_init.                                                              *)

\* Faulty variant: the loop starts one entry late.
CopyKernelHalfLate(m, map) ==
    IF m.halt # "none" THEN m
    ELSE IF ~Reaches(m, KernelBase, map) \/ ~Reaches(m, KernelBase, kernel_pagemap)
    THEN Stop(m, "fault")
    ELSE [m EXCEPT !.mem[map] =
             [i \in Index |-> IF i > Fan \div 2 THEN m.mem[kernel_pagemap][i]
                              ELSE @[i]]]

\* Faulty variant: kernel_pagemap is read at its physical address.
CopyKernelHalfPhysical(m, map) ==
    IF m.halt # "none" THEN m
    ELSE IF ~Reaches(m, KernelBase, map) \/ ~Reaches(m, 0, kernel_pagemap)
    THEN Stop(m, "fault")
    ELSE [m EXCEPT !.mem[map] =
             [i \in Index |-> IF i >= Fan \div 2 THEN m.mem[kernel_pagemap][i]
                              ELSE @[i]]]

CopyKernelHalf(m, map) ==
    IF m.halt # "none" THEN m
    ELSE IF ~Reaches(m, KernelBase, map) \/ ~Reaches(m, KernelBase, kernel_pagemap)
    THEN Stop(m, "fault")
    ELSE [m EXCEPT !.mem[map] =
             [i \in Index |-> IF i >= Fan \div 2 THEN m.mem[kernel_pagemap][i]
                              ELSE @[i]]]

\* The page map of a task: the kernel's half is copied, the stack is mapped.
BuildSpace(m, sp, map) ==
    MapRange(CopyKernelHalf(m, map), map, sp, StackTop - StackPages, StackPages,
             UserFlags)

NextPid == Cardinality({t \in Task : tasks[t].state # "none"})

\* pages is what malloc left in used_pages.
NewTask(sp, map, pages, path) ==
    [state |-> "building", sp |-> sp, map |-> map, used_pages |-> pages,
     rip |-> 0, path |-> path, regions |-> <<>>]

TaskInit(path, args, pages) ==
    /\ NextPid < MaxTasks
    /\ ~lock
    /\ \E m1 \in {pmm_allocate_zero(Machine, StackPages)} :
       \E m2 \in {pmm_allocate_zero(m1, 1)} :
          /\ Becomes(IF m2.halt # "none" THEN m2
                     ELSE BuildSpace(m2, FirstFree(Machine), FirstFree(m1)))
          /\ tasks' = IF halt' # "none" THEN tasks
                      ELSE [tasks EXCEPT ![NextPid] =
                               NewTask(FirstFree(Machine), FirstFree(m1), pages, path)]
    /\ user_rsp' = [user_rsp EXCEPT ![NextPid] = StackTop * PageSize]
    /\ given' = [given EXCEPT ![NextPid] = args]
    /\ job' = [phase |-> "open", new |-> NextPid, path |-> path, base |-> 0,
               header |-> 1, at_phdr |-> 0, ld_path |-> "NULL"]
    /\ UNCHANGED <<boot, lock, running>>

\* kernel_main creates the first process.
FirstProcess(pages) == Phase("init") /\ TaskInit(InitPath, InitArgs, pages)

SysExecve(path, args, pages) ==
    /\ \E t \in Task : InUser(t)
    /\ TaskInit(path, args, pages)

\* vfs_open.  A missing file faults: of the program at elf_file->stat, of the
\* interpreter at ld_file->stat, ahead of the test at sched.c:272.
OpenFile ==
    /\ Phase("open")
    /\ IF job.path \in DOMAIN Programs
       THEN job' = [job EXCEPT !.phase = "load"] /\ halt' = "none"
       ELSE job' = job /\ halt' = "panic"
    /\ UNCHANGED <<mem, bytes, used, cr3, boot, lock, tasks, running, stacks>>

-----------------------------------------------------------------------------
(* elf_load_program, one program header per step.                          *)

Program == Programs[job.path]
New == tasks[job.new]

Header(type) ==
    /\ Phase("load")
    /\ job.header <= Len(Program.headers)
    /\ Program.headers[job.header].type = type

NextHeader == [job EXCEPT !.header = @ + 1]

\* Faulty variant: the misalignment is not part of the size.
PageCountAligned(h) == (h.memsz + PageSize - 1) \div PageSize

PageCount(h) == ((h.va % PageSize) + h.memsz + PageSize - 1) \div PageSize

\* Programs and interpreters are linked for the user half, and no segment has
\* more bytes in the file than in memory; elf_load_program looks at neither.
ASSUME ProgramsAssumption ==
    \A path \in DOMAIN Programs :
        /\ Programs[path].entry \in Nat /\ Len(Programs[path].headers) \in Nat
        /\ \A i \in 1..Len(Programs[path].headers) :
              LET h == Programs[path].headers[i]
              IN  h.type = "LOAD" =>
                    /\ h.va \in Nat /\ h.filesz \in Nat /\ h.memsz \in Nat
                    /\ h.filesz <= h.memsz
                    /\ LdBase + (h.va \div PageSize) + PageCount(h)
                          <= (Fan \div 2) * Span[4]

FileByte(path, offset) == <<"file", path, offset>>

\* memcpy of the file, memset of the rest.
CopySegment(m, first, h) ==
    IF m.halt # "none" THEN m
    ELSE [m EXCEPT !.bytes =
             Clear(Onto([a \in first..first + h.filesz - 1 |->
                            FileByte(job.path, h.offset + a - first)], @),
                   first + h.filesz..first + h.memsz - 1)]

\* Faulty variant: the user half is cleared first, as if each segment had a
\* page map of its own.
MapSegmentAlone(m, frame, h) ==
    IF m.halt # "none" THEN m
    ELSE CopySegment(
             MapRange([m EXCEPT !.mem[New.map] =
                          [i \in Index |-> IF i < Fan \div 2 THEN NoEntry ELSE @[i]]],
                      New.map, frame, job.base + (h.va \div PageSize),
                      PageCount(h), UserFlags),
             frame * PageSize + (h.va % PageSize), h)

\* m is the machine with the pages of the segment.
MapSegment(m, frame, h) ==
    IF m.halt # "none" THEN m
    ELSE CopySegment(
             MapRange(m, New.map, frame, job.base + (h.va \div PageSize),
                      PageCount(h), UserFlags),
             frame * PageSize + (h.va % PageSize), h)

LoadSegment ==
    /\ Header("LOAD")
    /\ ~lock
    /\ LET h == Program.headers[job.header]
       IN  Becomes(MapSegment(pmm_allocate_zero(Machine, PageCount(h)),
                              FirstFree(Machine), h))
    /\ job' = NextHeader
    /\ UNCHANGED <<boot, lock, tasks, running, stacks>>

\* The path of the interpreter; an interpreter has none, and with ld_path NULL
\* the loop ends here.
InterpreterHeader ==
    /\ Header("INTERP")
    /\ job' = IF job.base = 0
              THEN [NextHeader EXCEPT !.ld_path = Program.interp]
              ELSE [job EXCEPT !.header = Len(Program.headers) + 1]
    /\ UNCHANGED <<machine, boot, lock, tasks, running, stacks>>

PhdrHeader ==
    /\ Header("PHDR")
    /\ job' = [NextHeader EXCEPT !.at_phdr =
                  job.base * PageSize + Program.headers[job.header].va]
    /\ UNCHANGED <<machine, boot, lock, tasks, running, stacks>>

OtherHeader ==
    /\ Header("OTHER")
    /\ job' = NextHeader
    /\ UNCHANGED <<machine, boot, lock, tasks, running, stacks>>

\* The entry point.  The scan of the sections reads behind the copy of the
\* header, in the heap: it finds nothing, or writes there ("wild").
EndLoad ==
    /\ Phase("load")
    /\ job.header > Len(Program.headers)
    /\ tasks' = [tasks EXCEPT ![job.new].rip = job.base * PageSize + Program.entry]
    /\ halt' \in {"none"} \cup (IF Program.sections > 0 THEN {"wild"} ELSE {})
    /\ job' = [job EXCEPT !.phase = IF job.base = 0 THEN "stack" ELSE "push"]
    /\ UNCHANGED <<mem, bytes, used, cr3, boot, lock, running, stacks>>

-----------------------------------------------------------------------------
(* The rest of sched_new_elf_process.                                      *)

PhEntrySize == 56       \* sizeof(Elf64ProgramHeader)

Auxval == [at_entry |-> Program.entry, at_phdr |-> job.at_phdr,
           at_phent |-> PhEntrySize, at_phnum |-> Len(Program.headers)]

\* Arguments larger than the stack are written below it, into the physical
\* pages of others ("overrun").
FillStack ==
    /\ Phase("stack")
    /\ IF Skip(given[job.new]) > StackPages * PageSize
       THEN /\ halt' = "overrun"
            /\ UNCHANGED <<bytes, user_rsp>>
       ELSE /\ bytes' = Onto(Contents(given[job.new], Auxval,
                                      (New.sp + StackPages) * PageSize,
                                      user_rsp[job.new]),
                             bytes)
            /\ user_rsp' = [user_rsp EXCEPT ![job.new] = @ - Skip(given[job.new])]
            /\ halt' = "none"
    /\ job' = IF job.ld_path = "NULL" THEN [job EXCEPT !.phase = "push"]
              ELSE [job EXCEPT !.phase = "open", !.path = job.ld_path,
                               !.base = LdBase, !.header = 1]
    /\ UNCHANGED <<mem, used, cr3, boot, lock, tasks, given, running>>

\* sched_push; kernel_main goes on to sched_start.
Push ==
    /\ Phase("push")
    /\ tasks' = [tasks EXCEPT ![job.new].state = "ready"]
    /\ job' = NoJob
    /\ UNCHANGED <<machine, boot, lock, running, stacks>>

-----------------------------------------------------------------------------
(* System calls of a process.                                              *)

\* Faulty variant: used_pages stays.
UsedPagesKept(t, n, fixed) == tasks[t].used_pages

UsedPages(t, n, fixed) == tasks[t].used_pages + (IF fixed THEN 0 ELSE n)

\* One page of the region: a zeroed physical page, mapped.
MapFresh(m, m2, map, page) ==
    IF m2.halt # "none" THEN m2 ELSE vmm_map(m2, map, FirstFree(m), page, UserFlags)

MapRegion(t, virt, n) ==
    LET mapped[i \in 0..n] ==
            IF i = 0 THEN Machine
            ELSE MapFresh(mapped[i - 1], pmm_allocate_zero(mapped[i - 1], 1),
                          tasks[t].map, virt + i - 1)
    IN  mapped[n]

Regions(t) == IF tasks[t] = NoTask THEN <<>> ELSE tasks[t].regions

RegionCount == Cardinality(UNION {{t} \X DOMAIN Regions(t) : t \in Task})

InUserHalf(virt, n) == virt..virt + n - 1 \subseteq UserPage

Mmap(t, virt, n, fixed) ==
    /\ InUser(t)
    /\ ~lock
    /\ RegionCount < MaxRegions
    /\ InUserHalf(virt, n)
    /\ Becomes(MapRegion(t, virt, n))
    /\ tasks' = [tasks EXCEPT
                    ![t].used_pages = UsedPages(t, n, fixed),
                    ![t].regions = Append(@, [page |-> virt, pages |-> n,
                                              fixed |-> fixed])]
    /\ UNCHANGED <<boot, lock, running, job, stacks>>

PagesFor(size) == (size + PageSize - 1) \div PageSize

\* MAP_ANONYMOUS, where the kernel chooses, and with MAP_FIXED.
SysMmap(t, size) == Mmap(t, tasks[t].used_pages + AllocBase, PagesFor(size), FALSE)
SysMmapFixed(t, hint, size) == Mmap(t, hint, PagesFor(size), TRUE)

\* vmm_mmap checks neither the hint nor what malloc left in used_pages: a
\* region that leaves the user half is mapped all the same, over the tables
\* that every process shares ("astray").
MmapAstray ==
    /\ ~lock
    /\ \E t \in Task, size \in Sizes :
          /\ InUser(t)
          /\ \E virt \in {tasks[t].used_pages + AllocBase} \cup Hints :
                ~InUserHalf(virt, PagesFor(size))
    /\ halt' = "astray"
    /\ UNCHANGED <<mem, bytes, used, cr3, boot, lock, tasks, running, job, stacks>>

\* A call that does not return: mmap without MAP_ANONYMOUS loops, and any call
\* may be cut short by the next switch, in vmm_map with the lock taken.
CallUnfinished(t) ==
    /\ InUser(t)
    /\ tasks' = [tasks EXCEPT ![t].state = "lost"]
    /\ lock' \in {lock, TRUE}
    /\ UNCHANGED <<machine, boot, running, job, stacks>>

StackFrames(t) == tasks[t].sp..tasks[t].sp + StackPages - 1

Freed(t) ==
    {tasks[t].sp..tasks[t].sp + k - 1 : k \in 0..StackPages}
        \cup {StackFrames(t) \cup {tasks[t].map}}

\* Faulty variant: sched_remove is not called.
SysExitStays(t, freed) ==
    /\ InUser(t)
    /\ used' = used \ freed
    /\ UNCHANGED <<mem, bytes, cr3, halt, boot, lock, tasks, running, job, stacks>>

\* The process leaves the list, its stack and its page map are freed, and it
\* loops on under that page map.  A switch may come before either is freed, and
\* between two pages of the stack.
SysExit(t, freed) ==
    /\ InUser(t)
    /\ used' = used \ freed
    /\ tasks' = [tasks EXCEPT ![t].state = "dead"]
    /\ UNCHANGED <<mem, bytes, cr3, halt, boot, lock, running, job, stacks>>

-----------------------------------------------------------------------------
(* The timer, once sched_start was called.                                 *)

Started == \E t \in Task : tasks[t].state \notin {"none", "building"}

\* Another process goes on, and an unfinished exec is lost.
Switch(t) ==
    /\ halt = "none" /\ Started
    /\ t # running /\ OnList(t)
    /\ running' = t
    /\ cr3' = tasks[t].map
    /\ halt' = IF tasks[t].state = "lost" THEN "wild" ELSE "none"
    /\ IF job = NoJob THEN UNCHANGED <<tasks, lock>>
       ELSE /\ tasks' = [tasks EXCEPT ![running].state = "lost"]
            /\ lock' \in {lock, TRUE}
    /\ job' = NoJob
    /\ UNCHANGED <<mem, bytes, used, boot, stacks>>

\* A stale slot of the list: a process that exited is resumed (Sched).
SwitchToDead ==
    /\ halt = "none" /\ Started
    /\ Cardinality({t \in Task : tasks[t].state = "dead"}) >= 2
    /\ \E t \in Task : OnList(t)
    /\ halt' = "stale"
    /\ UNCHANGED <<mem, bytes, used, cr3, boot, lock, tasks, running, job, stacks>>

NoProcess ==
    /\ halt = "none" /\ Started
    /\ \A t \in Task : ~OnList(t)
    /\ halt' = "noproc"
    /\ UNCHANGED <<mem, bytes, used, cr3, boot, lock, tasks, running, job, stacks>>

\* A machine that has stopped, and ticks that change nothing: user code and
\* callers that wait for the lock go on.
Idle ==
    /\ halt # "none" \/ Started
    /\ UNCHANGED vars

Load == OpenFile \/ LoadSegment \/ InterpreterHeader \/ PhdrHeader \/ OtherHeader
            \/ EndLoad \/ FillStack \/ Push

Next ==
    \/ NewKernelPagemap \/ MapWindows \/ NextWindow \/ LoadPagemap
    \/ \E pages \in JunkPages :
          \/ FirstProcess(pages)
          \/ \E c \in Calls : SysExecve(c.path, c.args, pages)
    \/ Load
    \/ \E t \in Task :
          \/ \E size \in Sizes :
                SysMmap(t, size) \/ \E hint \in Hints : SysMmapFixed(t, hint, size)
          \/ CallUnfinished(t)
          \/ InUser(t) /\ \E freed \in Freed(t) : SysExit(t, freed)
          \/ Switch(t)
    \/ MmapAstray \/ SwitchToDead \/ NoProcess \/ Idle

Spec == Init /\ [][Next]_vars

-----------------------------------------------------------------------------
(* Properties.                                                             *)

HaltReason == {"none", "page0", "overlap", "fault", "panic", "overrun", "wild",
               "stale", "noproc", "astray"}

Entry == [frame : Frame, flags : {0, KernelFlags, UserFlags}]

\* Type correctness: what the tables hold are pages that exist, with one of
\* the two sets of rights that the code uses.
TypeOK ==
    /\ \A f \in Frame, i \in Index : mem[f][i] \in Entry
    /\ DOMAIN bytes \subseteq BytesOf(Frame)
    /\ used \subseteq Frame
    /\ cr3 \in Frame \cup {Loader} /\ kernel_pagemap \in Frame
    /\ lock \in BOOLEAN
    /\ \A t \in Task : tasks[t] = NoTask \/
          /\ DOMAIN tasks[t] = {"state", "sp", "map", "used_pages", "rip", "path",
                                "regions"}
          /\ tasks[t].sp \in Frame /\ tasks[t].map \in Frame
          /\ tasks[t].rip \in Nat /\ tasks[t].used_pages \in Nat
    /\ user_rsp \in [Task -> Nat]
    /\ running \in Task \cup {Boot}
    /\ halt \in HaltReason

Booted == cr3 # Loader

\* The physical pages mapped at IoBase: 4 GiB, or as many pages as the longest
\* usable entry has.
IoWindow == Max({IoPages} \cup {e.length : e \in Range(usable)})

\* Under every page map that the CPU walks or may walk the kernel finds each
\* physical page where it computes its address: at IoBase up to IoWindow and at
\* KernelBase below 128 MiB, and user mode cannot.  task_init copies entries
\* once, sys_exit frees the map that cr3 still holds, and vmm_map writes
\* through these windows.  It holds until mmap is led out of the user half,
\* which nothing in vmm_mmap prevents ("astray").
KernelShared ==
    Booted /\ halt = "none" =>
        \A map \in {cr3} \cup {tasks[t].map : t \in {u \in Task : Alive(u)}} :
            /\ \A f \in 0..IoWindow - 1 :
                  Walk(mem, map, IoBase + f) = [frame |-> f, flags |-> KernelFlags]
            /\ \A f \in 0..KernelPages - 1 :
                  Walk(mem, map, KernelBase + f)
                      = [frame |-> f, flags |-> KernelFlags]

\* A page, or the group of pages below a table, with what the CPU finds there.
Node(number, e) == [page |-> number, entry |-> e]

Descend(nodes) ==
    UNION {{Node(n.page * Fan + i, Lookup(mem, n.entry, i)) :
               i \in {j \in Index : Present(mem[n.entry.frame][j])}} : n \in nodes}

\* The tables below the user half of a page map, by level, then its pages.
Upper(map) ==
    {Node(i, mem[map][i]) : i \in {j \in 0..Fan \div 2 - 1 : Present(mem[map][j])}}

Frames(nodes) == {n.entry.frame : n \in nodes}

Tables(map) ==
    {map} \cup Frames(Upper(map)) \cup Frames(Descend(Upper(map)))
        \cup Frames(Descend(Descend(Upper(map))))

\* The pages that a process can use, with the physical page of each.
SpaceOf(t) ==
    LET nodes == {n \in Descend(Descend(Descend(Upper(tasks[t].map)))) :
                     n.entry.flags = UserFlags}
    IN  [v \in {n.page : n \in nodes} |->
            (CHOOSE n \in nodes : n.page = v).entry.frame]

spaces == [t \in {u \in Task : Alive(u)} |-> SpaceOf(t)]

Children(S) ==
    {mem[x[1]][x[2]].frame : x \in {y \in S \X Index : Present(mem[y[1]][y[2]])}}

KernelTables == LET all == Children({kernel_pagemap})
                IN  {kernel_pagemap} \cup all \cup Children(all)
                        \cup Children(Children(all))

\* The tables hold what they may (TypeOK), and a physical page has one use: it
\* is a table of the kernel, a table of one process or memory of one process
\* behind one page, and it is marked in the bitmap.  So no process can reach a
\* page table or the memory of another, whatever exec, mmap, exit and the
\* switches between them did, until pmm_allocate gives a page twice ("overlap",
\* "page0") or mmap is led out of the user half ("astray").
FramesApart == TypeOK /\
    \A mine \in {spaces} :
    \A tables \in {[t \in DOMAIN mine |-> Tables(tasks[t].map)]} :
        \A t \in DOMAIN mine :
            /\ tables[t] \cup Range(mine[t]) \subseteq used
            /\ (tables[t] \cup Range(mine[t])) \cap KernelTables = {}
            /\ tables[t] \cap Range(mine[t]) = {}
            /\ Cardinality(Range(mine[t])) = Cardinality(DOMAIN mine[t])
            /\ \A u \in DOMAIN mine \ {t} :
                  (tables[t] \cup Range(mine[t]))
                      \cap (tables[u] \cup Range(mine[u])) = {}

\* The byte a process reads at an address, as the exec left it.
ByteAt(t, a) ==
    LET e == Walk(mem, tasks[t].map, a \div PageSize)
        p == e.frame * PageSize + (a % PageSize)
    IN  IF e.flags # UserFlags THEN <<"fault">>
        ELSE IF p \in DOMAIN bytes THEN bytes[p] ELSE Zero

HasInterpreter(path) ==
    \E i \in 1..Len(Programs[path].headers) :
        Programs[path].headers[i].type = "INTERP"

\* The segments of a file: of an interpreter, those ahead of an INTERP header.
SegmentsOf(path, base) ==
    LET hs == Programs[path].headers
        seen(i) == base # 0 => \A j \in 1..i : hs[j].type # "INTERP"
    IN  {[path |-> path, base |-> base, at |-> i, h |-> hs[i]] :
            i \in {j \in 1..Len(hs) : hs[j].type = "LOAD" /\ seen(j)}}

Image(t) ==
    LET path == tasks[t].path
    IN  SegmentsOf(path, 0) \cup
            IF HasInterpreter(path) THEN SegmentsOf(Programs[path].interp, LdBase)
            ELSE {}

SegmentPages(s) ==
    s.base + (s.h.va \div PageSize)
        ..s.base + ((s.h.va + s.h.memsz - 1) \div PageSize)

RegionPages(r) == r.page..r.page + r.pages - 1

\* The interpreter is loaded after the program, and headers in their order.
LoadedLater(s, u) == \/ s.base # u.base /\ u.base = LdBase
                     \/ s.base = u.base /\ s.at < u.at

\* The process has mapped over the page, or a later segment of the same image
\* lies on it: elf_load_program gives that page anew.
Replaced(t, s, page) ==
    \/ \E r \in Range(tasks[t].regions) : page \in RegionPages(r)
    \/ \E u \in Image(t) : LoadedLater(s, u) /\ page \in SegmentPages(u)

\* A process finds its program in memory: every byte of every segment, of the
\* interpreter too, is the byte of the file or zero, wherever the segment
\* begins and ends within its pages.  Of two segments that share a page the
\* later one alone is found there, and what the file has of the other is lost.
ImageInPlace ==
    \A t \in {u \in Task : OnList(u)} :
        \A s \in Image(t) : \A o \in 0..s.h.memsz - 1 :
            LET a == s.base * PageSize + s.h.va + o
            IN  Replaced(t, s, a \div PageSize) \/
                ByteAt(t, a) = IF o < s.h.filesz
                               THEN FileByte(s.path, s.h.offset + o) ELSE Zero

\* The regions that mmap chose for a process do not overlap, and every region
\* that it returned is there for user mode and holds no byte of whoever had
\* the physical page before, although exit frees pages as they are.  used_pages
\* starts at anything, so this too ends where the regions leave the user half.
RegionsFresh ==
    \A t \in {u \in Task : halt = "none" /\ OnList(u)} :
        /\ \A i, j \in DOMAIN tasks[t].regions :
              LET r == tasks[t].regions[i]
                  q == tasks[t].regions[j]
              IN  i # j /\ ~r.fixed /\ ~q.fixed => RegionPages(r) \cap RegionPages(q) = {}
        /\ \A r \in Range(tasks[t].regions) : \A v \in RegionPages(r) :
              \E e \in {Walk(mem, tasks[t].map, v)} :
                  /\ e.flags = UserFlags
                  /\ BytesOf({e.frame}) \cap DOMAIN bytes = {}

\* The ABI: at the entry point of a process rsp is a multiple of 16; sched.c
\* says "Make sure the *final* stack pointer is 16-byte aligned".
StackAligned ==
    \A t \in {u \in Task : OnList(u)} : user_rsp[t] % 16 = 0

\* The word at an address is w.
WordIs(t, a, w) == \A j \in 0..7 : ByteAt(t, a + j) = WordByte(w, j)

\* The word at an address points to the k-th of the strings.
PointsTo(t, a, k) ==
    /\ ByteAt(t, a)[1] = "word"
    /\ \E p \in {ByteAt(t, a)[2]} :
          /\ WordIs(t, a, p)
          /\ \A j \in 0..Strings(given[t])[k] :
                ByteAt(t, p + j) = CharByte(k, j)

StackReplaced(t) ==
    \E r \in Range(tasks[t].regions) :
        RegionPages(r) \cap (StackTop - StackPages..StackTop - 1) # {}

PhdrOf(path) ==
    LET hs == Programs[path].headers
        at == {i \in 1..Len(hs) : hs[i].type = "PHDR"}
    IN  IF at = {} THEN 0 ELSE hs[Max(at)].va

\* The C library of a new process, reading up from rsp through the page
\* tables, finds argc, argv and envp with their strings, each list ended by
\* NULL, and the auxiliary vector of the program; what runs first is the
\* interpreter, if there is one.
ArgsInPlace ==
    \A t \in {u \in Task : OnList(u) /\ ~StackReplaced(u)} :
        LET a == given[t]
            p == tasks[t].path
            word(i) == user_rsp[t] + 8 * i
            aux == nargs(a) + nenv(a) + 3
            pair(i, tag, val) == /\ WordIs(t, word(aux + 2 * i), tag)
                                 /\ WordIs(t, word(aux + 2 * i + 1), val)
        IN  /\ WordIs(t, word(0), nargs(a))
            /\ \A i \in 1..nargs(a) : PointsTo(t, word(i), nenv(a) + i)
            /\ WordIs(t, word(nargs(a) + 1), 0)
            /\ \A i \in 1..nenv(a) : PointsTo(t, word(nargs(a) + 1 + i), i)
            /\ WordIs(t, word(aux - 1), 0)
            /\ pair(0, AT_PHNUM, Len(Programs[p].headers))
            /\ pair(1, AT_PHENT, PhEntrySize)
            /\ pair(2, AT_PHDR, PhdrOf(p))
            /\ pair(3, AT_ENTRY, Programs[p].entry)
            /\ pair(4, 0, 0)
            /\ tasks[t].rip = IF HasInterpreter(p)
                              THEN LdBase * PageSize + Programs[Programs[p].interp].entry
                              ELSE Programs[p].entry

\* The kernel faults only when physical memory above 128 MiB is in use or is
\* about to be: below, every table, page map and buffer that exec, mmap and
\* exit touch can be reached under whichever page map is loaded.
FaultsOnlyHighUp ==
    halt = "fault" =>
        \E f \in UsablePages : /\ f >= KernelPages
                               /\ f \in used \/ f < FirstFree(Machine) + StackPages

AS == INSTANCE AddressSpaces WITH space <- spaces

\* Exec implements AddressSpaces: each step gives one process memory that
\* nobody else has, creates a process or takes one away, until the machine
\* stops ("overlap" and "astray" included: there the code goes on).
IsAddressSpaces == AS!Spec
=============================================================================
