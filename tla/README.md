# A verification project for bestOS

bestOS is a small x86-64 kernel in C: a preemptive round-robin scheduler, a
bitmap page allocator, four-level page tables, a boundary-tag heap, an ELF
loader, an in-memory file system unpacked
from a ustar archive, a terminal device and ten system calls. This directory
holds TLA+ models of its stateful parts, TLC configurations for small instances
of them, and TLAPS proofs for every instance of all of them. Paths such as
`kernel/sched.c` are relative to `src/src/`.

`PROJECT.json` is the machine-readable side: which lines each definition
translates, the runs, one mutant per checked property, the hazards, the findings
and the theorems.

## 1. The system

### Components, their state, their operations

| Component | State | Operations |
|---|---|---|
| Scheduler (`kernel/sched.c`) | `processes` (a vector), `index`, `current_tick`, `current_task`, `current_pid`, `lock`, `started` | `sched_init`, `task_init`, `sched_new_elf_process`, `sched_push`, `sched_remove`, `sched_tick`, `sched_set_index`, `sched_set_tick`, `sched_start` |
| Trap entry (`kernel/arch/interrupts.c`, `idt.*`, `gdt.c`) | `prev_task`, the saved registers in each `Task`, one kernel stack | timer interrupt, `int 0x42`, exceptions |
| Vectors (`lib/vec.*`) | data, length, capacity; slots past the length keep their content | `vec_push`, `vec_splice`, `vec_find`, `vec_remove` |
| Physical memory (`arch/memory/pmm.c`) | bitmap (in the memory it describes), `highest_page`, `usable_pages` | `pmm_initialize`, `pmm_allocate`, `pmm_allocate_zero`, `pmm_free` |
| Heap (`lib/alloc.c`) | boundary tags, `l_freePages`, `l_completePages` | `malloc`, `calloc`, `realloc`, `free` |
| Page hooks (`kernel/main.c`) | a lock | `liballoc_alloc`, `liballoc_free`, `liballoc_lock`, `liballoc_unlock` |
| VFS, tmpfs, devfs (`kernel/fs/`) | a tree of `VfsNode`s, each with its size, cursor, buffer | `vfs_mkdir`, `vfs_mount`, `vfs_open`, `vfs_read`, `vfs_write`, the two file systems' reads and writes |
| ustar (`kernel/fs/ustar.c`) | the address of the current header | `create_tmpfs_files` |
| System calls (`kernel/syscalls.c`) | descriptors and `current_fd` of each task, the global `errno` | `log`, `mmap`, `set_fs`, `openat`, `read`, `write`, `seek`, `close`, `exit`, `execve` |
| Virtual memory (`arch/memory/vmm.c`) | four-level page tables, `kernel_pagemap`, CR3, `used_pages` of each task, a lock | `vmm_initialize`, `vmm_map`, `vmm_unmap`, `vmm_map_range`, `vmm_load_pagemap`, `vmm_mmap` |
| ELF loader (`kernel/elf.c`, `sched.c:193-257`) | the image and the first stack of a process | `elf_load_program` |

Drivers (serial line, interrupt controller), CPU set-up, the boot loader's
header, the C library patch and the user programs complete the repository.

### How they interact

There is one CPU. `kernel_main` sets everything up, mounts tmpfs at `/`, unpacks
the archive, mounts devfs at `/dev`, creates the first process and calls
`sched_start`; from then on the timer interrupt (1 kHz) calls `sched_tick` and
replaces the trap frame by the next task's saved registers. Processes enter the
kernel through `int 0x42`. That vector is a *trap* gate, so system calls run with
interrupts on and the timer can preempt them anywhere; the timer's own vector is
an *interrupt* gate, so its handler runs to the end. All traps from user mode
start at the same address, the top of the boot stack in `tss.rsp[0]`.

`execve` and `exit` change the process list under the scheduler's lock; system
calls on files go to the VFS and from there to the file system of the node's
mount point; `execve` and `mmap` build page tables in physical pages that the kernel
reaches through two windows of its own half of every page map; nodes, buffers and tables
come from the heap, which takes pages from
the physical memory manager through the hooks.

### What is hard here

* **Preemption inside the kernel**: a tick between any two steps of `sched_push`,
  `sched_remove`, `sys_execve`, `sys_exit`, with a lock the tick also takes, two
  notions of the current task (`prev_task`, `current_task`), and one kernel stack.
* **Indices that outlive what they index**: `index` against an equality test only,
  pids used as slots, descriptors looked up after their slot was cut out.
* **Exhaustion and failure**: a refused page request that still clears memory, a
  hook that hides NULL, an `openat` that fails after taking a number.
* **Locks that are lost**: the heap, the page tables, `sys_log` and the terminal have
  locks that `sched_tick` does not look at; a preempted call never goes on and never
  releases them.
* **Memory reached through what it describes**: page tables are written through the
  page tables, a process that exits runs on under a page map it has freed, and the
  windows cover less than the memory that is handed out.
* **Uninitialised and freed memory**: nodes straight from `malloc`, buffers freed by
  `close` and used by the next descriptor.
* **Link surgery**: split, melt and absorb in the heap; parents, children, `.` and
  `..` in the tree.
* **Boundaries**: rounding of the bitmap's size, stepping over the archive's blocks,
  buffers one byte larger than their file, sizes that lose bits in `int`.

The full list, with lines, is `hazards` in `PROJECT.json`.

### What makes each component correct

* Scheduler: a task is resumed with its own registers; the lock is never held by a
  descheduled context; the list is exactly the live processes; only slots in use
  are read; every listed process runs again; an exit takes effect; dead tasks do
  not run (violated).
* Physical memory: a page has one owner (violated for multi-page requests after a
  free); until that happens, or a refused request clears the bitmap itself, the bitmap is
  exact, callers have usable pages only, nobody's data is cleared but by a refusal, and a
  request is refused only when nothing is left.
* Heap: tags tile the pages; links and lists are exact; payloads fit in their
  pieces (violated for sizes of 4 GiB and more, of which an `unsigned int` is kept); live
  pieces are disjoint; `realloc` does not lose data.
* Locks and errors: a lock is found taken, or an error pending that the running call did
  not set, only after a call was cut, or left by the boot until the first call ends; every
  call ends that does not wait for input or loop by itself.
* Address spaces: the kernel finds physical memory under every page map; a physical
  page has one use; a new process finds its program, its arguments and an aligned
  stack; regions of `mmap` are fresh and apart. All of it until an `mmap` is led out of the
  user half, which nothing prevents.
* Files: the tree is consistent; paths resolve to the right node; descriptors lead
  to the files they were opened on (violated unless closed in reverse order) and to no
  freed buffer (for processes that never open, run or close again what was closed); a
  buffer has room for its file.

## 2. Modules

| Module | Models | Extends |
|---|---|---|
| `Vec` | `lib/vec.h`, `lib/vec.c` as operators on `[data, length]`, capacity and stale slots included | - |
| `Sched` | scheduler, timer handler, `exec`, `exit` | `Vec` |
| `VecProofs`, `SchedProofs` | lemmas on vectors; the scheduler's theorems | `Vec`, `Sched` |
| `Kernel` | the other locks and `errno` under the scheduler's preemption | `Sched` |
| `KernelProofs` | `Kernel` implements `Sched`; theorems on locks and errors | `Kernel`, `SchedProofs` |
| `Pmm` | `pmm.c` and its callers | - |
| `PmmProofs` | the manager's theorems | `Pmm` |
| `BoundaryTags` | the tag and list operations of `alloc.c` as operators on a heap record | - |
| `Allocator` | abstract: disjoint live pieces | - |
| `Heap` | `malloc`, `calloc`, `free`, `realloc` and callers | `BoundaryTags` |
| `HeapProofs` | the heap's theorems | `Heap` |
| `Vfs` | `vfs.c` and `tmpfs_create_file` as operators on a tree | `Vec` |
| `RootFs` | mounting, unpacking the archive, `devfs_init` | `Vfs` |
| `Files` | descriptors, file system calls, tmpfs and devfs reads and writes | `RootFs` |
| `VfsProofs` | lemmas on trees, lookups, archives; the invariant of the boot | `RootFs` |
| `FilesProofs` | the theorems on the tree, descriptors, buffers and errors | `Files`, `VfsProofs`, `VecProofs` |
| `PageTables` | `vmm_map`, the CPU's walk and the page allocator as operators on a machine record | - |
| `ExecStack` | the words and strings that `sched.c:193-257` puts on the first stack | - |
| `AddressSpaces` | abstract: every process has memory of its own | - |
| `Exec` | boot of the page tables, `execve`, `elf_load_program`, `mmap`, `exit`, switches of CR3 | `PageTables`, `ExecStack` |
| `ExecProofs` | first stacks, one use per physical page, the refinement, the kernel's half, regions | `Exec` |
| `MCSched`, `MCKernel`, `MCPmm`, `MCHeap`, `MCFiles`, `MCExec` | instances for TLC | the above |

A definition whose comment begins with *Faulty* is a plausible bug in the
definition below it. No specification uses it; it shows that the property it is
paired with in `PROJECT.json` can fail.

### Sched

A context (the boot code or a task) has a program point; each kernel step that the
timer can separate from the next is an action (`TaskInit`, `PushLock`, `Push`,
`PushRelease`, `SetIndex`, ...). `Tick` is the whole timer handler. `saved[t]` is
`Task.stack` with a ghost field `who` saying whose registers it holds; `regs` is
where each context really is. `kframe` says whose trap frame is at the top of the
kernel stack: a trap or tick from user mode overwrites it. When a tick resumes
kernel code whose frames are gone, the kernel runs on with whatever is there; the
model stops with `halt = "wild"`. The other halts are `panic` (an exception),
`spin` (the handler waits for a lock the interrupted code holds), `noproc` (an empty
list, `hlt` with interrupts off) and `junk` (a slot that was never written).

Not in the model: the FPU area, FS base, CR3 and page maps (in `Exec`), and the
system calls' bodies (`SyscallBody` is one step; their effects are in `Files`).

### Kernel

`Kernel` adds to `Sched` who holds each of four locks, the critical sections that
the running code still has to go through before its next step of `Sched` (`todo`),
and whose code set `errno`: a process's call, or the boot code, which unpacks the RAM disk
before `sched_init` and may leave `ENOENT` for the first call (`KInit` has both cases, and
the loader of the first process may set it too). `ended` is a history variable: a call has ended, which
clears `errno`. `Take` and `Release` are `spin_lock` and
`spin_release`; a step of `Sched` is taken when `todo` is empty, a tick at any time.
Two entries of `todo` are no locks: `input`, where `devfs_read` polls the serial port for a
line (`Input` ends it), and `loop`, the `while (1)` of an `mmap` without `MAP_ANONYMOUS`,
which nothing ends.
A process that finds a lock taken has no step of its own left and waits for ticks,
which is what spinning is. A section that the code enters several times between two
points of `Sched` is entered once, and `sys_exit`'s lock is taken before the step
`Die` that stands for the rest of it. Only the running code's `todo` is kept: code
that lost the CPU inside a section never goes on (`SwitchesResumeUserCode`, proved).
Every step is a step of `Sched` or leaves its variables alone, so all of `Sched`'s
theorems hold here (`KernelImplementsSched`).

### Pmm

Addresses and lengths are in pages. The bitmap's own pages are in the address space
it describes, so clearing memory may clear bits. `pmm_allocate_zero` is the scan,
the marking and the memset in one step; `AllocateFails` is the same call when
nothing is free, memset from page 0 included. Callers (`held`, `written`, `data`)
are ghosts: who has which block, and whose data is still intact. So are `freed`, `refused`
(the largest request that was refused, whose memset cleared the pages below that number,
owned or not) and `overrun` (the scan, which tests one bit, placed a block over a set
bit). `Undamaged` says that no block was placed so and that no refusal reached the bitmap;
the properties of the records are stated for requests of every size, frees and refusals in
any order, until then. Assumed of the
boot loader (`MapAssumption`): entries do not overlap and are whole pages, page 0
is not usable, addresses are bounded. `phase = "stray"` means the code has touched
bits behind the end of the bitmap; the model stops there.

### Heap

A heap is a record of tags by address and the two tables; `BoundaryTags` has one
operator per C function. A call is one step, as it runs under `liballoc_lock`.
Loops are recursive functions of the round, cut at the number of tags: `Nth` is the
walk along `next`, `FirstFit` malloc's search, `MeltLeft` and `MeltRight` the two loops
of `free`. A tag that melts into another one leaves the record. `held` is a ghost: what
callers have and what they asked for.

The hook is `pmm_allocate_zero` (`pmm.c:50-79`), whose pages others take and free too. For
all the heap knows it may return any page, and the pages behind that one come along,
whoever has them: `first` in `malloc` and `realloc` is any page. When some of those pages
are the heap's own, or no memory, the code goes on in tags that it overwrites; the model
stops (`overlap`). `Pmm` says when that happens: only after a block was placed over a set
bit or a refusal reached the bitmap (`Undamaged`). The hook may also find nothing; it then
returns `MMAP_IO_BASE`, which is not NULL (`page0`).

Sizes are any numbers: `read` and `write` bring a user's count to `malloc` and `realloc`
(`devfs.c:13`, `tmpfs.c:57,70`). `allocate_new_tag` keeps an `unsigned int` of them, so 4 GiB
become a piece of the least size (`heap_wide`); a size that wraps together with its header,
and a `realloc` whose sizes are negative as `int`, stop the model (`wrapped`). A tag is 4
bytes and a page 16, and an `int` has 7 bits, to keep
instances small; in the kernel they are `sizeof(struct boundary_tag)`, 4096 and 32.
`WidthAssumption` says how the compile-time
constants of `alloc.c` relate: a header is less than half of what an `unsigned int` counts,
and the least block is within it.

### Vfs, RootFs, Files

A string is the sequence of segments that `/` cuts it into, the empty ones
included: what `strtok` in `lib/str.c` makes of it. Nodes come from `malloc`; a
*dirty* node's unset fields hold junk, a clean one's zero, and TLC tries both for up
to `MaxDirty` nodes. A lookup that goes through NULL or junk stops the kernel, as do
the use of a freed buffer, a write outside a block and a splice of negative length
(`halted`). File contents are abstracted to size, cursor and the room of the
buffer. `mountpoints[64]` is written and never read and is left out; at most two
mounts happen. System calls are atomic here: by `SwitchesResumeUserCode` a
preempted one never goes on. A name that fills its field of the header is copied without a
NUL, so the path runs on into the fields behind it: `CopiedPaths` has what may come of it,
with `Longer` for the part that is not the name. A new process loads its program, may get
three descriptors of the terminal, and loads the interpreter that the program names, if it
names one (`Interpreters`); `exit` empties the table of descriptors and leaves `current_fd`
as it is.

`sys_close` frees the buffer of a file and nothing marks the node, so two properties of
descriptors hold only for processes that keep a discipline: use only descriptors they
have, close the newest one first, close no file that is open elsewhere, and never again
open, execute or close a file that was closed (opening one again is enough to read a
freed buffer). The ghost `gentle` records that every call of every process so far kept
it. Negative descriptors, other than `AT_FDCWD`, are not passed. The flags come
from `r10`, any set of them (the C library always passes 0 there).

### PageTables, ExecStack, Exec

An address is a page number, an entry a pair of a physical page and flags. `mem` is
every physical page read as a table, `bytes` the bytes of data that are not zero,
`used` the bitmap of `pmm.c` as a set. `Walk` is the CPU's page walk (external), and
`Reaches` says whether the kernel, under the page map that CR3 holds, finds a
physical page in the window it uses: a write that does not is a page fault in the
kernel (`fault`). `vmm_map` with its `get_next_level` calls is one operator.

`Exec` boots (`NewKernelPagemap`, `MapWindows`, `NextWindow`, `LoadPagemap`), builds processes
(`TaskInit` from `FirstProcess` or `SysExecve`, then one action per program header,
`EndLoad`, `FillStack`, `Push`), maps regions, exits and switches. A process that is
cut inside a call becomes `lost` and may leave the lock of `vmm.c` taken; callers of
`vmm_map` then wait. Loops over the pages of one segment or region are one step: a
call that is cut in the middle of one never goes on, and what it leaves behind is
never used. `SysExit` frees pages of the stack one by one and then the page map, up to
wherever the tick falls, and the process stays under its page map until `Switch`.
`vmm_mmap` tests neither the hint nor the `used_pages` that `malloc` left in a new `Task`: both
are any page here, and a region that leaves the user half goes over the tables that all
processes share (`MmapAstray`).

The model stops where the code goes on with no defined meaning: `page0` (an allocation
failed and NULL is used), `overlap` (a multi-page request over pages in use, see
`pmm_overlap`), `fault`, `overrun` (the arguments exceed the stack), `wild` (the scan
of the sections leaves the file), `panic` (a missing file or `ld.so`; the test at
`sched.c:272` comes after the use), `stale` (`sched_dead_task`), `noproc` and `astray`.
After `overlap` and `astray` the code goes on with memory that two processes share; every
property of `Exec` is about the time before. The
heap's own pages are left out of `used`: `Heap` and `Pmm` treat them.

`ImageInPlace` leaves out pages that a later segment of the same image takes over:
`elf_load_program` allocates anew for each segment, so a page that two segments share
keeps only the second one's bytes.

## 3. Runs

| Run | Configuration | Result |
|---|---|---|
| `sched` | 4 processes, slices of 2 ticks | holds: contexts, lock, list, index, the inductive invariant (types and frames with it), system calls are not resumed |
| `kernel` | 3 processes, four locks, with fairness | holds: only calls that were cut keep locks, only they and the boot errors, lost locks stay lost; listed processes run, exits take effect, calls end that wait for no input and do not loop, unless the machine stops or an exit took the heap lock with it |
| `sched_dead_task` | 3 processes | violation: `sched_tick` runs a dead task |
| `pmm` | 9 memory maps; requests of 1, 2, 3 and 5 pages, frees and refusals in any order, until the records are damaged (`Undamaged`), or, if that is later, up to the first free, refusal or block over the bitmap | holds: types, usable pages with one owner, exact bitmap, data kept, refusals only when nothing is left, strays only at the edge; nothing is given twice before a free or a refusal |
| `pmm_overlap` | 1 and 2 pages, with frees | violation: two owners of a page |
| `heap` | 5 pages, any answer of the hook; sizes 2, 10 and 40, at half of what an `unsigned int` counts, near it, at it and beyond | holds: tiling, links, lists, melting, counts, payloads as far as `unsigned int`; implements `Allocator` |
| `heap_wide` | the same | violation: a payload larger than its piece |
| `vfs` | 6 archives, 16 paths, up to one dirty node | holds: tree, archive, mounts, lookup, dots |
| `files` | one process, one descriptor beside the standard ones, on a file of the archive, a new file or the terminal; reads, writes, seeks | holds: no freed buffer, room, errors, the number is the slot |
| `descriptors` | two processes, opens, closes in any order, exits, execs | holds: descriptors lead to their files |
| `files_closed` | one process, two files | violation: `close` acts on the wrong file |
| `vmm` | 3 processes, 2 memory maps of up to 62 pages, 4 programs, tables of 8 entries | holds: the kernel's windows, one use per page, images, regions, stacks, arguments, faults only above the windows; implements `AddressSpaces`, until a page is given twice or an `mmap` goes astray |

### What the violations show

Each quotes a line of the repository that the code does not keep (`findings`).

* `DeadStayOff`: after two exits ahead of it `index` is past the length, the
  equality test misses, and a stale slot brings a dead task back.
* `OneOwner`: the scan for several pages tests one bit. A free in front of an owned
  page, then a two-page request, and the owned page is cleared.
* `ClosedThatFile`: `close` acts on the file of the *next* descriptor.
* `PayloadWhole`: `malloc` of 4 GiB returns a piece of the least size, because
  `allocate_new_tag` takes an `unsigned int`.

Other departures are plain from one line each and have no run: the page hook hides
the NULL of a refused request (`main.c:27`), `malloc` searches one free list only
(`alloc.c:299`), `openat` ignores its directory (`vfs.c:180`, "FIXME: use start"), and
the test in `get_fd` is off by two (`syscalls.c:46`).

`CallsEnd` names its exceptions on a running machine. `Waits`: a read of the terminal for
which nobody types, and an `mmap` that is not anonymous. `HeapDied`: a process that is
preempted in the `free` of `vec_deinit`, at the end of `sys_exit`, has left the list
and takes the heap lock with it; from then on every `malloc` spins. Without the last
disjunct TLC finds two processes and one exit that get there.

### Bounds, and why they are enough

* Four processes: one to create, one to preempt, two to exit (a stale index takes two
  exits and a survivor). A slice of two ticks has both kinds of tick.
* Memory maps: one region, a region the bitmap fills, a gap, a small region before
  the bitmap's, one so far before it that a refusal of five pages clears a page of an owner
  and not the bitmap, no memory, no room, and the two maps at the rounding edge. A byte
  has 2 bits and a page 2 bytes, so all of these exist with eight or nine pages. Requests
  of 2 and 3 pages run into an owned page behind a freed one; 5 is more than some maps
  have in a row.
* The heap: two least blocks of two pages, each cut into up to three pieces, so a free piece
  can have a free, a used or no
  neighbour on each side, and a whole block can be the first or the second to wait
  (`MaxComplete` = 1). The request for 40 needs more than the least block, 64 is negative as
  an `int` of 7 bits, 112 wraps with its header, 128 and 192 are beyond an `unsigned int`.
* Archives: sizes 0 to 4 with blocks of 2 bytes (empty, inside, at the end, behind),
  nesting, a `dev` of its own, a missing directory.
* Files: descriptors, nodes and sizes are capped by `MaxFds`, `MaxNodes`, `MaxSize` in
  the guards; two open files and two processes are what an aliased or shifted slot
  needs. `MaxDirty` caps the choice of junk.
* Locks: three processes are a holder that was cut, one that waits and one that goes on
  or leaves; `Kernel` creates no process beyond `MaxTasks`.
* Page tables: with 8 entries per table every level is crossed by the windows, the
  stack, the image, the interpreter at `LdBase` and the regions. One memory map ends
  below the 52 pages that stand for 128 MiB, so memory runs out before it leaves the
  windows; the other ends above them and above the window at `IoBase`, with room for the
  third process after two exits. A page has 80
  bytes, so segments begin and end inside pages, argument lists of both parities fit
  and one overruns the stack. A new `Task` has 1980 in `used_pages`, so that its first
  region lies above the stack at the end of the user half; the hints are a page
  of the image and the last page of the user half, where a region of two pages goes astray.
  The programs are a static one with a segment across a page boundary and a second one that
  begins on the page where the first ends, a dynamic one, an interpreter with an `INTERP`
  header of its own and
  one whose interpreter is missing.
* `MaxTasks` stops the creation of processes (`Stopped`). Deadlock is checked in
  every run: a machine that stops does so in a named state that stutters.

### Fairness

`KFairSpec` has weak fairness on `Interrupt` (the timer fires for ever, and
interrupts are enabled in user mode, `rflags` 0x202, in the trap gate and in
`kernel_main`'s idle loop) and on `Code` (the CPU goes on executing kernel code that
does not wait for a lock, for input or in a loop by itself). User code has none: a
process may loop for ever; nor has `Input`: nobody need type a line. Nothing is assumed of
the order in which ticks and code
interleave, so a tick may hit every critical section; the machine then stops, which
the liveness properties admit.

## 4. Proofs

All are checked by `tlapm` for every value of the constants that satisfies the named
assumptions; nothing is assumed besides.

### Scheduler (`SchedProofs`, from `SizeAssumption` and `SentinelAssumption`)

`Invariance`: `Spec => []IInv`, one step per action. `OwnContext` alone is not
inductive: a tick saves into `prev_task`, so `Runner` must say that `prev_task`
and `current_task` name the running task while the machine runs, and that the boot
code has none and switches at the first tick. A switch takes the task out of a
slot, so `Builders` must say that no slot, stale ones included, holds a task that
is still being built or never was. `ListExact` needs the same for pushes;
`LockFollowsRunning` needs it for nothing but the absence of other holders. `Counts`
ties the list's length to `current_pid` before the first exit, which is what makes
the index that `sys_execve` computes from a pid a slot. `IndexInList` stops at the
first exit, and at a process that is preempted while it creates another (`Quiet`):
`sched_dead_task` shows why.

From it: `ContextsAreTheirOwn`, `LockIsNeverAbandoned`, `FramesStay`, `ListIsExact`,
`IndexStaysInList`, and the action property `SyscallsAreNotResumed`. The lemmas on
`vec_push`, `vec_find`, `vec_splice` and `vec_remove` are in `VecProofs`.

### Locks and errors (`KernelProofs`, from the same assumptions)

`KernelImplementsSched`: `KSpec => Spec`. `KInvariance` joins `IInv` with
`SectionsFit`, `OnlyTheCutKeepLocks` and `ErrorsBelong`. `OnlyTheCutKeepLocks` is not
inductive alone: when a tick takes the CPU from a holder, the holder counts as cut
only if it is a task inside the kernel, so `SectionsFit` says that critical sections
lie ahead of kernel code only, and of `kernel_main` never once ticks can switch; for
the order of the locks it says that only the heap's lies inside the scheduler's
section. `ErrorsBelong` admits an error of the boot until a call has `ended`; that the boot
sets none later needs, in `SectionsFit`, that no call has ended while `kernel_main` still
runs. From it: `LocksOfTheCut`, `ErrorsOfTheCut`, and the action property
`LostForGood`, which also needs that no switch resumes a call that was cut.

### First stacks and address spaces (`ExecProofs`, from the assumptions of `PageTables` and `Exec`)

`StacksAreAligned`: for all argument lists, environments and programs, `rsp` at the
entry point is a multiple of 16. The lemmas count the words modulo 2 as the comment
at `sched.c:218` does; the invariant also covers the process that is still being
built, whose `rsp` is the top of the stack until `FillStack`.

The other four are for tables of every even size, every memory map, every layout and
every set of programs and calls: `FramesStayApart`, the refinement
`ExecIsAddressSpaces`, `KernelStaysShared` and `RegionsStayFresh`. What is assumed:

* `SizesAssumption`, `LayoutAssumption`, `ArgsAssumption`, `BootAssumption`: numbers are
  numbers, a table has an even number of entries, the boot code is no process. Nothing is
  assumed of the hints of `mmap` and of what is in `used_pages`: where they lead out of the user half
  the machine stops (`astray`), and what is proved is proved until then.
* `MemoriesAssumption`, `WindowsAssumption`: no entry of the memory map is longer than
  physical memory can be, and the windows at `MMAP_IO_BASE` and `MMAP_KERNEL_BASE` lie in
  the upper half without touching (`memory.h:4-5`).
* `UserAssumption`: stacks lie in the lower half.
* `ProgramsAssumption`: the segments of programs and interpreters lie in the lower half and
  have no more bytes in the file than in memory. `elf_load_program` tests neither; a file
  that breaks it writes into the kernel's half or behind the pages of its segment.

`FramesApart` is about what can be reached from page maps through four levels, which no
single step preserves for a reason of its own. `ExecInv` turns it into something local:
there are an owner and a level for every physical page (`own`, `lvl`; the invariant says
that they exist, the model does not have them) such that, `Held`, every present entry in
the part of a table that its owner may write (`Slot`: the lower half of a process's page
map, all of the tables below) leads to a page of the same owner, one level down (`Tree`), marked in
the bitmap, with the rights of its owner, and no two entries lead to the same page
(`Lone`); and such that every live process owns its page map and its stack (`Mine`), and
whoever owns a page is alive (`Living`). The kernel's windows do not lead to owned memory,
so the last level of its tables is not part of the forest.

`Grew` is what an operation for `t` does to such a machine: new pages were free, belong to `t`
and hold zeroes; tables of others stay as they are; so do the entries of `t` that were present, but for
those of the last level (a second segment or a fixed region may give a page anew). It is
proved of `pmm_allocate_zero`, `get_next_level` and `vmm_map` (`AllocateGrew`, `NextLevelGrew`,
`MapGrew`), composes (`GrewThen`), and so holds of the loops over pages (`MapRangeGrew`,
`RegionGrew`), each by the least number of rounds for which it would fail. `Extends` adds the
bytes that are written, which lie in pages of `t`. An allocation that fails stops the
machine in the middle: what was built so far still has owners, and nothing more is claimed.
`SpaceStep` shows that every action boots, extends the machine for one process, or leaves
memory alone and at most takes a process away; when a process exits its pages become
nobody's, freed or not.

* `FramesStayApart`: what the CPU reaches below a page map are pages of its owner
  (`NodesReached`, `TablesOwn`), and two owners share none.
* `ExecIsAddressSpaces`: `spaces` before and after the step differ as `AddressSpaces` allows.
  That a page of `t` keeps its place needs the digits of page numbers: two pages with the same
  four table indices are the same page (`PagesApart`).
* `KernelStaysShared` needs `WindowInv` (what of the windows is mapped, during the boot and
  after) and `CrInv`: CR3 holds the page map of the running process, and if that has exited,
  a page that still has the kernel's half: it may be freed by then, but nothing allocates
  before the next switch.
* `RegionsStayFresh` needs `RegionInv`: the regions that the kernel chose lie one above the
  other below `used_pages`, and every page of a region leads to a physical page without data
  (`Clean`). Others write bytes to their own pages only, and a process whose image is still
  being written has no regions.

### Physical memory (`PmmProofs`, from `MapAssumption`)

* `PmmTypeCorrect` for all request sizes (cutting the bitmap off an entry leaves a
  length that is not negative).
* `NothingGivenTwiceBeforeAFree` for all request sizes: before a free or a refusal,
  the pages in use are a prefix in scan order, so the one tested bit is enough.
* `LeavesTheBitmapOnlyAtTheEdge` for all request sizes: how far `pmm_initialize` and the
  scan reach is bounded by the size of the bitmap before rounding, so a bit that is not
  there is missing for one of the two reasons of `StrayOnlyAtTheEdge`.
* `BitmapIsExact`, `OnlyUsablePagesAreHeld`, `DataIsKept` and `RefusedOnlyWhenNoneLeft` for
  all request sizes, with frees and refusals in any order, until the records are damaged.
  They show that the two ways of `Undamaged` are the only ones. `PInv` joins
  `Apart` (every usable page has a bit below `highest_page`, and the bitmap's own pages are
  not usable), `Exact` (a clear bit is a usable page without an owner, blocks are disjoint,
  `usable_pages` is the number of clear bits) and `Kept`. None is inductive alone: that an
  allocation leaves the bits alone that it does not mark needs `Apart`, since its memset
  would clear bits in the bitmap's pages; that it
  takes off `usable_pages` what it should, and a free adds it, needs disjoint blocks and the
  size of a run (`RunSize`, `Counting`).

### Heap (`HeapProofs`, from `HeapAssumption`, `WidthAssumption`, `SizesAssumption`)

Four theorems, for every size of a page, a tag and an `int`, every set of requests
whatever their size, every number of pages and every answer of the hook: `HeapTagsExact`,
`HeapTablesExact`, `HeapPayloadFits`, and the
refinement `HeapIsAllocator`. They rest on `HeapInv`: the heap is `Good` with the
pointers of callers as the tags in no list, and every such piece has room for its header and
for what an `unsigned int` keeps of the size that was asked for, when the machine runs and
when it has stopped (`page0`, `overlap`, `wrapped`). That a block is large enough for this and is
not cut short by the arithmetic is what `Served` gives: a size that wraps with its header
stops the model.

`Good(h, pg, B)` takes the set `B` of tags that are in no list as a parameter, because
inside a call this set is not what callers have: `malloc` takes a tag off its list before
it splits it, `free` has the tag it is given, and then the melted one, in no list until
`insert_tag`. Each of the C functions is shown to lead from a good heap with one such set
to a good heap with another (`TakeGood`, `AllocateGood`, `SplitGood`, `SwallowGood`,
`InsertGood`, `DropGood`), and the calls are put together from these (`MallocGood`,
`FreeGood`). Its parts, and what each is for:

* `Geometry`: pieces are separate, cover the pages of the heap, agree with their
  neighbours, and lie in blocks of whole pages, one of which begins where there is no
  `split_left` and ends where there is no `split_right`. `TagsExact` does not speak of
  blocks, but `free` computes from a whole block's size how many pages to give back, and
  only the blocks make that exact (`WholeBlock`).
* `Lists`: `next` and `prev` are inverse, the front of a list has no `prev`, tags of a list
  have its index, and there is a rank that falls along `next`. The rank keeps a list from
  being a ring beside the one that starts at `l_freePages`; with it the walk along `next`
  ends within as many steps as there are tags and meets every tag of the index
  (`NthEnds`, `NthReaches`), which turns the local links into the sets of `TablesExact`.
* `Indexed`, `Apart`, `Counts`: a free tag is in the list of its size, has no free
  neighbour, and the whole blocks of a list are counted and at most `MaxComplete`.

`Apart` makes the loops of `free` stop after one round each: what lies beyond a free
neighbour is in use (`MeltLeftOnce`, `MeltRightOnce`). What the recursive functions yield is
proved from a general lemma (`Loop`: a function on a set, iterated, exists and is unique)
and the least number that fails (`LeastNumber`), not by the library's induction.
`RestIsRight` is where the `unsigned int` of `malloc`'s remainder matters: it goes below
zero by less than a header, so it wraps to a number that is negative as an `int`.

### Files (`VfsProofs`, `FilesProofs`, from `JunkAssumption`, `BlockAssumption`, `ArchiveAssumption`, `FilesAssumption`)

The assumptions say that junk is told apart from every pointer and descriptor, that a
block has a size, that names in an archive are as tar writes them (not empty, no `/` in
front, one behind those of directories), and what kinds of values processes pass.

The lookups (`vfs_find_node`, `vfs_get_parent`) and the layout of an archive are
recursive functions. Nothing is proved about which node they find: the lemmas show
that every pointer they yield is a node of the tree, NULL, junk or a stop, by the least
number of steps for which that would fail (`LeastNumber`, from the well-foundedness of
`<`). For the archive the same argument gives the positions of its headers
(`FlattenStarts`, `ArchivePlaces`).

`Extends(t, u)` is what every operation of `Vfs` does to a tree: nodes are added, each
with a buffer that is large enough and not freed; a list of children only grows, by
nodes that are new; the other fields but the mode stay. `Linked` is not inductive: that
the child just added is in no other list needs that all children are nodes of the tree
(`IsTree`), older than the new one. `BootInv` adds that `address` is one of the
positions of headers. `FilesInv` joins it with, for every task, a table whose used slots
were all written and whose length is `current_fd`, and with `Sound`: a buffer that is
freed belongs to a file that was closed, and a file that was only written at its end
fits its buffer. `GentleInv` says what the discipline of `gentle` buys (section 2; no file
that was closed is closed, opened or executed again): every descriptor
a process holds is below the length of its table, leads to the file it was opened on,
and that file was never closed. It needs the content of the slot that falls out of use
in `vec_splice` (`SpliceCloses`), where `sys_close` looks the file up.

From it: `TreeStaysExact`, `ReadsHeaders`, `NumbersAreSlots`, `BuffersHaveRoom`,
`GentleCallsAreRight`, `GentleCallsAreSafe`; and `ErrorsAreOwn`, under the hypothesis
`CleanBoot` that unpacking the archive left no error (it may: a directory whose parent
is missing leaves `ENOENT`, which the first system call reports).

### Only model-checked

* Liveness (`EveryTaskRuns`, `ExitTakesEffect`, `CallsEnd`): out of the prover's reach.
* `PathsLead`, `Unpacked` (of `ArchiveRead`; its other half is `ReadsHeaders`) and
  `MountsApart`: which node a path leads to is what the recursive lookups compute.
* `ArgsInPlace`: where a string lies is the sum of the lengths before it, which a fold over
  the lists computes.
* `ImageInPlace`: which bytes of a half-loaded image are in place, segment by segment.
* `FaultsOnlyHighUp`: it speaks of the instance, where no request is larger than a stack.

## 5. Not modelled

* `vmm_unmap`: called by nobody.
* The FPU area of a task, and the test of `intno` after a switch (`hazards`): both are
  about the bytes of heap blocks, which the scheduler's model does not have.
* `Heap` over `Pmm` in one state space: `Heap` takes any answer of the hook, and what the
  heap does with pages that are not its own alone is not followed.
* What `Exec` and `Pmm` do after a page was given twice, and what `mmap` does to the kernel's half:
  the models stop there.
* What `log` prints, `set_fs`, formatting, drivers, CPU set-up: no state that another part reads.
* `ustar_read`, `ustar_write`, `ustar_fs`, and the vector macros nobody calls.
* The C library patch, the compilers' patches, build files, user programs.

## 6. Plan

1. *(done)* `Vec`, `Sched`, and the scheduler's proofs: the core of the kernel.
2. *(done)* `Pmm` and its proofs, for requests of all sizes.
3. *(done)* `BoundaryTags`, `Heap`, `Allocator`.
4. *(done)* `Vfs`, `RootFs`, `Files`.
5. *(done)* `PageTables`, `ExecStack`, `AddressSpaces`, `Exec` and the alignment proof.
6. *(done)* `Kernel` and its proofs.
7. *(done for the answers)* `Heap` with every answer of the hook; still open: the heap's pages in
   `Exec`, and `Heap` over `Pmm` in one state space.
8. *(done)* Proofs of the tree, the descriptors, the buffers and the errors of the files.
9. *(done)* Proofs of the heap: tags, lists, counts, payloads and the refinement.
10. *(done)* Proofs of the address spaces: one use per page, the refinement, the kernel's
   half, fresh regions.
