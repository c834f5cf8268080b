------------------------------- MODULE Kernel -------------------------------
(***************************************************************************)
(* The other locks and the error number of bestOS under preemption.        *)
(*                                                                         *)
(* Sched cuts kernel code at the points where the scheduler's state        *)
(* changes.  Between them the same code enters four more critical          *)
(* sections: the heap (liballoc_lock in main.c), the page tables (vmm_map),*)
(* sys_log and the terminal (devfs_write).  The timer can interrupt each   *)
(* of them, and sched_tick looks at none of these locks before it          *)
(* switches.  errno is one global, set anywhere in a system call, and at   *)
(* boot, and read when a call ends.                                        *)
(*                                                                         *)
(* A step of Sched is taken here when its code is through its critical     *)
(* sections.  A section that is entered several times between two points   *)
(* of Sched is entered once.  Two calls also wait where no lock is: a read *)
(* of the terminal for a line, and an mmap that is not anonymous for ever. *)
(***************************************************************************)
EXTENDS Sched

Lock == {"heap", "vmm", "log", "write_lock"}

\* devfs_read polls the serial port until a carriage return; vmm_mmap ends in
\* while (1) when MAP_ANONYMOUS is not set.
Wait == {"input", "loop"}

VARIABLES
    held,     \* the context that took each lock, NoTask if it is free
    todo,     \* the sections and waits before the next step of the running code
    errno,    \* the context whose code set errno, NoTask if it is 0
    ended     \* history: a system call has come to its end

kvars == <<vars, held, todo, errno, ended>>

\* The code before sched_init mounts the file systems and unpacks the RAM
\* disk: a missing parent directory leaves ENOENT in errno.
KInit ==
    /\ Init
    /\ held = [l \in Lock |-> NoTask]
    /\ todo = <<>>
    /\ errno \in {NoTask, Boot}
    /\ ended = FALSE

\* sched_new_elf_process: vmm_map for the stack, malloc of the file's buffer.
LoadSections == <<"vmm", "heap">>

\* vec_expand_ calls realloc when the list is full, under the sched lock.
PushSections ==
    IF processes.length + 1 > Capacity(processes) THEN <<"heap">> ELSE <<>>

\* A read of the terminal: malloc, the poll for input, free.
ReadSections == <<"heap", "input", "heap">>

\* sys_log, sys_mmap, sys_openat and sys_close, sys_write to and sys_read
\* from the terminal; the others take no lock.
CallSections == {<<>>, ReadSections, <<"loop">>} \cup {<<l>> : l \in Lock}

\* vec_deinit in sys_exit; free(NULL) returns before it takes the lock.
ExitSections == {<<>>, <<"heap">>}

\* The critical sections that the code at p may go through.
Sections(p) ==
    CASE p = "task_init" -> {<<"heap">>}
      [] p = "load"      -> {LoadSections}
      [] p = "push"      -> {PushSections}
      [] p = "syscall"   -> CallSections
      [] p = "die"       -> ExitSections
      [] OTHER           -> {<<>>}

\* The running code is about to enter a section, or in a wait, of s.
Ahead(s) == halt = "none" /\ todo # <<>> /\ Head(todo) \in s

\* Faulty variant: the result of the test is ignored.
TakeUntested ==
    /\ Ahead(Lock)
    /\ held[Head(todo)] # running
    /\ held' = [held EXCEPT ![Head(todo)] = running]
    /\ UNCHANGED <<vars, todo, errno, ended>>

\* spin_lock: the running code goes on once the lock is free.
Take ==
    /\ Ahead(Lock)
    /\ held[Head(todo)] = NoTask
    /\ held' = [held EXCEPT ![Head(todo)] = running]
    /\ UNCHANGED <<vars, todo, errno, ended>>

\* Faulty variant: a way out of the section that skips spin_release.
ReleaseForgotten ==
    /\ Ahead(Lock)
    /\ held[Head(todo)] = running
    /\ todo' = Tail(todo)
    /\ UNCHANGED <<vars, held, errno, ended>>

\* spin_release.
Release ==
    /\ Ahead(Lock)
    /\ held[Head(todo)] = running
    /\ held' = [held EXCEPT ![Head(todo)] = NoTask]
    /\ todo' = Tail(todo)
    /\ UNCHANGED <<vars, errno, ended>>

\* com_getc returned the end of a line.  Nothing takes "loop" off.
Input ==
    /\ Ahead({"input"})
    /\ todo' = Tail(todo)
    /\ UNCHANGED <<vars, held, errno, ended>>

\* What follows the critical sections.
Through ==
    /\ todo = <<>>
    /\ todo' \in Sections(regs'[running].pc)
    /\ UNCHANGED held

\* A system call, or the opens of sched_new_elf_process, may fail and set
\* errno; a stdio file that is missing is logged and the load goes on.
Body ==
    /\ SyscallBody \/ LoadElf
    /\ Through
    /\ errno' \in {errno, running}
    /\ UNCHANGED ended

\* Faulty variant: the error is reported and stays.
DispatchKeepsErrno ==
    /\ Return
    /\ Through
    /\ ended' = TRUE
    /\ UNCHANGED errno

\* The end of syscall_dispatch: a pending error is reported to this call,
\* whoever set it, and cleared.
Dispatch ==
    /\ Return
    /\ Through
    /\ errno' = NoTask
    /\ ended' = TRUE

\* Kernel code that leaves errno alone.
Other ==
    /\ \/ SchedInit \/ TaskInit \/ LoadMissingFile
       \/ PushLock \/ Push \/ PushRelease \/ SchedStart
       \/ SetIndex \/ SetTick \/ RemoveLock \/ Remove \/ RemoveRelease \/ Die
    /\ Through
    /\ UNCHANGED <<errno, ended>>

\* int 0x42.  Processes are created up to the bound MaxTasks.
Trap ==
    /\ \/ current_pid < MaxTasks /\ SysExecve
       \/ SysExit
       \/ SysOther
    /\ Through
    /\ UNCHANGED <<errno, ended>>

\* The timer takes the CPU from the running code wherever it is; only one
\* that gets it back at once is still where it was.
Interrupt ==
    /\ Tick
    /\ todo' = IF running' = running THEN todo ELSE <<>>
    /\ UNCHANGED <<held, errno, ended>>

Code == Take \/ Release \/ Body \/ Dispatch \/ Other

Halted == halt # "none" /\ UNCHANGED kvars

KNext == Code \/ Input \/ Trap \/ Interrupt \/ Halted

KSpec == KInit /\ [][KNext]_kvars

\* The timer keeps firing, and the CPU executes kernel code that does not
\* wait for a lock; user code may loop for ever, and nobody need type.
KFairSpec == KSpec /\ WF_kvars(Interrupt) /\ WF_kvars(Code)

-----------------------------------------------------------------------------
(* Properties.                                                             *)

\* A system call that lost the CPU before its end.
Cut(t) == t # running /\ NeedsFrame(regs[t].pc)

\* Type correctness of the locks, the sections ahead and the error number.
KTypeOK ==
    /\ held \in [Lock -> Context \cup {NoTask}]
    /\ todo \in Seq(Lock \cup Wait)
    /\ errno \in Context \cup {NoTask}
    /\ ended \in BOOLEAN

\* The only locks that running code finds taken are those of calls that were
\* cut inside the section: no path returns to user code, ends sys_exit or
\* goes on to the next step with a lock, none takes a lock twice, and the
\* heap lock is the only one taken inside the scheduler's.
OnlyTheCutKeepLocks ==
    halt = "none" => \A l \in Lock :
        /\ held[l] = running => todo # <<>> /\ l = Head(todo)
        /\ held[l] = running /\ lock => l = "heap"
        /\ held[l] \notin {NoTask, running} => held[l] \in Task /\ Cut(held[l])

\* The running code does not have l and cannot get it.
Lost(l) == held[l] \notin {NoTask, running}

\* A lock that a switch took away from the running code is lost as long as
\* the machine runs: sched_tick looks at none of these locks, and a system
\* call that was cut does not go on.
LostLocksStayLost ==
    [][\A l \in Lock : Lost(l) /\ halt' = "none"
                         => Lost(l)' /\ held'[l] = held[l]]_kvars

\* What is left of a call once its files were opened.
Opened == {"push_lock", "push", "push_release", "set_index", "set_tick",
           "return"}

\* errno is one variable for all processes, but an error that is pending
\* belongs to the running call, to one that was cut before it could report
\* it, or to the boot while no call has ended: the first call to end is told
\* of an error of the boot, and after it, as long as no call is cut, no
\* process is told of another's error.
ErrorsBelong ==
    halt = "none" /\ errno # NoTask
        => \/ errno = running /\ regs[running].pc \in Opened
           \/ Cut(errno)
           \/ errno = Boot /\ ~ended

InCall(t) == regs[t].pc \notin {"user", "dead"}

\* A process that left the list holds the heap lock: it was cut in the free
\* of vec_deinit, at the end of sys_exit.
HeapDied == \E t \in Task : /\ held["heap"] = t
                             /\ t # running /\ regs[t].pc = "die"

\* t reads the terminal and no line has come, or asked for an mmap that is
\* not anonymous.
Waits(t) == running = t /\ Ahead(Wait)

\* Every system call ends, unless the machine stops, the process has left the
\* list, or it is one that waits for input or loops by itself.  A call that
\* waits for a lock whose holder was cut does not wait for ever, because the
\* holder is still in the round robin and to resume it stops the machine; the
\* one holder that never comes back is a process that was cut while sys_exit
\* freed its descriptors.
CallsEnd ==
    \A t \in Task : InCall(t) ~> \/ ~InCall(t) \/ halt # "none"
                                 \/ t \notin Elements(processes)
                                 \/ Waits(t) \/ HeapDied

-----------------------------------------------------------------------------
(* The inductive invariant behind OnlyTheCutKeepLocks, LostLocksStayLost   *)
(* and ErrorsBelong.                                                       *)

\* Critical sections lie ahead only of kernel code, inside the scheduler's
\* own section only that of the heap, and not of kernel_main once a tick can
\* take the CPU from it.  While kernel_main runs no system call has ended.
SectionsFit ==
    halt = "none" =>
        /\ todo # <<>> => NeedsFrame(regs[running].pc)
        /\ regs[running].pc \in Critical => todo \in {<<>>, <<"heap">>}
        /\ running = Boot /\ started => regs[Boot].pc = "idle" /\ todo = <<>>
        /\ running = Boot => ~ended

KInv ==
    /\ IInv
    /\ KTypeOK
    /\ SectionsFit
    /\ OnlyTheCutKeepLocks
    /\ ErrorsBelong
=============================================================================
