------------------------------- MODULE Sched -------------------------------
(***************************************************************************)
(* Preemptive scheduling in bestOS: kernel/sched.c, the interrupt handler  *)
(* of kernel/arch/interrupts.c and the two system calls that change the    *)
(* process list, sys_exit and sys_execve.                                  *)
(*                                                                         *)
(* There is one CPU.  System calls enter through a trap gate, so the timer *)
(* can interrupt them anywhere; the timer enters through an interrupt      *)
(* gate, so its handler runs to its end with interrupts off and is one     *)
(* step here.  A handler that can never end (it spins on a lock that the   *)
(* interrupted code holds, or halts with interrupts off) stops the machine *)
(* and is recorded in halt, as are the steps after which C gives the       *)
(* program no meaning.                                                     *)
(*                                                                         *)
(* All kernel code runs on one stack: bootstrap.c's array is the boot stack and *)
(* tss.rsp[0].  A trap from user mode starts again at its top, over the    *)
(* frames of every other context that is still inside the kernel.          *)
(***************************************************************************)
EXTENDS Vec

CONSTANTS MaxTasks,     \* bound: processes ever created
          SwitchTick,   \* SWITCH_TICK, timer ticks per time slice
          Boot,         \* the context that runs kernel_main
          NoTask        \* NULL

ASSUME SizeAssumption == MaxTasks \in Nat \ {0} /\ SwitchTick \in Nat \ {0}

Task == 0..MaxTasks - 1            \* a Task * is named by its pid
Context == Task \cup {Boot}

ASSUME SentinelAssumption ==
    /\ Boot \notin Task /\ NoTask \notin Task /\ Junk \notin Task
    /\ Boot # NoTask /\ Boot # Junk /\ NoTask # Junk

VARIABLES
    processes,     \* vec_t(Task *)
    index,         \* next slot of processes to run
    current_tick,
    current_task,
    prev_task,     \* interrupts.c: whose registers the next tick saves
    lock,          \* sched.c's spin lock
    started,
    current_pid,   \* the next pid
    dead,          \* the tasks whose state field is -1
    saved,         \* Task.stack: the registers of a preempted task
    running,       \* the context whose code the CPU executes
    regs,          \* where each context really is
    kframe,        \* whose trap frame is at the top of the kernel stack
    halt           \* "none" while the machine runs

sched == <<processes, index, current_tick, current_task, lock, started,
           current_pid>>
vars == <<sched, prev_task, dead, saved, running, regs, kframe, halt>>

-----------------------------------------------------------------------------
(* Registers: a program point and the one local variable that outlives a   *)
(* preemption, the task that sched_new_elf_process is building.            *)

Pc == {"boot", "task_init", "load", "push_lock", "push", "push_release",
       "start", "idle", "user", "syscall", "set_index", "set_tick", "return",
       "remove_lock", "remove", "remove_release", "die", "dead"}

Registers == [pc : Pc, new : Task \cup {NoTask}]

At(p) == [pc |-> p, new |-> NoTask]

\* Contexts between spin_lock(&lock) and spin_release(&lock).
Critical == {"push", "push_release", "remove", "remove_release"}

\* Code that will still use its frames on the kernel stack: neither user
\* code nor the empty loop that ends sys_exit.
NeedsFrame(p) == p \notin {"user", "dead"}

Init ==
    /\ processes = VecInit
    /\ index = 0
    /\ current_tick = 9
    /\ current_task = NoTask
    /\ prev_task = NoTask
    /\ lock = FALSE
    /\ started = FALSE
    /\ current_pid = 0
    /\ dead = {}
    /\ saved = [t \in Task |-> [who |-> t, regs |-> At("user")]]
    /\ running = Boot
    /\ regs = [c \in Context |-> At(IF c = Boot THEN "boot" ELSE "user")]
    /\ kframe = NoTask
    /\ halt = "none"

-----------------------------------------------------------------------------
(* Code of the running context.                                            *)

Running(p) == halt = "none" /\ regs[running].pc = p

Goto(p) == regs' = [regs EXCEPT ![running].pc = p]

\* Faulty variant: sched_init leaves the tick at the start of a slice.
SchedInitColdTick ==
    /\ Running("boot")
    /\ processes' = VecInit
    /\ current_tick' = 0
    /\ Goto("task_init")
    /\ UNCHANGED <<index, current_task, lock, started, current_pid, prev_task,
                   dead, saved, running, kframe, halt>>

\* kernel_main calls sched_init, then sched_new_elf_process("/bin/init").
SchedInit ==
    /\ Running("boot")
    /\ processes' = VecInit
    /\ current_tick' = SwitchTick - 1
    /\ Goto("task_init")
    /\ UNCHANGED <<index, current_task, lock, started, current_pid, prev_task,
                   dead, saved, running, kframe, halt>>

\* A new Task with the next pid, its registers set to start in user mode.
TaskInit ==
    /\ Running("task_init")
    /\ current_pid < MaxTasks
    /\ current_pid' = current_pid + 1
    /\ saved' = [saved EXCEPT ![current_pid] =
                    [who |-> current_pid, regs |-> At("user")]]
    /\ regs' = [regs EXCEPT ![running] = [pc |-> "load", new |-> current_pid]]
    /\ UNCHANGED <<processes, index, current_tick, current_task, lock, started,
                   prev_task, dead, running, kframe, halt>>

\* The image is read and mapped, the stack is filled.
LoadElf ==
    /\ Running("load")
    /\ Goto("push_lock")
    /\ UNCHANGED <<sched, prev_task, dead, saved, running, kframe, halt>>

\* vfs_open returned NULL: elf_file->stat faults and the handler of
\* exception 14 stops the machine.
LoadMissingFile ==
    /\ Running("load")
    /\ halt' = "panic"
    /\ UNCHANGED <<sched, prev_task, dead, saved, running, regs, kframe>>

SpinLock(from, to) ==
    /\ Running(from)
    /\ lock = FALSE
    /\ lock' = TRUE
    /\ Goto(to)
    /\ UNCHANGED <<processes, index, current_tick, current_task, started,
                   current_pid, prev_task, dead, saved, running, kframe, halt>>

SpinRelease(from, to) ==
    /\ Running(from)
    /\ lock' = FALSE
    /\ Goto(to)
    /\ UNCHANGED <<processes, index, current_tick, current_task, started,
                   current_pid, prev_task, dead, saved, running, kframe, halt>>

PushLock == SpinLock("push_lock", "push")

Push ==
    /\ Running("push")
    /\ processes' = vec_push(processes, regs[running].new)
    /\ Goto("push_release")
    /\ UNCHANGED <<index, current_tick, current_task, lock, started,
                   current_pid, prev_task, dead, saved, running, kframe, halt>>

\* sched_new_elf_process returns to kernel_main or to sys_execve.
PushRelease ==
    SpinRelease("push_release", IF running = Boot THEN "start" ELSE "set_index")

SchedStart ==
    /\ Running("start")
    /\ started' = TRUE
    /\ Goto("idle")
    /\ UNCHANGED <<processes, index, current_tick, current_task, lock,
                   current_pid, prev_task, dead, saved, running, kframe, halt>>

\* int 0x42 from user mode: the frame goes to the top of the kernel stack.
Syscall(entry) ==
    /\ running \in Task
    /\ Running("user")
    /\ regs' = [regs EXCEPT ![running] = At(entry)]
    /\ kframe' = running
    /\ UNCHANGED <<sched, prev_task, dead, saved, running, halt>>

SysExecve == Syscall("task_init")
SysExit == Syscall("remove_lock")
SysOther == Syscall("syscall")

\* sys_execve: sched_set_index(sched_get_last_pid() - 2).
SetIndex ==
    /\ Running("set_index")
    /\ index' = current_pid - 2
    /\ Goto("set_tick")
    /\ UNCHANGED <<processes, current_tick, current_task, lock, started,
                   current_pid, prev_task, dead, saved, running, kframe, halt>>

SetTick ==
    /\ Running("set_tick")
    /\ current_tick' = SwitchTick - 1
    /\ Goto("return")
    /\ UNCHANGED <<processes, index, current_task, lock, started, current_pid,
                   prev_task, dead, saved, running, kframe, halt>>

\* The body of a system call that leaves the scheduler alone.
SyscallBody ==
    /\ Running("syscall")
    /\ Goto("return")
    /\ UNCHANGED <<sched, prev_task, dead, saved, running, kframe, halt>>

\* iretq pops the frame.
Return ==
    /\ Running("return")
    /\ regs' = [regs EXCEPT ![running] = At("user")]
    /\ kframe' = NoTask
    /\ UNCHANGED <<sched, prev_task, dead, saved, running, halt>>

RemoveLock == SpinLock("remove_lock", "remove")

Remove ==
    /\ Running("remove")
    /\ processes' = vec_remove(processes, current_task)
    /\ Goto("remove_release")
    /\ UNCHANGED <<index, current_tick, current_task, lock, started,
                   current_pid, prev_task, dead, saved, running, kframe, halt>>

RemoveRelease == SpinRelease("remove_release", "die")

\* The rest of sys_exit: state, exit_code, the freed pages; then for (;;).
Die ==
    /\ Running("die")
    /\ dead' = dead \cup {current_task}
    /\ Goto("dead")
    /\ UNCHANGED <<sched, prev_task, saved, running, kframe, halt>>

Step ==
    \/ SchedInit \/ TaskInit \/ LoadElf \/ LoadMissingFile
    \/ PushLock \/ Push \/ PushRelease \/ SchedStart
    \/ SysExecve \/ SetIndex \/ SetTick
    \/ SysExit \/ RemoveLock \/ Remove \/ RemoveRelease \/ Die
    \/ SysOther \/ SyscallBody \/ Return

-----------------------------------------------------------------------------
(* Interrupt 32, the timer.                                                *)

\* prev_task->stack = *stack
Saved ==
    IF prev_task = NoTask THEN saved
    ELSE [saved EXCEPT ![prev_task] = [who |-> running, regs |-> regs[running]]]

\* Faulty variant: a tick from user mode leaves the top of the stack alone.
FrameKept == kframe

\* The handler's own frame: below the frames of the interrupted kernel code
\* when the top of the stack is its own, otherwise over what was there.
FrameAfterTick ==
    IF regs[running].pc # "user" /\ kframe = running THEN kframe ELSE NoTask

\* Faulty variant: prev_task is not moved to the new task.
SwitchToKeepsPrev(t) ==
    /\ saved' = Saved
    /\ kframe' = FrameAfterTick
    /\ prev_task' = IF prev_task = NoTask THEN t ELSE prev_task
    /\ IF t \in Task
       THEN LET s == Saved[t]
            IN  /\ running' = s.who
                /\ regs' = [regs EXCEPT ![s.who] = s.regs]
                /\ halt' = IF NeedsFrame(s.regs.pc) /\ FrameAfterTick # s.who
                           THEN "wild" ELSE "none"
       ELSE /\ halt' = "junk"
            /\ UNCHANGED <<running, regs>>

\* *stack = new_task->stack, and iretq.
SwitchTo(t) ==
    /\ prev_task' = t
    /\ saved' = Saved
    /\ kframe' = FrameAfterTick
    /\ IF t \in Task
       THEN LET s == Saved[t]
            IN  /\ running' = s.who
                /\ regs' = [regs EXCEPT ![s.who] = s.regs]
                /\ halt' = IF NeedsFrame(s.regs.pc) /\ FrameAfterTick # s.who
                           THEN "wild" ELSE "none"
       ELSE /\ halt' = "junk"
            /\ UNCHANGED <<running, regs>>

TickEnabled == halt = "none" /\ started

\* while (processes.length == 0) hlt, with interrupts off.
TickNoProcess ==
    /\ TickEnabled
    /\ processes.length = 0
    /\ saved' = Saved
    /\ halt' = "noproc"
    /\ UNCHANGED <<sched, prev_task, dead, running, regs, kframe>>

\* spin_lock on a lock that only the interrupted code can release.
TickSpins ==
    /\ TickEnabled
    /\ processes.length # 0
    /\ lock = TRUE
    /\ saved' = Saved
    /\ halt' = "spin"
    /\ UNCHANGED <<sched, prev_task, dead, running, regs, kframe>>

SliceOver == current_tick + 1 >= SwitchTick

TickStay ==
    /\ TickEnabled
    /\ processes.length # 0
    /\ lock = FALSE
    /\ ~SliceOver
    /\ current_tick' = current_tick + 1
    /\ SwitchTo(current_task)
    /\ UNCHANGED <<processes, index, current_task, lock, started, current_pid,
                   dead>>

\* Faulty variant: the wrap-around comes one slot late.
NextSlotLate == IF index > processes.length THEN 0 ELSE index

NextSlot == IF index = processes.length THEN 0 ELSE index

\* Faulty variant: sched_tick does not take the lock.
TickSwitchUnlocked ==
    /\ TickEnabled
    /\ processes.length # 0
    /\ SliceOver
    /\ current_tick' = 0
    /\ index' = NextSlot + 1
    /\ current_task' = VecAt(processes, NextSlot)
    /\ SwitchTo(VecAt(processes, NextSlot))
    /\ UNCHANGED <<processes, lock, started, current_pid, dead>>

\* Faulty variant: index is not advanced.
TickSwitchStuck ==
    /\ TickEnabled
    /\ processes.length # 0
    /\ lock = FALSE
    /\ SliceOver
    /\ current_tick' = 0
    /\ index' = NextSlot
    /\ current_task' = VecAt(processes, NextSlot)
    /\ SwitchTo(VecAt(processes, NextSlot))
    /\ UNCHANGED <<processes, lock, started, current_pid, dead>>

TickSwitch ==
    /\ TickEnabled
    /\ processes.length # 0
    /\ lock = FALSE
    /\ SliceOver
    /\ current_tick' = 0
    /\ index' = NextSlot + 1
    /\ current_task' = VecAt(processes, NextSlot)
    /\ SwitchTo(VecAt(processes, NextSlot))
    /\ UNCHANGED <<processes, lock, started, current_pid, dead>>

Tick == TickNoProcess \/ TickSpins \/ TickStay \/ TickSwitch

-----------------------------------------------------------------------------
\* A machine that has stopped, or the bound on created processes.
Stopped ==
    /\ \/ halt # "none"
       \/ Running("task_init") /\ current_pid = MaxTasks
    /\ UNCHANGED vars

Next == Step \/ Tick \/ Stopped

Spec == Init /\ [][Next]_vars

-----------------------------------------------------------------------------
(* Properties.                                                             *)

HaltReason == {"none", "panic", "wild", "junk", "noproc", "spin"}

\* Type correctness.  The static initial value 9 of current_tick is replaced
\* by sched_init before the first tick can read it.
TypeOK ==
    /\ processes \in VecOf(Task)
    /\ processes.length <= Capacity(processes)
    /\ index \in Nat
    /\ current_tick \in Nat
    /\ current_task \in Task \cup {NoTask, Junk}
    /\ prev_task \in Task \cup {NoTask, Junk}
    /\ lock \in BOOLEAN
    /\ started \in BOOLEAN
    /\ current_pid \in 0..MaxTasks
    /\ dead \subseteq Task
    /\ saved \in [Task -> [who : Context, regs : Registers]]
    /\ running \in Context
    /\ regs \in [Context -> Registers]
    /\ kframe \in Task \cup {NoTask}
    /\ halt \in HaltReason

\* A descheduled task is resumed exactly where it was: its Task.stack holds
\* its own registers, never those of the context that a tick interrupted.
\* interrupts_handler saves into prev_task while sched_tick decides by
\* current_task and index, and exec and exit change those in between.
OwnContext ==
    \A t \in Task \ {running} : saved[t] = [who |-> t, regs |-> regs[t]]

\* The spin lock of sched.c is held exactly while the running context is
\* inside a critical section: no context is switched out holding it, so
\* sched_push and sched_remove never wait for a preempted owner.
LockFollowsRunning ==
    /\ lock <=> regs[running].pc \in Critical
    /\ \A c \in Context \ {running} : regs[c].pc \notin Critical

\* While the machine runs, kernel code that the CPU executes on behalf of a
\* task still has its frames at the top of the kernel stack that all tasks
\* share through tss.rsp[0].
FrameIntact ==
    halt = "none" /\ running \in Task /\ NeedsFrame(regs[running].pc)
        => kframe = running

\* A switch that the machine survives never resumes a task inside a system
\* call: a system call either finishes within the time slice it began in or
\* its frames are lost.  So system calls of different tasks never interleave.
SwitchesResumeUserCode ==
    [][running' # running /\ halt' = "none"
           => ~NeedsFrame(regs'[running'].pc)]_vars

Created == 0..current_pid - 1

\* sched_remove has taken t off the list.
Left(t) == regs[t].pc \in {"remove_release", "die", "dead"}

\* c is building a process that it has not pushed yet.
Building(c) == regs[c].pc \in {"load", "push_lock", "push"}

\* The process list holds every process that was created, except those that
\* exit took off and those whose creation is not finished, each of them once;
\* whatever a stale slot of the vector, an exec or a tick did in between.
ListExact ==
    /\ Elements(processes) =
          {t \in Created : ~Left(t) /\ ~\E c \in Context :
                                         Building(c) /\ regs[c].new = t}
    /\ \A i, j \in 1..processes.length :
          processes.data[i] = processes.data[j] => i = j

\* No process has exited, and none was preempted while creating another.
Quiet ==
    /\ \A t \in Task : ~Left(t)
    /\ \A c \in Context \ {running} : ~Building(c)

\* Until the first exit, index stays inside the list, although sched_tick
\* tests it for equality with the length only and sys_execve computes it from
\* pids: the scheduler never loads a slot that is out of use.
IndexInList ==
    Quiet => /\ halt = "none" => index <= processes.length
             /\ halt # "junk"

\* Every process on the list gets the CPU again, unless the machine stops.
\* The round robin must reach it although exec and exit move slots and index.
EveryTaskRuns ==
    \A t \in Task : t \in Elements(processes) ~> (running = t \/ halt # "none")

\* A process that has called exit leaves the list, unless the machine stops:
\* it is not kept waiting for the lock and no tick brings it back.
ExitTakesEffect ==
    \A t \in Task : regs[t].pc = "remove_lock"
        ~> (t \notin Elements(processes) \/ halt # "none")

\* Task.state is -1 for a dead task (sched.h): sched_tick never hands the
\* CPU to one.
DeadStayOff ==
    [][TickSwitch => current_task' \notin dead]_vars

-----------------------------------------------------------------------------
(* The inductive invariant behind OwnContext, LockFollowsRunning,          *)
(* FrameIntact, ListExact and IndexInList.                                 *)

\* The processes whose creation is finished, on the list or not any more.
Pushed == Created \ {regs[c].new : c \in {d \in Context : Building(d)}}

\* A process under construction has one builder, does not run and is in no
\* slot of the vector, stale slots included.
Builders ==
    /\ \A c \in Context : Building(c) => regs[c].new \in Created
    /\ \A c, d \in Context :
          Building(c) /\ Building(d) /\ regs[c].new = regs[d].new => c = d
    /\ running \in Pushed \cup {Boot}
    /\ \A t \in Task \ Pushed : regs[t] = At("user")
    /\ \A i \in 1..Capacity(processes) :
          processes.data[i] \in Pushed \cup {Junk}
    /\ \A t \in Task : regs[t].pc # "boot"
    /\ \A t \in Task : \/ Building(t)
                        \/ regs[t].pc \in {"push_release", "set_index"}
                      => current_pid >= 2

\* While the machine runs, both of the kernel's notions of the current task
\* name the running one; while kernel_main runs, neither is set and the first
\* tick after sched_start must switch.
Runner ==
    halt = "none" =>
        IF running = Boot
        THEN /\ prev_task = NoTask /\ current_task = NoTask /\ index = 0
             /\ regs[Boot].pc \in {"boot", "task_init", "load", "push_lock",
                                  "push", "push_release", "start", "idle"}
             /\ regs[Boot].pc = "boot" => current_pid = 0 /\ ~started
             /\ regs[Boot].pc # "boot" => current_tick = SwitchTick - 1
        ELSE prev_task = running /\ current_task = running

\* Before any exit the list has one entry per finished process, and index
\* lies inside it.
Counts ==
    halt = "none" /\ Quiet =>
        /\ processes.length + (IF Building(running) THEN 1 ELSE 0)
              = current_pid
        /\ index <= processes.length

IInv ==
    /\ TypeOK
    /\ Builders
    /\ Runner
    /\ OwnContext
    /\ LockFollowsRunning
    /\ FrameIntact
    /\ ListExact
    /\ Counts
    /\ IndexInList
=============================================================================
