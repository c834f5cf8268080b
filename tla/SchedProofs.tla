---------------------------- MODULE SchedProofs ----------------------------
(* Safety of the scheduler for any number of processes and any length of   *)
(* the time slice.                                                         *)
EXTENDS Sched, VecProofs

\* The distinguished values differ from each other and from every task.
LEMMA Sentinels ==
    /\ Boot \notin Task /\ NoTask \notin Task /\ Junk \notin Task
    /\ Boot # NoTask /\ Boot # Junk /\ NoTask # Junk
    /\ Boot \in Context /\ Task \subseteq Context
  BY SentinelAssumption DEF Context

\* Finished processes are processes.
LEMMA PushedAreTasks ==
    ASSUME TypeOK
    PROVE  Pushed \subseteq Task /\ Created \subseteq Task
  BY SizeAssumption DEF TypeOK, Pushed, Created, Task

-----------------------------------------------------------------------------
(* The timer interrupt.                                                    *)

\* When the handler has saved the interrupted registers, every Task.stack is
\* the place where that task really is.
LEMMA SavedIsOwn ==
    ASSUME IInv, halt = "none"
    PROVE  Saved = [t \in Task |-> [who |-> t, regs |-> regs[t]]]
<1>1. /\ saved \in [Task -> [who : Context, regs : Registers]]
      /\ \A t \in Task \ {running} : saved[t] = [who |-> t, regs |-> regs[t]]
  BY DEF IInv, TypeOK, OwnContext
<1>2. CASE running = Boot
  <2>1. prev_task = NoTask
    BY <1>2 DEF IInv, Runner
  <2> QED
    BY <1>1, <1>2, <2>1, Sentinels DEF Saved
<1>3. CASE running # Boot
  <2>1. prev_task = running /\ running \in Task
    BY <1>3 DEF IInv, Runner, TypeOK, Context
  <2> QED
    BY <1>1, <2>1, Sentinels DEF Saved
<1> QED
  BY <1>2, <1>3

\* A switch to a finished process resumes that process where it was; if the
\* machine survives, the process' frames are in place.
LEMMA SwitchEffect ==
    ASSUME IInv, halt = "none", NEW t \in Task, SwitchTo(t)
    PROVE  /\ regs' = regs
           /\ running' = t
           /\ prev_task' = t
           /\ saved' = [u \in Task |-> [who |-> u, regs |-> regs[u]]]
           /\ kframe' = FrameAfterTick
           /\ halt' = IF NeedsFrame(regs[t].pc) /\ FrameAfterTick # t
                      THEN "wild" ELSE "none"
<1>1. Saved = [u \in Task |-> [who |-> u, regs |-> regs[u]]]
  BY SavedIsOwn
<1>2. Saved[t] = [who |-> t, regs |-> regs[t]]
  BY <1>1
<1>3. regs = [regs EXCEPT ![t] = regs[t]]
  BY Sentinels DEF IInv, TypeOK
<1> QED
  BY <1>1, <1>2, <1>3 DEF SwitchTo

\* A switch to a slot that was never written stops the machine.
LEMMA SwitchToJunk ==
    ASSUME IInv, halt = "none", NEW t, t \notin Task, SwitchTo(t)
    PROVE  /\ regs' = regs /\ running' = running /\ halt' = "junk"
           /\ prev_task' = t /\ kframe' = FrameAfterTick
           /\ saved' = [u \in Task |-> [who |-> u, regs |-> regs[u]]]
  BY SavedIsOwn DEF SwitchTo

\* The slot that sched_tick reads holds a finished process or was never
\* written.
LEMMA SlotIsPushed ==
    ASSUME IInv, NEW i \in Nat
    PROVE  VecAt(processes, i) \in Pushed \cup {Junk}
  BY DEF IInv, Builders, TypeOK, VecOf, VecAt, Capacity

\* A tick moves no context and touches neither the list nor the lock.
LEMMA TickKeeps ==
    ASSUME IInv, Tick
    PROVE  /\ halt = "none" /\ started /\ started' = started
           /\ regs' = regs /\ processes' = processes /\ lock' = lock
           /\ current_pid' = current_pid /\ dead' = dead
           /\ saved' = [t \in Task |-> [who |-> t, regs |-> regs[t]]]
<1>1. halt = "none" /\ started
  BY DEF Tick, TickNoProcess, TickSpins, TickStay, TickSwitch, TickEnabled
<1>2. CASE TickNoProcess \/ TickSpins
  BY <1>1, <1>2, SavedIsOwn DEF TickNoProcess, TickSpins, sched
<1>3. CASE TickStay
  BY <1>1, <1>3, SwitchEffect, SwitchToJunk DEF TickStay
<1>4. CASE TickSwitch
  BY <1>1, <1>4, SwitchEffect, SwitchToJunk DEF TickSwitch
<1> QED
  BY <1>2, <1>3, <1>4 DEF Tick

\* Either a tick leaves the running context alone, or the lock is free and it
\* runs a finished process next.
LEMMA TickRuns ==
    ASSUME IInv, Tick
    PROVE  /\ \/ running' = running
              \/ running' \in Pushed /\ lock = FALSE
           /\ halt' = "none" =>
                 /\ running' \in Pushed
                 /\ prev_task' = running' /\ current_task' = running'
                 /\ kframe' = FrameAfterTick
                 /\ NeedsFrame(regs[running'].pc) => FrameAfterTick = running'
           /\ halt' = "junk" => running' = running
<1>1. halt = "none" /\ TickEnabled
  BY DEF Tick, TickNoProcess, TickSpins, TickStay, TickSwitch, TickEnabled
<1>2. CASE TickNoProcess \/ TickSpins
  BY <1>2 DEF TickNoProcess, TickSpins
<1>3. CASE TickStay
  <2>1. running # Boot
    <3> SUFFICES ASSUME running = Boot PROVE FALSE
      OBVIOUS
    <3>1. current_tick = SwitchTick - 1
      BY <1>1 DEF IInv, Runner, TickEnabled
    <3> QED
      BY <1>3, <3>1, SizeAssumption DEF TickStay, SliceOver
  <2>2. running \in Pushed /\ current_task = running
    BY <1>1, <2>1 DEF IInv, Runner, Builders
  <2>3. current_task \in Task
    BY <2>2, PushedAreTasks DEF IInv
  <2>4. SwitchTo(current_task) /\ current_task' = current_task
    BY <1>3 DEF TickStay
  <2> QED
    BY <1>1, <2>2, <2>3, <2>4, SwitchEffect
<1>4. CASE TickSwitch
  <2> DEFINE t == VecAt(processes, NextSlot)
  <2>1. SwitchTo(t) /\ current_task' = t /\ lock = FALSE
    BY <1>4 DEF TickSwitch
  <2>2. t \in Pushed \cup {Junk}
    <3>1. NextSlot \in Nat
      BY DEF NextSlot, IInv, TypeOK
    <3> QED
      BY <3>1, SlotIsPushed
  <2> HIDE DEF t
  <2>3. CASE t \in Pushed
    <3>1. t \in Task
      BY <2>3, PushedAreTasks DEF IInv
    <3> QED
      BY <1>1, <2>1, <2>3, <3>1, SwitchEffect
  <2>4. CASE t = Junk
    BY <1>1, <2>1, <2>4, Sentinels, SwitchToJunk
  <2> QED
    BY <2>2, <2>3, <2>4
<1> QED
  BY <1>2, <1>3, <1>4 DEF Tick

-----------------------------------------------------------------------------
(* Kernel and user code.                                                   *)

\* Code moves only the context that runs it.
LEMMA StepMoves ==
    ASSUME IInv, Step
    PROVE  /\ halt = "none" /\ running' = running /\ prev_task' = prev_task
           /\ current_task' = current_task
           /\ regs' \in [Context -> Registers]
           /\ \A c \in Context \ {running} : regs'[c] = regs[c]
           /\ running \in Context
<1> USE DEF Running, Goto
<1>1. running \in Context /\ regs \in [Context -> Registers]
  BY DEF IInv, TypeOK
<1>2. CASE TaskInit
  <2>1. [pc |-> "load", new |-> current_pid] \in Registers
    BY <1>2, SizeAssumption DEF IInv, TypeOK, TaskInit, Registers, Pc, Task
  <2> QED
    BY <1>1, <1>2, <2>1 DEF TaskInit
<1>3. CASE SysExecve \/ SysExit \/ SysOther \/ Return
  BY <1>1, <1>3 DEF SysExecve, SysExit, SysOther, Syscall, Return, At,
                    Registers, Pc, sched
<1>4. CASE LoadMissingFile
  BY <1>1, <1>4 DEF LoadMissingFile, sched
<1>5. CASE \/ SchedInit \/ LoadElf \/ PushLock \/ Push \/ PushRelease
           \/ SchedStart \/ SetIndex \/ SetTick \/ RemoveLock \/ Remove
           \/ RemoveRelease \/ Die \/ SyscallBody
  <2>1. PICK p \in Pc : regs' = [regs EXCEPT ![running].pc = p]
    BY <1>5 DEF SchedInit, LoadElf, PushLock, Push, PushRelease, SchedStart,
                SetIndex, SetTick, RemoveLock, Remove, RemoveRelease, Die,
                SyscallBody, SpinLock, SpinRelease, Pc
  <2>2. regs' \in [Context -> Registers]
        /\ \A c \in Context \ {running} : regs'[c] = regs[c]
    BY <1>1, <2>1 DEF Registers
  <2> QED
    BY <1>1, <1>5, <2>2 DEF SchedInit, LoadElf, PushLock, Push, PushRelease,
                SchedStart, SetIndex, SetTick, RemoveLock, Remove,
                RemoveRelease, Die, SyscallBody, SpinLock, SpinRelease, sched
<1> QED
  BY <1>2, <1>3, <1>4, <1>5 DEF Step

\* Where the running context goes in the steps that change neither the list
\* nor its local variable.
Edge ==
    {<<"boot", "task_init">>, <<"load", "push_lock">>, <<"push_lock", "push">>,
     <<"push_release", "start">>, <<"push_release", "set_index">>,
     <<"start", "idle">>, <<"set_index", "set_tick">>, <<"set_tick", "return">>,
     <<"syscall", "return">>, <<"remove_lock", "remove">>,
     <<"remove_release", "die">>, <<"die", "dead">>}

Plain ==
    \/ SchedInit \/ LoadElf \/ PushLock \/ PushRelease \/ SchedStart
    \/ SetIndex \/ SetTick \/ RemoveLock \/ RemoveRelease \/ Die
    \/ SyscallBody

\* The plain steps follow an edge and keep the local variable.
LEMMA PlainEdge ==
    ASSUME IInv, Plain
    PROVE  /\ regs'[running].new = regs[running].new
           /\ <<regs[running].pc, regs'[running].pc>> \in Edge
           /\ current_pid' = current_pid
           /\ saved' = saved
           /\ kframe' = kframe
           /\ halt' = halt
           /\ ~SchedInit => processes' = processes
<1> USE DEF Running, Goto
<1>1. running \in Context /\ regs \in [Context -> Registers]
  BY DEF IInv, TypeOK
<1>2. CASE SchedInit \/ LoadElf \/ SchedStart \/ SetIndex \/ SetTick
  BY <1>1, <1>2 DEF SchedInit, LoadElf, SchedStart, SetIndex, SetTick, sched,
                    Registers, Edge
<1>3. CASE SyscallBody \/ Die
  BY <1>1, <1>3 DEF SyscallBody, Die, sched, Registers, Edge
<1>4. CASE PushLock \/ RemoveLock
  BY <1>1, <1>4 DEF PushLock, RemoveLock, SpinLock, Registers, Edge
<1>5. CASE PushRelease \/ RemoveRelease
  BY <1>1, <1>5 DEF PushRelease, RemoveRelease, SpinRelease, Registers, Edge
<1> QED
  BY <1>2, <1>3, <1>4, <1>5 DEF Plain

\* Entering or leaving the kernel.
LEMMA TrapEdge ==
    ASSUME IInv, SysExecve \/ SysExit \/ SysOther \/ Return
    PROVE  /\ regs[running].pc \in {"user", "return"}
           /\ regs'[running].pc \in {"task_init", "remove_lock", "syscall", "user"}
           /\ regs'[running].new = NoTask
           /\ running = Boot => regs[running].pc = "return"
           /\ kframe' = IF regs'[running].pc = "user" THEN NoTask ELSE running
           /\ UNCHANGED <<sched, prev_task, dead, saved, running, halt>>
<1>1. running \in Context /\ regs \in [Context -> Registers]
  BY DEF IInv, TypeOK
<1> QED
  BY <1>1, Sentinels DEF SysExecve, SysExit, SysOther, Syscall, Return, At, Running,
     Registers

\* Starting to build a process, and pushing it.
LEMMA BuildEdge ==
    ASSUME IInv, TaskInit
    PROVE  /\ regs[running].pc = "task_init"
           /\ regs'[running] = [pc |-> "load", new |-> current_pid]
           /\ current_pid \in Task /\ current_pid' = current_pid + 1
           /\ saved' = [saved EXCEPT ![current_pid] =
                           [who |-> current_pid, regs |-> At("user")]]
           /\ UNCHANGED <<processes, index, current_tick, current_task, lock,
                          started, prev_task, dead, running, kframe, halt>>
<1>1. running \in Context /\ regs \in [Context -> Registers]
      /\ current_pid \in 0..MaxTasks
  BY DEF IInv, TypeOK
<1> QED
  BY <1>1, SizeAssumption DEF TaskInit, Running, Task

\* The two steps that change the list.
LEMMA ListEdge ==
    ASSUME IInv, Push \/ Remove
    PROVE  /\ \/ Push /\ regs[running].pc = "push"
                      /\ regs'[running].pc = "push_release"
              \/ Remove /\ regs[running].pc = "remove"
                        /\ regs'[running].pc = "remove_release"
           /\ regs'[running].new = regs[running].new
           /\ UNCHANGED <<index, current_tick, current_task, lock, started,
                current_pid, prev_task, dead, saved, running, kframe, halt>>
<1>1. running \in Context /\ regs \in [Context -> Registers]
  BY DEF IInv, TypeOK
<1> QED
  BY <1>1 DEF Push, Remove, Running, Goto, Registers

\* Steps are plain, traps, builds, changes of the list, or the fatal load.
LEMMA StepCases ==
    ASSUME Step
    PROVE  \/ Plain \/ SysExecve \/ SysExit \/ SysOther \/ Return
           \/ TaskInit \/ Push \/ Remove \/ LoadMissingFile
  BY DEF Step, Plain

\* A failed load stops the machine and changes nothing else.
LEMMA LoadFails ==
    ASSUME LoadMissingFile
    PROVE  /\ UNCHANGED <<processes, index, current_tick, current_task, lock,
                          started, current_pid, prev_task, dead, saved,
                          running, regs, kframe>>
           /\ halt' = "panic"
  BY DEF LoadMissingFile, sched

\* Only pushing finishes a process, and nothing undoes that.
LEMMA PushedStep ==
    ASSUME IInv, Step
    PROVE  Pushed' = IF Push THEN Pushed \cup {regs[running].new} ELSE Pushed
<1>0. /\ running \in Context /\ running' = running
      /\ \A c \in Context \ {running} : regs'[c] = regs[c]
      /\ \A c \in Context \ {running} : Building(c)' <=> Building(c)
  BY StepMoves DEF Building
<1>1. CASE \/ Plain \/ SysExecve \/ SysExit \/ SysOther \/ Return \/ Remove
           \/ LoadMissingFile
  <2>1. /\ Building(running)' <=> Building(running)
        /\ Building(running) => regs'[running].new = regs[running].new
        /\ current_pid' = current_pid
        /\ ~Push
    <3>1. CASE Plain
      <4>1. regs[running].pc # "push"
        BY <3>1, PlainEdge DEF Edge
      <4>2. ~Push
        BY <4>1 DEF Push, Running
      <4> QED
        BY <1>0, <3>1, PlainEdge, <4>2 DEF Edge, Building
    <3>2. CASE SysExecve \/ SysExit \/ SysOther \/ Return
      BY <3>2, TrapEdge DEF Building, Push, Running, sched
    <3>3. CASE Remove
      BY <3>3, ListEdge DEF Building, Push, Remove, Running
    <3>4. CASE LoadMissingFile
      BY <3>4, LoadFails DEF Building, Push, Running, LoadMissingFile
    <3> QED
      BY <1>1, <3>1, <3>2, <3>3, <3>4
  <2>2. {regs'[c].new : c \in {d \in Context : Building(d)'}}
          = {regs[c].new : c \in {d \in Context : Building(d)}}
    BY <1>0, <2>1
  <2> QED
    BY <2>1, <2>2 DEF Pushed, Created
<1>2. CASE TaskInit
  <2>1. /\ ~Building(running) /\ Building(running)' /\ ~Push
        /\ regs'[running].new = current_pid /\ current_pid' = current_pid + 1
        /\ current_pid \in Nat
    BY <1>2, BuildEdge DEF Building, Push, Running, Task
  <2>2. {regs'[c].new : c \in {d \in Context : Building(d)'}}
          = {regs[c].new : c \in {d \in Context : Building(d)}} \cup {current_pid}
    BY <1>0, <2>1
  <2>3. (0..(current_pid + 1) - 1) \ {current_pid} = 0..current_pid - 1
    BY <2>1
  <2> QED
    BY <2>1, <2>2, <2>3 DEF Pushed, Created
<1>3. CASE Push
  <2>1. /\ Building(running) /\ ~Building(running)'
        /\ current_pid' = current_pid
        /\ regs[running].new \in Created
    BY <1>0, <1>3, ListEdge DEF Building, IInv, Builders, Push, Running
  <2>2. \A c \in Context \ {running} : Building(c) => regs[c].new # regs[running].new
    BY <1>0, <2>1 DEF IInv, Builders
  <2> QED
    BY <1>0, <1>3, <2>1, <2>2 DEF Pushed, Created
<1> QED
  BY <1>1, <1>2, <1>3, StepCases

\* A tick finishes no process.
LEMMA PushedTick ==
    ASSUME IInv, Tick
    PROVE  /\ Pushed' = Pushed /\ Created' = Created
           /\ \A c \in Context : Building(c)' <=> Building(c)
           /\ \A t \in Task : Left(t)' <=> Left(t)
  BY TickKeeps DEF Pushed, Created, Building, Left

-----------------------------------------------------------------------------
(* Every step keeps every part of the invariant.                           *)

\* Every step keeps the types.
LEMMA TypeStep ==
    ASSUME IInv, Next
    PROVE  TypeOK'
<1>0. /\ TypeOK /\ WellFormed(processes, Task)
      /\ SwitchTick \in Nat \ {0} /\ MaxTasks \in Nat \ {0}
  BY SizeAssumption DEF IInv, TypeOK, WellFormed
<1>1. CASE Step
  <2>0. /\ regs' \in [Context -> Registers] /\ running' \in Context
        /\ halt = "none"
    BY <1>1, StepMoves
  <2>1. CASE Plain
    <3>1. processes' \in VecOf(Task) /\ processes'.length <= Capacity(processes')
      <4>1. CASE SchedInit
        BY <4>1 DEF SchedInit, VecInit, VecOf, Capacity
      <4>2. CASE ~SchedInit
        BY <1>0, <2>1, <4>2, PlainEdge DEF TypeOK
      <4> QED BY <4>1, <4>2
    <3>2. index' \in Nat
      <4>1. CASE SetIndex
        <5>1. running # Boot
          BY <4>1, <2>0 DEF SetIndex, Running, IInv, Runner
        <5>2. current_pid >= 2
          BY <1>0, <4>1, <5>1 DEF SetIndex, Running, IInv, Builders, TypeOK, Context
        <5> QED
          BY <1>0, <4>1, <5>2 DEF SetIndex, TypeOK
      <4>2. CASE ~SetIndex
        BY <1>0, <2>1, <4>2 DEF Plain, TypeOK, SchedInit, LoadElf, PushLock,
              PushRelease, SchedStart, SetTick, RemoveLock, RemoveRelease,
              Die, SyscallBody, SpinLock, SpinRelease, sched
      <4> QED BY <4>1, <4>2
    <3>3. current_tick' \in Nat
      BY <1>0, <2>1 DEF Plain, TypeOK, SchedInit, LoadElf, PushLock,
              PushRelease, SchedStart, SetIndex, SetTick, RemoveLock,
              RemoveRelease, Die, SyscallBody, SpinLock, SpinRelease, sched
    <3>4. lock' \in BOOLEAN /\ started' \in BOOLEAN
      BY <1>0, <2>1 DEF Plain, TypeOK, SchedInit, LoadElf, PushLock,
              PushRelease, SchedStart, SetIndex, SetTick, RemoveLock,
              RemoveRelease, Die, SyscallBody, SpinLock, SpinRelease, sched
    <3>5. dead' \subseteq Task
      <4>1. CASE Die
        <5>1. running # Boot
          BY <4>1, <2>0 DEF Die, Running, IInv, Runner
        <5>2. current_task \in Task
          BY <1>0, <2>0, <5>1 DEF IInv, Runner, TypeOK, Context
        <5> QED
          BY <1>0, <4>1, <5>2 DEF Die, TypeOK
      <4>2. CASE ~Die
        BY <1>0, <2>1, <4>2 DEF Plain, TypeOK, SchedInit, LoadElf, PushLock,
              PushRelease, SchedStart, SetIndex, SetTick, RemoveLock,
              RemoveRelease, SyscallBody, SpinLock, SpinRelease, sched
      <4> QED BY <4>1, <4>2
    <3> QED
      BY <1>0, <1>1, <2>0, <2>1, <3>1, <3>2, <3>3, <3>4, <3>5, PlainEdge,
         StepMoves DEF TypeOK
  <2>2. CASE SysExecve \/ SysExit \/ SysOther \/ Return
    <3>1. kframe' \in Task \cup {NoTask}
      <4>1. CASE Return
        BY <4>1 DEF Return
      <4>2. CASE SysExecve \/ SysExit \/ SysOther
        BY <4>2 DEF SysExecve, SysExit, SysOther, Syscall
      <4> QED BY <2>2, <4>1, <4>2
    <3> QED
      BY <1>0, <2>0, <2>2, <3>1, TrapEdge DEF TypeOK, sched
  <2>3. CASE TaskInit
    <3>1. saved' \in [Task -> [who : Context, regs : Registers]]
      BY <1>0, <2>3, BuildEdge, Sentinels DEF TypeOK, At, Registers, Pc
    <3>2. current_pid' \in 0..MaxTasks
      BY <1>0, <2>3, BuildEdge DEF Task
    <3> QED
      BY <1>0, <2>0, <2>3, <3>1, <3>2, BuildEdge DEF TypeOK
  <2>4. CASE Push
    <3>1. regs[running].new \in Task
      <4>1. Building(running) /\ running \in Context
        BY <1>0, <2>4, ListEdge DEF Building, TypeOK, Push, Running
      <4> QED
        BY <4>1, PushedAreTasks DEF IInv, Builders
    <3>2. WellFormed(processes', Task)
      BY <1>0, <2>4, <3>1, PushAppends DEF Push
    <3> QED
      BY <1>0, <2>0, <2>4, <3>2, ListEdge DEF TypeOK, WellFormed
  <2>5. CASE Remove
    <3>1. WellFormed(processes', Task)
      <4>1. running # Boot
        BY <2>0, <2>5 DEF Remove, Running, IInv, Runner
      <4>2. current_task = running /\ running \in Pushed
        BY <2>0, <4>1 DEF IInv, Runner, Builders
      <4>3. current_task \in Elements(processes) /\ NoRepeat(processes)
        BY <2>5, <4>2 DEF IInv, ListExact, Pushed, NoRepeat, Left, Remove, Running
      <4> QED
        BY <1>0, <2>5, <4>3, RemoveTakesOne DEF Remove
    <3> QED
      BY <1>0, <2>0, <2>5, <3>1, ListEdge DEF TypeOK, WellFormed
  <2>6. CASE LoadMissingFile
    BY <1>0, <2>6, LoadFails DEF TypeOK, HaltReason
  <2> QED
    BY <1>1, <2>1, <2>2, <2>3, <2>4, <2>5, <2>6, StepCases
<1>2. CASE Tick
  <2>1. /\ saved' \in [Task -> [who : Context, regs : Registers]]
        /\ running' \in Context
    <3>1. /\ saved' = [t \in Task |-> [who |-> t, regs |-> regs[t]]]
          /\ running' = running \/ running' \in Pushed
      BY <1>2, TickKeeps, TickRuns
    <3>2. \A t \in Task : [who |-> t, regs |-> regs[t]]
                             \in [who : Context, regs : Registers]
      BY <1>0, Sentinels DEF TypeOK
    <3> QED
      BY <1>0, <3>1, <3>2, PushedAreTasks, Sentinels DEF TypeOK
  <2>2. /\ index' \in Nat /\ current_tick' \in Nat
        /\ halt' \in HaltReason /\ kframe' \in Task \cup {NoTask}
        /\ current_task' \in Task \cup {NoTask, Junk}
        /\ prev_task' \in Task \cup {NoTask, Junk}
    <3>1. /\ NextSlot \in Nat
          /\ FrameAfterTick \in Task \cup {NoTask}
          /\ VecAt(processes, NextSlot) \in Task \cup {NoTask, Junk}
      BY <1>0, SlotIsPushed, PushedAreTasks DEF NextSlot, FrameAfterTick, TypeOK
    <3>2. CASE TickNoProcess \/ TickSpins
      BY <1>0, <3>2 DEF TickNoProcess, TickSpins, TypeOK, HaltReason, sched
    <3>3. CASE TickStay
      BY <1>0, <3>1, <3>3 DEF TickStay, SwitchTo, TypeOK, HaltReason
    <3>4. CASE TickSwitch
      BY <1>0, <3>1, <3>4 DEF TickSwitch, SwitchTo, TypeOK, HaltReason
    <3> QED
      BY <1>2, <3>2, <3>3, <3>4 DEF Tick
  <2> QED
    BY <1>0, <1>2, <2>1, <2>2, TickKeeps DEF TypeOK
<1>3. CASE Stopped
  BY <1>0, <1>3 DEF Stopped, TypeOK, vars, sched
<1> QED
  BY <1>1, <1>2, <1>3 DEF Next

\* The tasks that are not finished are at their first user instruction.
LEMMA BuildersStep ==
    ASSUME IInv, Next
    PROVE  Builders'
<1>0. /\ TypeOK /\ Builders /\ TypeOK'
      /\ WellFormed(processes, Task)
      /\ Pushed \subseteq Task /\ Created \subseteq Task
  BY TypeStep, PushedAreTasks DEF IInv, WellFormed, TypeOK
<1>1. CASE Step
  <2>0. /\ running \in Context /\ running' = running /\ halt = "none"
        /\ \A c \in Context \ {running} : regs'[c] = regs[c]
        /\ \A c \in Context \ {running} : Building(c)' <=> Building(c)
        /\ Pushed \subseteq Pushed' /\ Created \subseteq Created'
        /\ running \in Pushed' \cup {Boot}
        /\ current_pid' >= current_pid
        /\ current_pid \in Nat /\ current_pid' \in Nat
    <3>1. current_pid \in Nat /\ current_pid' \in Nat
      BY <1>0, SizeAssumption DEF TypeOK
    <3>2. current_pid' >= current_pid
      BY <1>1, <3>1, StepCases, PlainEdge, TrapEdge, BuildEdge, ListEdge,
         LoadFails DEF sched
    <3>3. Created \subseteq Created'
      <4>1. \A m, n \in Nat : m <= n => 0..m - 1 \subseteq 0..n - 1
        OBVIOUS
      <4> QED
        BY <3>1, <3>2, <4>1 DEF Created
    <3> QED
      BY <1>0, <1>1, <3>1, <3>2, <3>3, StepMoves, PushedStep DEF Building,
         Builders
  <2>1. ASSUME NEW c \in Context, Building(c)'
        PROVE  regs'[c].new \in Created'
    <3>1. CASE c # running
      BY <1>0, <2>0, <2>1, <3>1 DEF Builders
    <3>2. CASE c = running /\ TaskInit
      BY <2>0, <3>2, BuildEdge DEF Created
    <3>3. CASE c = running /\ ~TaskInit
      <4>1. Building(c) /\ regs'[c].new = regs[c].new
        BY <1>1, <2>0, <2>1, <3>3, StepCases, PlainEdge, TrapEdge, ListEdge,
           LoadFails DEF Edge, Building
      <4> QED
        BY <1>0, <2>0, <4>1 DEF Builders
    <3> QED BY <3>1, <3>2, <3>3
  <2>2. ASSUME NEW c \in Context, NEW d \in Context, Building(c)', Building(d)',
               regs'[c].new = regs'[d].new
        PROVE  c = d
    <3>1. CASE TaskInit
      <4>1. \A e \in Context \ {running} : Building(e)' => regs'[e].new # current_pid
        BY <1>0, <2>0 DEF Builders, Created
      <4>2. regs'[running].new = current_pid /\ ~Building(running)
        BY <3>1, BuildEdge DEF Building
      <4> QED
        BY <1>0, <2>0, <2>2, <4>1, <4>2 DEF Builders
    <3>2. CASE ~TaskInit
      <4>1. \A e \in Context : Building(e)' =>
               Building(e) /\ regs'[e].new = regs[e].new
        BY <1>1, <2>0, <3>2, StepCases, PlainEdge, TrapEdge, ListEdge,
           LoadFails DEF Edge, Building
      <4> QED
        BY <1>0, <2>2, <4>1 DEF Builders
    <3> QED BY <3>1, <3>2
  <2>3. ASSUME NEW t \in Task \ Pushed' PROVE regs'[t] = At("user")
    BY <1>0, <2>0, <2>3, Sentinels DEF Builders
  <2>4. ASSUME NEW i \in 1..Capacity(processes')
        PROVE  processes'.data[i] \in Pushed' \cup {Junk}
    <3>1. CASE Push
      <4>1. regs[running].new \in Task /\ Building(running)
        BY <1>0, <2>0, <3>1, ListEdge DEF Building, Builders, Push, Running
      <4>2. regs[running].new \in Pushed'
        BY <1>1, <3>1, PushedStep
      <4>3. \/ processes'.data[i] \in {regs[running].new, Junk}
            \/ i \in 1..Capacity(processes)
               /\ processes'.data[i] = processes.data[i]
        BY <1>0, <2>4, <3>1, <4>1, PushAppends DEF Push
      <4> QED
        BY <1>0, <2>0, <4>2, <4>3 DEF Builders
    <3>2. CASE Remove
      <4>1. running # Boot
        BY <2>0, <3>2 DEF Remove, Running, IInv, Runner
      <4>2. current_task = running /\ running \in Pushed
        BY <2>0, <4>1 DEF IInv, Runner, Builders
      <4>3. current_task \in Elements(processes) /\ NoRepeat(processes)
        BY <3>2, <4>2 DEF IInv, ListExact, Pushed, NoRepeat, Left, Remove, Running
      <4>4. \E j \in 1..Capacity(processes) :
               processes'.data[i] = processes.data[j]
        BY <1>0, <2>4, <3>2, <4>3, RemoveTakesOne DEF Remove
      <4> QED
        BY <1>0, <2>0, <4>4 DEF Builders
    <3>3. CASE SchedInit
      BY <2>4, <3>3 DEF SchedInit, VecInit, Capacity
    <3>4. CASE ~Push /\ ~Remove /\ ~SchedInit
      <4>1. processes' = processes
        BY <1>1, <3>4, StepCases, PlainEdge, TrapEdge, BuildEdge, LoadFails
           DEF sched
      <4> QED
        BY <1>0, <2>0, <2>4, <4>1 DEF Builders
    <3> QED BY <3>1, <3>2, <3>3, <3>4
  <2>5. ASSUME NEW t \in Task PROVE regs'[t].pc # "boot"
    <3>1. CASE t # running
      BY <1>0, <2>0, <3>1, Sentinels DEF Builders
    <3>2. CASE t = running
      BY <1>0, <1>1, <3>2, StepCases, PlainEdge, TrapEdge, BuildEdge, ListEdge,
         LoadFails DEF Edge, Builders
    <3> QED BY <3>1, <3>2
  <2>6. ASSUME NEW t \in Task,
               Building(t)' \/ regs'[t].pc \in {"push_release", "set_index"}
        PROVE  current_pid' >= 2
    <3>1. CASE t # running
      BY <1>0, <2>0, <2>6, <3>1, Sentinels DEF Builders
    <3>2. CASE t = running /\ TaskInit
      <4>1. t \in Pushed
        BY <1>0, <3>2, Sentinels DEF Builders
      <4>2. current_pid >= 1
        BY <2>0, <4>1 DEF Pushed, Created
      <4> QED
        BY <2>0, <3>2, <4>2, BuildEdge
    <3>3. CASE t = running /\ ~TaskInit
      <4>1. Building(t) \/ regs[t].pc \in {"push_release", "set_index"}
        BY <1>1, <2>0, <2>6, <3>3, StepCases, PlainEdge, TrapEdge, ListEdge,
           LoadFails DEF Edge, Building
      <4> QED
        BY <1>0, <2>0, <4>1, TypeStep DEF Builders, TypeOK
    <3> QED BY <3>1, <3>2, <3>3
  <2> QED
    BY <2>0, <2>1, <2>2, <2>3, <2>4, <2>5, <2>6 DEF Builders
<1>2. CASE Tick
  <2>1. /\ regs' = regs /\ processes' = processes /\ current_pid' = current_pid
        /\ Pushed' = Pushed /\ Created' = Created
        /\ \A c \in Context : Building(c)' <=> Building(c)
        /\ running' \in Pushed \cup {Boot}
    BY <1>0, <1>2, TickKeeps, TickRuns, PushedTick DEF Builders
  <2>2. \A t \in Task : Building(t)' <=> Building(t)
    BY <2>1, Sentinels
  <2> QED
    BY <1>0, <2>1, <2>2 DEF Builders
<1>3. CASE Stopped
  BY <1>0, <1>3 DEF Stopped, vars, sched, Builders, Building, Pushed, Created
<1> QED
  BY <1>1, <1>2, <1>3 DEF Next

\* Both notions of the current task stay with the running one.
LEMMA RunnerStep ==
    ASSUME IInv, Next
    PROVE  Runner'
<1>1. CASE Step
  <2>0. /\ halt = "none" /\ running' = running /\ prev_task' = prev_task
        /\ current_task' = current_task /\ Runner /\ running \in Context
    BY <1>1, StepMoves DEF IInv
  <2>1. CASE running # Boot
    BY <2>0, <2>1 DEF Runner
  <2>2. CASE running = Boot
    <3>0. /\ prev_task = NoTask /\ current_task = NoTask /\ index = 0
          /\ regs[Boot].pc \in {"boot", "task_init", "load", "push_lock",
                                "push", "push_release", "start", "idle"}
          /\ regs[Boot].pc # "boot" => current_tick = SwitchTick - 1
      BY <2>0, <2>2 DEF Runner
    <3>1. CASE Plain
      <4>1. index' = index
        BY <2>2, <3>0, <3>1 DEF Plain, SchedInit, LoadElf, PushLock, PushRelease,
           SchedStart, SetIndex, SetTick, RemoveLock, RemoveRelease, Die,
           SyscallBody, SpinLock, SpinRelease, sched, Running
      <4>2. current_tick' = SwitchTick - 1
        BY <2>2, <3>0, <3>1 DEF Plain, SchedInit, LoadElf, PushLock, PushRelease,
           SchedStart, SetIndex, SetTick, RemoveLock, RemoveRelease, Die,
           SyscallBody, SpinLock, SpinRelease, sched, Running
      <4>3. regs'[Boot].pc \in {"task_init", "load", "push_lock",
                                "push", "push_release", "start", "idle"}
        <5>1. CASE PushRelease
          <6>1. regs' = [regs EXCEPT ![Boot].pc = "start"]
            BY <2>2, <5>1 DEF PushRelease, SpinRelease, Goto
          <6> QED
            BY <6>1, Sentinels DEF IInv, TypeOK, Registers
        <5>2. CASE ~PushRelease
          <6>1. regs[running].pc # "push_release"
            BY <3>1, <5>2, <2>2, <3>0 DEF Plain, SchedInit, LoadElf, PushLock,
               SchedStart, SetIndex, SetTick, RemoveLock, RemoveRelease, Die,
               SyscallBody, SpinLock, SpinRelease, Running
          <6>2. <<regs[Boot].pc, regs'[Boot].pc>> \in Edge
            BY <2>2, <3>1, PlainEdge
          <6> QED
            BY <2>2, <3>0, <6>1, <6>2 DEF Edge
        <5> QED BY <5>1, <5>2
      <4> QED
        BY <2>0, <2>2, <3>0, <4>1, <4>2, <4>3 DEF Runner
    <3>2. CASE SysExecve \/ SysExit \/ SysOther \/ Return
      BY <2>2, <3>0, <3>2, TrapEdge
    <3>3. CASE TaskInit
      BY <2>0, <2>2, <3>0, <3>3, BuildEdge DEF Runner
    <3>4. CASE Push \/ Remove
      BY <2>0, <2>2, <3>0, <3>4, ListEdge DEF Runner
    <3>5. CASE LoadMissingFile
      BY <3>5, LoadFails DEF Runner
    <3> QED
      BY <1>1, <3>1, <3>2, <3>3, <3>4, <3>5, StepCases
  <2> QED BY <2>1, <2>2
<1>2. CASE Tick
  <2>1. Pushed \subseteq Task
    BY PushedAreTasks DEF IInv
  <2> QED
    BY <1>2, <2>1, TickRuns, Sentinels DEF Runner
<1>3. CASE Stopped
  BY <1>3 DEF Stopped, vars, sched, IInv, Runner
<1> QED
  BY <1>1, <1>2, <1>3 DEF Next

\* A step of the running context leaves the saved registers of all others
\* true: task_init writes those of a task that never ran.
LEMMA OwnContextStep ==
    ASSUME IInv, Next
    PROVE  OwnContext'
<1>0. OwnContext /\ TypeOK /\ Builders
  BY DEF IInv
<1>1. CASE Step
  <2>0. /\ running' = running
        /\ \A t \in Task \ {running} : regs'[t] = regs[t]
    BY <1>1, StepMoves, Sentinels
  <2>1. CASE TaskInit
    <3>1. current_pid \notin Pushed
      BY <2>1, BuildEdge DEF Pushed, Created, Task
    <3>2. regs[current_pid] = At("user")
      BY <1>0, <2>1, <3>1, BuildEdge DEF Builders
    <3> QED
      BY <1>0, <2>0, <2>1, <3>2, BuildEdge DEF OwnContext, TypeOK
  <2>2. CASE ~TaskInit
    <3>1. saved' = saved
      BY <1>1, <2>2, StepCases, PlainEdge, TrapEdge, ListEdge, LoadFails
    <3> QED
      BY <1>0, <2>0, <3>1 DEF OwnContext
  <2> QED BY <2>1, <2>2
<1>2. CASE Tick
  BY <1>2, TickKeeps DEF OwnContext
<1>3. CASE Stopped
  BY <1>0, <1>3 DEF Stopped, vars, OwnContext
<1> QED
  BY <1>1, <1>2, <1>3 DEF Next

\* The lock changes hands only inside the running context.
LEMMA LockStep ==
    ASSUME IInv, Next
    PROVE  LockFollowsRunning'
<1>0. LockFollowsRunning /\ TypeOK
  BY DEF IInv
<1>1. CASE Step
  <2>0. /\ running \in Context /\ running' = running
        /\ regs \in [Context -> Registers]
        /\ \A c \in Context \ {running} : regs'[c] = regs[c]
    BY <1>0, <1>1, StepMoves DEF TypeOK
  <2> SUFFICES lock' <=> regs'[running].pc \in Critical
    BY <1>0, <2>0 DEF LockFollowsRunning
  <2>1. CASE PushLock \/ RemoveLock
    BY <2>0, <2>1 DEF PushLock, RemoveLock, SpinLock, Goto, Critical, Registers
  <2>2. CASE PushRelease \/ RemoveRelease
    BY <2>0, <2>2 DEF PushRelease, RemoveRelease, SpinRelease, Goto, Critical,
                      Registers
  <2>3. CASE \/ SchedInit \/ LoadElf \/ SchedStart \/ SetIndex \/ SetTick
             \/ Die \/ SyscallBody
    <3>1. Plain /\ lock' = lock
      BY <2>3 DEF Plain, SchedInit, LoadElf, SchedStart, SetIndex, SetTick, Die,
                  SyscallBody, sched
    <3>2. /\ regs[running].pc \notin Critical
          /\ regs'[running].pc \notin Critical
      BY <2>0, <2>3 DEF SchedInit, LoadElf, SchedStart, SetIndex, SetTick, Die,
                  SyscallBody, Running, Goto, Critical, Registers
    <3> QED
      BY <1>0, <3>1, <3>2 DEF LockFollowsRunning
  <2>4. CASE SysExecve \/ SysExit \/ SysOther \/ Return
    BY <1>0, <2>4, TrapEdge DEF LockFollowsRunning, Critical, sched
  <2>5. CASE TaskInit
    BY <1>0, <2>5, BuildEdge DEF LockFollowsRunning, Critical
  <2>6. CASE Push \/ Remove
    BY <1>0, <2>6, ListEdge DEF LockFollowsRunning, Critical
  <2>7. CASE LoadMissingFile
    BY <1>0, <2>7, LoadFails DEF LockFollowsRunning
  <2> QED
    BY <1>1, <2>1, <2>2, <2>3, <2>4, <2>5, <2>6, <2>7 DEF Step
<1>2. CASE Tick
  <2>1. /\ regs' = regs /\ lock' = lock
        /\ running' = running \/ (running' \in Context /\ lock = FALSE)
    BY <1>0, <1>2, TickKeeps, TickRuns, PushedAreTasks, Sentinels
  <2> QED
    BY <1>0, <2>1 DEF LockFollowsRunning, TypeOK
<1>3. CASE Stopped
  BY <1>0, <1>3 DEF Stopped, vars, sched, LockFollowsRunning
<1> QED
  BY <1>1, <1>2, <1>3 DEF Next

\* A trap of the running task puts its own frame at the top of the stack, and
\* a tick that the machine survives leaves the resumed frames there.
LEMMA FrameStep ==
    ASSUME IInv, Next
    PROVE  FrameIntact'
<1>0. FrameIntact /\ TypeOK
  BY DEF IInv
<1>1. CASE Step
  <2>0. running' = running /\ halt = "none"
    BY <1>1, StepMoves
  <2>1. CASE Plain
    BY <1>0, <2>0, <2>1, PlainEdge DEF FrameIntact, NeedsFrame, Edge
  <2>2. CASE SysExecve \/ SysExit \/ SysOther \/ Return
    BY <2>0, <2>2, TrapEdge DEF FrameIntact, NeedsFrame
  <2>3. CASE TaskInit
    BY <1>0, <2>0, <2>3, BuildEdge DEF FrameIntact, NeedsFrame
  <2>4. CASE Push \/ Remove
    BY <1>0, <2>0, <2>4, ListEdge DEF FrameIntact, NeedsFrame
  <2>5. CASE LoadMissingFile
    BY <2>5, LoadFails DEF FrameIntact
  <2> QED
    BY <1>1, <2>1, <2>2, <2>3, <2>4, <2>5, StepCases
<1>2. CASE Tick
  BY <1>2, TickKeeps, TickRuns DEF FrameIntact
<1>3. CASE Stopped
  BY <1>0, <1>3 DEF Stopped, vars, sched, FrameIntact
<1> QED
  BY <1>1, <1>2, <1>3 DEF Next

\* ListExact in terms of the finished processes.
LEMMA ListIsPushed ==
    ListExact <=> /\ Elements(processes) = {t \in Pushed : ~Left(t)}
                  /\ NoRepeat(processes)
  BY DEF ListExact, Pushed, NoRepeat

\* The list gains a process when it is pushed, loses it when it is removed.
LEMMA ListStep ==
    ASSUME IInv, Next
    PROVE  ListExact'
<1>0. /\ TypeOK /\ WellFormed(processes, Task)
      /\ Elements(processes) = {t \in Pushed : ~Left(t)} /\ NoRepeat(processes)
      /\ Pushed \subseteq Task /\ Pushed' \subseteq Task
  <2>1. TypeOK /\ TypeOK' /\ ListExact
    BY TypeStep DEF IInv
  <2>2. Pushed' \subseteq Task
    BY <2>1, SizeAssumption DEF TypeOK, Pushed, Created, Task
  <2> QED
    BY <2>1, <2>2, PushedAreTasks, ListIsPushed DEF WellFormed, TypeOK
<1> SUFFICES /\ Elements(processes') = {t \in Pushed' : ~Left(t)'}
             /\ NoRepeat(processes')
  BY DEF ListExact, Pushed, NoRepeat
<1>1. CASE Step
  <2>0. /\ halt = "none" /\ running \in Context /\ running' = running
        /\ \A t \in Task \ {running} : Left(t)' <=> Left(t)
    BY <1>1, StepMoves, Sentinels DEF Left
  <2>1. CASE Push
    <3>0. PICK n : n = regs[running].new
      OBVIOUS
    <3>1. Building(running) /\ ~Left(running) /\ ~Left(running)'
      BY <2>0, <2>1, ListEdge DEF Building, Left, Push, Running
    <3>2. n \in Created /\ n \in Task /\ n \notin Pushed
      BY <1>0, <2>0, <3>0, <3>1, PushedAreTasks DEF IInv, Builders, Pushed
    <3>3. Pushed' = Pushed \cup {n} /\ ~Left(n)'
      <4>1. regs[n] = At("user")
        BY <3>2 DEF IInv, Builders
      <4>2. ~Left(n)
        BY <4>1 DEF Left, At
      <4> QED
        BY <1>1, <2>0, <2>1, <3>0, <3>1, <3>2, <4>2, PushedStep
    <3>4. n \notin Elements(processes)
      BY <1>0, <3>2
    <3>5. processes' = vec_push(processes, n)
      BY <2>1, <3>0 DEF Push
    <3>6. /\ processes'.length = processes.length + 1
          /\ processes'.data[processes.length + 1] = n
          /\ \A i \in 1..processes.length : processes'.data[i] = processes.data[i]
          /\ processes.length \in Nat
      <4>1. processes.length \in Nat
        BY <1>0 DEF WellFormed, VecOf
      <4> QED
        BY <1>0, <3>2, <3>5, <4>1, PushAppends
    <3>7. NoRepeat(processes')
      BY <1>0, <3>4, <3>6 DEF NoRepeat, Elements
    <3>8. Elements(processes') = Elements(processes) \cup {n}
      BY <3>6 DEF Elements
    <3>9. \A t \in Pushed' : ~Left(t)' <=> (t = n \/ (t \in Pushed /\ ~Left(t)))
      BY <1>0, <2>0, <3>1, <3>2, <3>3
    <3> QED
      BY <1>0, <3>3, <3>7, <3>8, <3>9
  <2>2. CASE Remove
    <3>1. running # Boot
      BY <2>0, <2>2 DEF Remove, Running, IInv, Runner
    <3>2. current_task = running /\ running \in Pushed /\ ~Left(running)
          /\ Left(running)'
      BY <2>0, <2>2, <3>1, ListEdge DEF IInv, Runner, Builders, Left, Remove,
                                        Running
    <3>3. processes' = vec_remove(processes, running) /\ ~Push
      BY <2>2, <3>2, ListEdge DEF Remove, Push, Running
    <3>4. running \in Elements(processes)
      BY <1>0, <3>2
    <3>5. /\ Elements(processes') = Elements(processes) \ {running}
          /\ NoRepeat(processes')
      BY <1>0, <3>3, <3>4, RemoveTakesOne
    <3>6. Pushed' = Pushed
      BY <1>1, <3>3, PushedStep
    <3> QED
      BY <1>0, <2>0, <3>2, <3>5, <3>6
  <2>3. CASE SchedInit
    <3>1. current_pid = 0 /\ running = Boot /\ ~Push
      BY <2>0, <2>3 DEF SchedInit, Running, IInv, Runner, Builders, TypeOK,
                        Context, Push
    <3>2. Pushed' = {}
      <4>1. Pushed = {}
        BY <3>1 DEF Pushed, Created
      <4> QED
        BY <1>1, <3>1, <4>1, PushedStep
    <3>3. processes' = VecInit
      BY <2>3 DEF SchedInit
    <3> QED
      BY <3>2, <3>3 DEF VecInit, Elements, NoRepeat
  <2>4. CASE ~Push /\ ~Remove /\ ~SchedInit
    <3>1. processes' = processes /\ (Left(running)' <=> Left(running))
      <4>1. CASE Plain
        BY <2>0, <2>4, <4>1, PlainEdge DEF Edge, Left
      <4>2. CASE ~Plain
        BY <1>1, <2>0, <2>4, <4>2, StepCases, TrapEdge, BuildEdge, LoadFails
           DEF Left, sched
      <4> QED BY <4>1, <4>2
    <3>2. Pushed' = Pushed
      BY <1>1, <2>4, PushedStep
    <3> QED
      BY <1>0, <2>0, <3>1, <3>2
  <2> QED BY <2>1, <2>2, <2>3, <2>4
<1>2. CASE Tick
  BY <1>0, <1>2, TickKeeps, PushedTick
<1>3. CASE Stopped
  <2>1. /\ processes' = processes /\ regs' = regs /\ current_pid' = current_pid
    BY <1>3 DEF Stopped, vars, sched
  <2> QED
    BY <1>0, <2>1 DEF Pushed, Created, Building, Left
<1> QED
  BY <1>1, <1>2, <1>3 DEF Next

\* Before any exit the list has as many entries as processes were finished,
\* so exec's index and the next slot lie inside it.
LEMMA CountsStep ==
    ASSUME IInv, Next
    PROVE  Counts' /\ IndexInList'
<1>0. /\ TypeOK /\ WellFormed(processes, Task) /\ processes.length \in Nat
      /\ current_pid \in Nat /\ index \in Nat
  BY SizeAssumption DEF IInv, WellFormed, TypeOK, VecOf
<1>1. CASE Step
  <2>0. /\ halt = "none" /\ running \in Context /\ running' = running
        /\ \A c \in Context \ {running} : regs'[c] = regs[c]
        /\ Task \subseteq Context
    BY <1>1, StepMoves, Sentinels
  <2>1. halt' # "junk"
    BY <1>1, <2>0, StepCases, PlainEdge, TrapEdge, BuildEdge, ListEdge, LoadFails
  <2> SUFFICES ASSUME halt' = "none", Quiet'
               PROVE  /\ processes'.length + (IF Building(running)' THEN 1 ELSE 0)
                            = current_pid'
                      /\ index' <= processes'.length
    BY <2>1 DEF Counts, IndexInList
  <2>2. Quiet
    <3>1. \A c \in Context \ {running} : Building(c)' <=> Building(c)
      BY <2>0 DEF Building
    <3>2. \A t \in Task : t # running => (Left(t)' <=> Left(t))
      BY <2>0 DEF Left
    <3>3. running \in Task => ~Left(running)
      <4>1. running \in Task => ~Left(running)'
        BY <2>0 DEF Quiet
      <4> QED
        BY <1>1, <2>0, <4>1, StepCases, PlainEdge, TrapEdge, BuildEdge, ListEdge,
           LoadFails DEF Left, Edge
    <3> QED
      BY <2>0, <3>1, <3>2, <3>3 DEF Quiet
  <2>3. /\ processes.length + (IF Building(running) THEN 1 ELSE 0) = current_pid
        /\ index <= processes.length
    BY <2>0, <2>2 DEF IInv, Counts
  <2>4. CASE Push
    <3>1. Building(running) /\ ~Building(running)' /\ regs[running].new \in Task
      BY <2>0, <2>4, ListEdge, PushedAreTasks DEF Building, Push, Running, IInv,
                                                  Builders
    <3>2. processes'.length = processes.length + 1
      BY <1>0, <2>4, <3>1, PushAppends DEF Push
    <3> QED
      BY <1>0, <2>3, <2>4, <3>1, <3>2, ListEdge DEF Push, Running
  <2>5. CASE Remove
    <3>1. running # Boot
      BY <2>0, <2>5 DEF Remove, Running, IInv, Runner
    <3>2. running \in Task /\ Left(running)'
      BY <2>0, <2>5, <3>1, ListEdge DEF Context, Left, Remove, Running
    <3> QED
      BY <2>0, <3>2 DEF Quiet
  <2>6. CASE TaskInit
    BY <1>0, <2>3, <2>6, BuildEdge DEF Building
  <2>7. CASE SchedInit
    <3>1. /\ current_pid = 0 /\ index = 0
      BY <2>0, <2>7 DEF SchedInit, Running, IInv, Runner, Builders, TypeOK,
                        Context
    <3>2. processes'.length = 0 /\ index' = index /\ current_pid' = current_pid
          /\ ~Building(running)'
      <4>1. Plain
        BY <2>7 DEF Plain
      <4>2. regs[running].pc = "boot"
        BY <2>7 DEF SchedInit, Running
      <4> QED
        BY <2>0, <2>7, <4>1, <4>2, PlainEdge DEF SchedInit, VecInit, Edge, Building
    <3> QED
      BY <3>1, <3>2
  <2>8. CASE SetIndex
    <3>1. /\ processes' = processes /\ current_pid' = current_pid
          /\ ~Building(running) /\ ~Building(running)'
      <4>1. Plain
        BY <2>8 DEF Plain
      <4>2. regs[running].pc = "set_index" /\ processes' = processes
        BY <2>8 DEF SetIndex, Running
      <4> QED
        BY <2>0, <4>1, <4>2, PlainEdge DEF Edge, Building
    <3> QED
      BY <1>0, <2>3, <2>8, <3>1 DEF SetIndex
  <2>9. CASE ~Push /\ ~Remove /\ ~TaskInit /\ ~SchedInit /\ ~SetIndex
    <3>1. /\ processes' = processes /\ current_pid' = current_pid
          /\ Building(running)' <=> Building(running)
      <4>1. CASE Plain
        BY <2>0, <2>9, <4>1, PlainEdge DEF Edge, Building
      <4>2. CASE ~Plain
        BY <1>1, <2>0, <2>9, <4>2, StepCases, TrapEdge, LoadFails
           DEF Building, sched
      <4> QED BY <4>1, <4>2
    <3>2. index' = index
      <4>1. CASE Plain
        BY <2>9, <4>1 DEF Plain, LoadElf, PushLock, PushRelease, SchedStart,
           SetTick, RemoveLock, RemoveRelease, Die, SyscallBody, SpinLock,
           SpinRelease, sched
      <4>2. CASE ~Plain
        BY <1>1, <2>9, <4>2, StepCases, TrapEdge, LoadFails DEF sched
      <4> QED BY <4>1, <4>2
    <3> QED
      BY <1>0, <2>3, <3>1, <3>2
  <2> QED BY <2>4, <2>5, <2>6, <2>7, <2>8, <2>9
<1>2. CASE Tick
  <2>0. /\ halt = "none" /\ regs' = regs /\ processes' = processes
        /\ current_pid' = current_pid
        /\ \A c \in Context : Building(c)' <=> Building(c)
        /\ \A t \in Task : Left(t)' <=> Left(t)
        /\ Pushed \subseteq Task
    BY <1>2, TickKeeps, PushedTick, PushedAreTasks DEF IInv
  <2>1. ASSUME Quiet
        PROVE  /\ processes.length + (IF Building(running) THEN 1 ELSE 0)
                     = current_pid
               /\ index <= processes.length
    BY <2>0, <2>1 DEF IInv, Counts
  <2>2. ASSUME Quiet', halt' = "none"
        PROVE  Quiet /\ (Building(running') <=> Building(running))
    <3>1. CASE running' = running
      BY <2>0, <2>2, <3>1 DEF Quiet
    <3>2. CASE running' # running
      <4>1. running' \in Context /\ running \in Context
        BY <1>0, <1>2, <2>0, <2>2, TickRuns, Sentinels DEF TypeOK
      <4>2. FrameAfterTick # running'
        BY <1>2, <2>0, <2>2, <3>2, TickRuns, Sentinels DEF FrameAfterTick
      <4>3. ~Building(running')
        BY <1>2, <2>2, <4>2, TickRuns DEF Building, NeedsFrame
      <4> QED
        BY <2>0, <2>2, <4>1, <4>3 DEF Quiet
    <3> QED BY <3>1, <3>2
  <2>3. ASSUME Quiet, processes.length # 0
        PROVE  /\ NextSlot + 1 <= processes.length
               /\ VecAt(processes, NextSlot) \in Task
    <3>1. NextSlot \in Nat /\ NextSlot < processes.length
      BY <1>0, <2>1, <2>3 DEF NextSlot
    <3>2. VecAt(processes, NextSlot) \in Elements(processes)
      <4>1. NextSlot < Capacity(processes) /\ NextSlot + 1 \in 1..processes.length
        BY <1>0, <3>1 DEF WellFormed, VecOf, Capacity
      <4> QED
        BY <4>1 DEF VecAt, Elements
    <3> QED
      BY <1>0, <2>0, <3>1, <3>2, ListIsPushed DEF IInv
  <2>4. ASSUME halt' = "none" PROVE index' = index \/ (index' = NextSlot + 1
                                                  /\ processes.length # 0)
    BY <1>2, <2>4 DEF Tick, TickNoProcess, TickSpins, TickStay, TickSwitch
  <2>5. ASSUME halt' = "none", Quiet' PROVE index' <= processes'.length
    BY <2>0, <2>1, <2>2, <2>3, <2>4, <2>5
  <2>6. Counts'
    <3> SUFFICES ASSUME halt' = "none", Quiet'
                 PROVE  processes'.length + (IF Building(running)' THEN 1 ELSE 0)
                            = current_pid'
      BY <2>5 DEF Counts
    <3>1. Building(running)' <=> Building(running')
      BY <2>0 DEF Building
    <3> QED
      BY <2>0, <2>1, <2>2, <3>1
  <2>7. ASSUME halt' = "junk", Quiet' PROVE FALSE
    <3>1. running' = running
      BY <1>2, <2>7, TickRuns
    <3>2. Quiet
      BY <2>0, <2>7, <3>1 DEF Quiet
    <3>3. CASE TickNoProcess \/ TickSpins
      BY <2>7, <3>3 DEF TickNoProcess, TickSpins
    <3>4. CASE TickSwitch
      <4>1. SwitchTo(VecAt(processes, NextSlot)) /\ processes.length # 0
        BY <3>4 DEF TickSwitch
      <4>2. VecAt(processes, NextSlot) \in Task
        BY <2>3, <3>2, <4>1
      <4> QED
        BY <2>0, <2>7, <4>1, <4>2, SwitchEffect
    <3>5. CASE TickStay
      <4>1. running # Boot
        <5> SUFFICES ASSUME running = Boot PROVE FALSE
          OBVIOUS
        <5>1. current_tick = SwitchTick - 1
          BY <2>0, <3>5 DEF IInv, Runner, TickStay, TickEnabled
        <5> QED
          BY <3>5, <5>1, SizeAssumption DEF TickStay, SliceOver
      <4>2. current_task \in Task
        BY <1>0, <2>0, <4>1 DEF IInv, Runner, TypeOK, Context
      <4> QED
        BY <2>0, <2>7, <3>5, <4>2, SwitchEffect DEF TickStay
    <3> QED
      BY <1>2, <3>3, <3>4, <3>5 DEF Tick
  <2> QED
    BY <2>5, <2>6, <2>7 DEF IndexInList
<1>3. CASE Stopped
  BY <1>3 DEF Stopped, vars, sched, IInv, Counts, IndexInList, Quiet, Left,
              Building
<1> QED
  BY <1>1, <1>2, <1>3 DEF Next

-----------------------------------------------------------------------------
(* The theorems.                                                           *)

\* The boot state satisfies the invariant.
LEMMA InitIInv ==
    ASSUME Init
    PROVE  IInv
<1>1. /\ running = Boot /\ halt = "none" /\ current_pid = 0 /\ index = 0
      /\ current_tick = 9 /\ current_task = NoTask /\ prev_task = NoTask
      /\ lock = FALSE /\ started = FALSE /\ dead = {} /\ kframe = NoTask
      /\ saved = [t \in Task |-> [who |-> t, regs |-> At("user")]]
      /\ processes = [data |-> <<>>, length |-> 0]
      /\ regs = [c \in Context |-> At(IF c = Boot THEN "boot" ELSE "user")]
  BY DEF Init, VecInit
<1>2. /\ \A t \in Task : regs[t] = At("user")
      /\ regs[Boot] = At("boot")
      /\ \A c \in Context : ~Building(c) /\ regs[c].pc \notin Critical
      /\ \A t \in Task : ~Left(t)
  BY <1>1, Sentinels DEF At, Building, Left, Critical, Context
<1>0. processes \in VecOf(Task) /\ processes.length = 0 /\ Capacity(processes) = 0
  <2>1. <<>> \in Seq(Task \cup {Junk}) /\ Len(<<>>) = 0
    OBVIOUS
  <2> QED
    BY <1>1, <2>1 DEF VecOf, Capacity
<1>3. TypeOK
  <2>1. \A p \in Pc : At(p) \in Registers
    BY DEF At, Registers
  <2>2. regs \in [Context -> Registers]
    BY <1>1, <2>1 DEF Pc
  <2>3. saved \in [Task -> [who : Context, regs : Registers]]
    BY <1>1, <2>1, Sentinels DEF Pc
  <2> QED
    <3>1. current_pid \in 0..MaxTasks
      BY <1>1, SizeAssumption
    <3>2. /\ processes.length <= Capacity(processes) /\ index \in Nat
          /\ current_tick \in Nat /\ halt \in HaltReason
          /\ running \in Context
      BY <1>0, <1>1, Sentinels DEF HaltReason
    <3>3. lock \in BOOLEAN /\ started \in BOOLEAN
      BY <1>1
    <3> QED
      BY <1>0, <1>1, <2>2, <2>3, <3>1, <3>2, <3>3 DEF TypeOK
<1>4. Created = {} /\ Pushed = {}
  BY <1>1 DEF Created, Pushed
<1>5. Builders
  <2>1. \A t \in Task : /\ ~Building(t)
                        /\ regs[t].pc = "user"
    BY <1>2, Sentinels DEF At
  <2>2. \A i \in 1..Capacity(processes) : FALSE
    BY <1>0
  <2>3. running = Boot
    BY <1>1
  <2> QED
    BY <1>2, <1>4, <2>1, <2>2, <2>3 DEF Builders
<1>6. Runner
  BY <1>1, <1>2 DEF Runner, At
<1>7. OwnContext
  BY <1>1, <1>2 DEF OwnContext
<1>8. LockFollowsRunning /\ FrameIntact
  BY <1>1, <1>2, Sentinels DEF LockFollowsRunning, FrameIntact
<1>9. ListExact
  BY <1>1, <1>4 DEF ListExact, Elements
<1>10. Counts /\ IndexInList
  BY <1>1, <1>2, Sentinels DEF Counts, IndexInList
<1> QED
  BY <1>3, <1>5, <1>6, <1>7, <1>8, <1>9, <1>10 DEF IInv

\* No step and no stuttering breaks the invariant.
LEMMA NextIInv ==
    ASSUME IInv, [Next]_vars
    PROVE  IInv'
<1>1. CASE Next
  BY <1>1, TypeStep, BuildersStep, RunnerStep, OwnContextStep, LockStep,
     FrameStep, ListStep, CountsStep DEF IInv
<1>2. CASE UNCHANGED vars
  BY <1>2 DEF vars, sched, IInv, TypeOK, Builders, Runner, OwnContext,
     LockFollowsRunning, FrameIntact, ListExact, Counts, IndexInList, Quiet,
     Pushed, Created, Building, Left
<1> QED
  BY <1>1, <1>2

\* The inductive invariant of the scheduler holds in every reachable state,
\* for any number of processes and any length of the time slice.
THEOREM Invariance == Spec => []IInv
  BY InitIInv, NextIInv, PTL DEF Spec

\* Every variable of the scheduler keeps its type.
THEOREM TypeCorrect == Spec => []TypeOK
  BY Invariance, PTL DEF IInv

\* interrupts_handler never saves one task's registers in another Task: a
\* descheduled task is resumed exactly where it was.
THEOREM ContextsAreTheirOwn == Spec => []OwnContext
  BY Invariance, PTL DEF IInv

\* The scheduler lock is never held by a context that does not run.
THEOREM LockIsNeverAbandoned == Spec => []LockFollowsRunning
  BY Invariance, PTL DEF IInv

\* Kernel code that runs has its frames on the shared kernel stack.
THEOREM FramesStay == Spec => []FrameIntact
  BY Invariance, PTL DEF IInv

\* The process list holds exactly the finished processes that have not left.
THEOREM ListIsExact == Spec => []ListExact
  BY Invariance, PTL DEF IInv

\* Until a process exits, sched_tick reads only slots that are in use.
THEOREM IndexStaysInList == Spec => []IndexInList
  BY Invariance, PTL DEF IInv

\* A switch that the machine survives never resumes a system call.
THEOREM SyscallsAreNotResumed == Spec => SwitchesResumeUserCode
<1>1. ASSUME IInv, [Next]_vars
      PROVE  [running' # running /\ halt' = "none"
                  => ~NeedsFrame(regs'[running'].pc)]_vars
  <2> SUFFICES ASSUME Next, running' # running, halt' = "none"
               PROVE  ~NeedsFrame(regs'[running'].pc)
    BY <1>1
  <2>1. Tick
    BY StepMoves, <1>1 DEF Next, Stopped, vars
  <2>2. FrameAfterTick # running'
    <3>1. running' \in Task
      BY <1>1, <2>1, TickRuns, PushedAreTasks DEF IInv
    <3> QED
      BY <3>1, Sentinels DEF FrameAfterTick
  <2> QED
    BY <1>1, <2>1, <2>2, TickRuns, TickKeeps
<1> QED
  BY Invariance, <1>1, PTL DEF Spec, SwitchesResumeUserCode
=============================================================================
