---------------------------- MODULE KernelProofs ----------------------------
(* Proofs about Kernel: it implements Sched, so the scheduler's theorems   *)
(* hold of it, and locks and errors outlive only calls that were cut.      *)
EXTENDS Kernel, SchedProofs

\* Every step of the kernel is a step of the scheduler or leaves its state
\* alone.
LEMMA KNextNext ==
    ASSUME [KNext]_kvars
    PROVE  [Next]_vars
<1>1. CASE Take \/ Release \/ Input \/ Halted \/ UNCHANGED kvars
  BY <1>1 DEF Take, Release, Input, Halted, kvars
<1>2. CASE Body \/ Dispatch \/ Other \/ Trap
  BY <1>2 DEF Body, Dispatch, Other, Trap, Next, Step
<1>3. CASE Interrupt
  BY <1>3 DEF Interrupt, Next
<1> QED
  BY <1>1, <1>2, <1>3 DEF KNext, Code

\* The kernel with all its locks schedules as Sched says: critical sections
\* delay the steps of sched.c and add none.
THEOREM KernelImplementsSched == KSpec => Spec
<1>1. KInit => Init
  BY DEF KInit
<1> QED
  BY <1>1, KNextNext, PTL DEF KSpec, Spec

\* What may lie ahead of the code at p.
LEMMA SectionsAt ==
    ASSUME NEW p, NEW s \in Sections(p)
    PROVE  /\ s \in Seq(Lock \cup Wait)
           /\ s # <<>> => p \in {"task_init", "load", "push", "syscall", "die"}
           /\ p \in Critical => s \in {<<>>, <<"heap">>}
<1>1. \/ p = "task_init" /\ s = <<"heap">>
      \/ p = "load" /\ s = <<"vmm", "heap">>
      \/ p = "push" /\ s \in {<<>>, <<"heap">>}
      \/ /\ p = "syscall"
         /\ \/ s \in {<<>>, <<"heap", "input", "heap">>, <<"loop">>}
            \/ \E l \in Lock : s = <<l>>
      \/ p = "die" /\ s \in {<<>>, <<"heap">>}
      \/ s = <<>>
  BY Zenon DEF Sections, LoadSections, PushSections, ReadSections,
               CallSections, ExitSections
<1>2. /\ <<>> \in Seq(Lock \cup Wait) /\ <<"heap">> \in Seq(Lock \cup Wait)
      /\ <<"vmm", "heap">> \in Seq(Lock \cup Wait)
      /\ <<"loop">> \in Seq(Lock \cup Wait)
      /\ \A l \in Lock : <<l>> \in Seq(Lock \cup Wait)
  BY DEF Lock, Wait
<1>3. <<"heap", "input", "heap">> \in Seq(Lock \cup Wait)
  BY DEF Lock, Wait
<1> QED
  BY <1>1, <1>2, <1>3 DEF Critical

-----------------------------------------------------------------------------
(* Steps of the code.                                                      *)

\* A step of Sched's code: it begins outside every critical section, moves
\* the running context only, and returns only from "return".
LEMMA ThroughMoves ==
    ASSUME KInv, Step, Through
    PROVE  /\ halt = "none" /\ running' = running /\ running \in Context
           /\ held' = held /\ todo = <<>>
           /\ \A c \in Context \ {running} : regs'[c] = regs[c]
           /\ todo' \in Seq(Lock \cup Wait)
           /\ todo' # <<>> => NeedsFrame(regs'[running].pc)
           /\ regs'[running].pc \in Critical => todo' \in {<<>>, <<"heap">>}
           /\ \A l \in Lock : held[l] # running
<1>1. /\ halt = "none" /\ running' = running /\ running \in Context
      /\ \A c \in Context \ {running} : regs'[c] = regs[c]
  BY StepMoves DEF KInv
<1>2. /\ todo' \in Seq(Lock \cup Wait)
      /\ todo' # <<>> => NeedsFrame(regs'[running].pc)
      /\ regs'[running].pc \in Critical => todo' \in {<<>>, <<"heap">>}
  <2>1. todo' \in Sections(regs'[running].pc)
    BY DEF Through
  <2> HIDE DEF Sections
  <2> QED
    BY <2>1, SectionsAt DEF NeedsFrame
<1> QED
  BY <1>1, <1>2 DEF Through, KInv, OnlyTheCutKeepLocks

\* kernel_main is idle from sched_start on.
LEMMA BootIdles ==
    ASSUME KInv, Step, Through
    PROVE  running = Boot /\ started' => regs'[Boot].pc = "idle" /\ todo' = <<>>
<1> SUFFICES ASSUME running = Boot, started'
             PROVE  regs'[Boot].pc = "idle" /\ todo' = <<>>
  OBVIOUS
<1>1. regs \in [Context -> Registers] /\ Boot \in Context
  BY Sentinels DEF KInv, IInv, TypeOK
<1>2. halt = "none" /\ (started => regs[Boot].pc = "idle")
  BY ThroughMoves DEF KInv, SectionsFit
<1>3. CASE SchedStart
  <2>1. regs'[Boot].pc = "idle"
    BY <1>1, <1>3 DEF SchedStart, Goto
  <2> QED
    BY <2>1, SectionsAt DEF Through
<1>4. CASE ~SchedStart
  <2>1. started' = started
    BY <1>4 DEF Step, SchedInit, TaskInit, LoadElf, LoadMissingFile, PushLock,
          Push, PushRelease, SysExecve, SetIndex, SetTick, SysExit, RemoveLock,
          Remove, RemoveRelease, Die, SysOther, SyscallBody, Return, SpinLock,
          SpinRelease, Syscall, sched
  <2>2. regs[Boot].pc = "idle"
    BY <1>2, <2>1
  <2> QED
    BY <2>2 DEF Step, SchedInit, TaskInit, LoadElf, LoadMissingFile, PushLock,
          Push, PushRelease, SysExecve, SetIndex, SetTick, SysExit, RemoveLock,
          Remove, RemoveRelease, Die, SysOther, SyscallBody, Return, SpinLock,
          SpinRelease, Syscall, SchedStart, Running
<1> QED
  BY <1>3, <1>4

\* The code keeps the types, the sections and the owners of locks.
LEMMA ThroughKeeps ==
    ASSUME KInv, Step, Through, IInv', running = Boot => ended' = ended
    PROVE  /\ held' \in [Lock -> Context \cup {NoTask}]
           /\ todo' \in Seq(Lock \cup Wait)
           /\ SectionsFit' /\ OnlyTheCutKeepLocks'
<1>1. /\ halt = "none" /\ running' = running /\ running \in Context
      /\ held' = held
      /\ \A c \in Context \ {running} : regs'[c] = regs[c]
      /\ \A l \in Lock : held[l] # running
  BY ThroughMoves
<1>2. held' \in [Lock -> Context \cup {NoTask}] /\ todo' \in Seq(Lock \cup Wait)
  BY <1>1, ThroughMoves DEF KInv, KTypeOK
<1>3. SectionsFit'
  BY ThroughMoves, BootIdles DEF SectionsFit, KInv
<1>4. OnlyTheCutKeepLocks'
  <2> SUFFICES ASSUME NEW l \in Lock, held[l] \notin {NoTask, running}
               PROVE  held[l] \in Task /\ Cut(held[l])'
    BY <1>1 DEF OnlyTheCutKeepLocks
  <2>1. held[l] \in Task /\ Cut(held[l])
    BY <1>1 DEF KInv, OnlyTheCutKeepLocks
  <2> QED
    BY <1>1, <2>1, Sentinels DEF Cut
<1> QED
  BY <1>2, <1>3, <1>4

\* A step after which errno is what it was, by code that is not at its end.
LEMMA ErrorsKept ==
    ASSUME KInv, Step, Through, errno' = errno, ended' = ended,
           regs[running].pc # "return"
    PROVE  ErrorsBelong'
<1> SUFFICES ASSUME errno # NoTask
             PROVE  \/ errno = running /\ regs'[running].pc \in Opened
                    \/ Cut(errno)'
                    \/ errno = Boot /\ ~ended
  BY ThroughMoves DEF ErrorsBelong, Cut
<1>1. /\ halt = "none" /\ running' = running
      /\ \A c \in Context \ {running} : regs'[c] = regs[c]
  BY ThroughMoves
<1>2. CASE errno = running /\ regs[running].pc \in Opened /\ running # Boot
  <2>1. regs'[running].pc \in Opened
    BY <1>1, <1>2 DEF Step, SchedInit, TaskInit, LoadElf, LoadMissingFile,
       PushLock, Push, PushRelease, SchedStart, SysExecve, SetIndex, SetTick,
       SysExit, RemoveLock, Remove, RemoveRelease, Die, SysOther, SyscallBody,
       Return, SpinLock, SpinRelease, Syscall, Running, Goto, Opened, KInv,
       IInv, TypeOK, Registers
  <2> QED
    BY <1>2, <2>1
<1>3. CASE Cut(errno)
  BY <1>1, <1>3 DEF Cut, KInv, KTypeOK
<1> QED
  BY <1>1, <1>2, <1>3 DEF KInv, ErrorsBelong, SectionsFit

\* Taking and releasing a lock.
LEMMA LockKeeps ==
    ASSUME KInv, Take \/ Release \/ Input
    PROVE  KTypeOK' /\ SectionsFit' /\ OnlyTheCutKeepLocks' /\ ErrorsBelong'
<1>1. /\ halt = "none" /\ todo # <<>> /\ todo \in Seq(Lock \cup Wait)
      /\ held \in [Lock -> Context \cup {NoTask}]
      /\ UNCHANGED vars /\ errno' = errno /\ ended' = ended
      /\ running \in Context /\ running # NoTask
  BY Sentinels
  DEF Take, Release, Input, Ahead, KInv, KTypeOK, IInv, TypeOK, Context
<1>2. UNCHANGED <<halt, regs, running, lock, started>>
  BY <1>1 DEF vars, sched
<1>3. Tail(todo) \in Seq(Lock \cup Wait)
  BY <1>1
<1>4. ErrorsBelong'
  BY <1>1, <1>2 DEF KInv, ErrorsBelong, Cut
<1>8. Head(todo) \in Lock \/ Input
  BY DEF Take, Release, Ahead
<1>5. \A l \in Lock : Cut(held[l])' <=> (held'[l] # running /\ NeedsFrame(regs[held'[l]].pc))
  BY <1>2 DEF Cut
<1>6. CASE Take
  <2>1. held' = [held EXCEPT ![Head(todo)] = running] /\ todo' = todo
    BY <1>6 DEF Take
  <2>2. KTypeOK'
    BY <1>1, <1>3, <2>1 DEF KInv, KTypeOK
  <2>3. SectionsFit'
    BY <1>1, <1>2, <2>1 DEF KInv, SectionsFit
  <2>4. OnlyTheCutKeepLocks'
    <3> SUFFICES ASSUME NEW l \in Lock
                 PROVE  /\ held'[l] = running => todo # <<>> /\ l = Head(todo)
                        /\ held'[l] = running /\ lock => l = "heap"
                        /\ held'[l] \notin {NoTask, running}
                             => held'[l] \in Task /\ Cut(held[l])'
      BY <1>2, <2>1 DEF OnlyTheCutKeepLocks
    <3>1. CASE l = Head(todo)
      <4>1. held'[l] = running
        BY <1>1, <2>1, <3>1
      <4>2. lock => Head(todo) = "heap"
        BY <1>1 DEF KInv, SectionsFit, IInv, LockFollowsRunning
      <4> QED
        BY <1>1, <3>1, <4>1, <4>2
    <3>2. CASE l # Head(todo)
      <4>1. held'[l] = held[l]
        BY <1>1, <2>1, <3>2
      <4> QED
        BY <1>1, <1>5, <3>2, <4>1 DEF KInv, OnlyTheCutKeepLocks, Cut
    <3> QED
      BY <3>1, <3>2
  <2> QED
    BY <1>4, <2>2, <2>3, <2>4
<1>7. CASE Release
  <2>1. held' = [held EXCEPT ![Head(todo)] = NoTask] /\ todo' = Tail(todo)
    BY <1>7 DEF Release
  <2>2. KTypeOK'
    BY <1>1, <1>3, <2>1 DEF KInv, KTypeOK
  <2>3. SectionsFit'
    <3>1. todo = <<"heap">> => Tail(todo) = <<>>
      OBVIOUS
    <3> QED
      BY <1>1, <1>2, <2>1, <3>1 DEF KInv, SectionsFit
  <2>4. OnlyTheCutKeepLocks'
    <3> SUFFICES ASSUME NEW l \in Lock
                 PROVE  /\ held'[l] # running
                        /\ held'[l] \notin {NoTask, running}
                             => held'[l] \in Task /\ Cut(held[l])'
      BY <1>2 DEF OnlyTheCutKeepLocks
    <3>1. CASE l = Head(todo)
      BY <1>1, <2>1, <3>1
    <3>2. CASE l # Head(todo)
      <4>1. held'[l] = held[l]
        BY <1>1, <2>1, <3>2
      <4> QED
        BY <1>1, <1>5, <3>2, <4>1 DEF KInv, OnlyTheCutKeepLocks, Cut
    <3> QED
      BY <3>1, <3>2
  <2> QED
    BY <1>4, <2>2, <2>3, <2>4
<1>9. CASE Input
  <2>1. held' = held /\ todo' = Tail(todo) /\ Head(todo) \notin Lock
    BY <1>9 DEF Input, Ahead, Lock
  <2>2. KTypeOK'
    BY <1>1, <1>3, <2>1 DEF KInv, KTypeOK
  <2>3. SectionsFit'
    <3>1. todo # <<"heap">>
      BY <2>1 DEF Lock
    <3> QED
      BY <1>1, <1>2, <2>1, <3>1 DEF KInv, SectionsFit
  <2>4. OnlyTheCutKeepLocks'
    BY <1>1, <1>2, <2>1 DEF KInv, OnlyTheCutKeepLocks, Cut
  <2> QED
    BY <1>4, <2>2, <2>3, <2>4
<1> QED
  BY <1>6, <1>7, <1>9

-----------------------------------------------------------------------------
(* The timer.                                                              *)

\* A context that gets the CPU from another one while the machine runs is
\* not a call that was cut.
LEMMA NoCutResumes ==
    ASSUME IInv, Tick, running' # running, halt' = "none"
    PROVE  ~NeedsFrame(regs[running'].pc)
<1>1. running' \in Task
  BY TickRuns, PushedAreTasks DEF IInv
<1>2. FrameAfterTick # running'
  BY <1>1, Sentinels DEF FrameAfterTick
<1> QED
  BY <1>2, TickRuns

\* Whoever loses the CPU with a lock or an error is cut.
LEMMA InterruptKeeps ==
    ASSUME KInv, Interrupt
    PROVE  KTypeOK' /\ SectionsFit' /\ OnlyTheCutKeepLocks' /\ ErrorsBelong'
<1>1. /\ halt = "none" /\ started /\ started' = started /\ regs' = regs
      /\ lock' = lock /\ held' = held /\ errno' = errno /\ ended' = ended
      /\ todo' = IF running' = running THEN todo ELSE <<>>
      /\ running \in Context
  BY TickKeeps DEF Interrupt, KInv, IInv, TypeOK
<1>2. KTypeOK'
  BY <1>1 DEF KInv, KTypeOK
<1>3. CASE running' = running
  <2>1. UNCHANGED <<regs, running, lock, started, held, todo, errno, ended>>
    BY <1>1, <1>3
  <2> QED
    BY <1>1, <1>2, <2>1
    DEF KInv, SectionsFit, OnlyTheCutKeepLocks, ErrorsBelong, Cut
<1>4. CASE running' # running
  <2> SUFFICES ASSUME halt' = "none"
               PROVE  SectionsFit' /\ OnlyTheCutKeepLocks' /\ ErrorsBelong'
    BY <1>2 DEF SectionsFit, OnlyTheCutKeepLocks, ErrorsBelong
  <2>1. ~NeedsFrame(regs[running'].pc)
    BY <1>4, NoCutResumes DEF KInv, Interrupt
  <2>2. running' \in Task /\ running' # Boot /\ running' # NoTask
    BY <1>1, TickRuns, PushedAreTasks, Sentinels DEF KInv, IInv, Interrupt
  <2>3. SectionsFit'
    BY <1>1, <1>4, <2>2 DEF SectionsFit
  <2>4. \A l \in Lock : held[l] = running
                           => running \in Task /\ NeedsFrame(regs[running].pc)
    <3> SUFFICES ASSUME NEW l \in Lock, held[l] = running
                 PROVE  running \in Task /\ NeedsFrame(regs[running].pc)
      OBVIOUS
    <3>1. todo # <<>>
      BY <1>1 DEF KInv, OnlyTheCutKeepLocks
    <3> QED
      BY <1>1, <3>1 DEF KInv, SectionsFit, Context
  <2>5. OnlyTheCutKeepLocks'
    <3> SUFFICES ASSUME NEW l \in Lock, held[l] # NoTask
                 PROVE  held[l] \in Task /\ Cut(held[l])' /\ held[l] # running'
      BY <1>1, <2>2 DEF OnlyTheCutKeepLocks
    <3>1. held[l] \in Task /\ Cut(held[l])'
      <4>1. CASE held[l] = running
        BY <1>1, <1>4, <2>4, <4>1 DEF Cut
      <4>2. CASE held[l] # running
        <5>1. held[l] \in Task /\ Cut(held[l])
          BY <1>1, <4>2 DEF KInv, OnlyTheCutKeepLocks
        <5> QED
          BY <1>1, <2>1, <5>1 DEF Cut
      <4> QED
        BY <4>1, <4>2
    <3> QED
      BY <1>1, <3>1 DEF Cut
  <2>6. ErrorsBelong'
    <3> SUFFICES ASSUME errno # NoTask
                 PROVE  Cut(errno)' \/ (errno = Boot /\ ~ended)
      BY <1>1 DEF ErrorsBelong, Cut
    <3>1. CASE errno = running /\ regs[running].pc \in Opened
      BY <1>1, <1>4, <3>1 DEF Cut, NeedsFrame, Opened
    <3>2. CASE Cut(errno)
      BY <1>1, <2>1, <3>2 DEF Cut
    <3> QED
      BY <1>1, <3>1, <3>2 DEF KInv, ErrorsBelong
  <2> QED
    BY <2>3, <2>5, <2>6
<1> QED
  BY <1>2, <1>3, <1>4

-----------------------------------------------------------------------------
(* The theorems.                                                           *)

\* The invariant holds at the start.
LEMMA InitKInv ==
    ASSUME KInit
    PROVE  KInv
<1>1. IInv
  BY InitIInv DEF KInit
<1>2. NoTask # running /\ started = FALSE
  BY Sentinels DEF KInit, Init
<1>3. KTypeOK
  <2>1. errno \in Context \cup {NoTask} /\ ended \in BOOLEAN
    BY DEF KInit, Context
  <2>2. held \in [Lock -> Context \cup {NoTask}] /\ todo \in Seq(Lock \cup Wait)
    BY DEF KInit
  <2> QED
    BY <2>1, <2>2 DEF KTypeOK
<1> QED
  BY <1>1, <1>2, <1>3
  DEF KInit, KInv, SectionsFit, OnlyTheCutKeepLocks, ErrorsBelong

\* Every step keeps the invariant.
LEMMA NextKInv ==
    ASSUME KInv, [KNext]_kvars
    PROVE  KInv'
<1>1. IInv'
  BY KNextNext, NextIInv DEF KInv
<1>2. CASE Take \/ Release \/ Input
  BY <1>1, <1>2, LockKeeps DEF KInv
<1>3. CASE Interrupt
  BY <1>1, <1>3, InterruptKeeps DEF KInv
<1>4. CASE Body
  <2>1. /\ Step /\ Through /\ errno' \in {errno, running} /\ ended' = ended
        /\ regs[running].pc # "return"
    BY <1>4 DEF Body, Step, SyscallBody, LoadElf, Running
  <2>2. running \in Context /\ regs \in [Context -> Registers]
    BY DEF KInv, IInv, TypeOK
  <2>3. regs'[running].pc \in Opened /\ running' = running
    BY <1>4, <2>2 DEF Body, SyscallBody, LoadElf, Goto, Opened, Registers
  <2>4. KTypeOK' /\ SectionsFit' /\ OnlyTheCutKeepLocks'
    BY <1>1, <2>1, <2>2, ThroughKeeps DEF KInv, KTypeOK
  <2>5. ErrorsBelong'
    <3>1. CASE errno' = running
      BY <2>3, <3>1 DEF ErrorsBelong
    <3>2. CASE errno' = errno
      BY <2>1, <3>2, ErrorsKept
    <3> QED
      BY <2>1, <3>1, <3>2
  <2> QED
    BY <1>1, <2>4, <2>5 DEF KInv
<1>5. CASE Dispatch
  <2>1. Step /\ Through /\ errno' = NoTask /\ ended' = TRUE
    BY <1>5 DEF Dispatch, Step
  <2>2. running # Boot
    BY <1>5 DEF Dispatch, Return, Running, KInv, IInv, Runner
  <2> QED
    BY <1>1, <2>1, <2>2, ThroughKeeps DEF KInv, KTypeOK, ErrorsBelong
<1>6. CASE Other \/ Trap
  <2>1. Step /\ Through /\ errno' = errno /\ ended' = ended
    BY <1>6 DEF Other, Trap, Step
  <2>2. regs[running].pc # "return"
    BY <1>6 DEF Other, Trap, SchedInit, TaskInit, LoadMissingFile,
       PushLock, Push, PushRelease, SchedStart, SysExecve, SetIndex, SetTick,
       SysExit, RemoveLock, Remove, RemoveRelease, Die, SysOther, SpinLock,
       SpinRelease, Syscall, Running
  <2> QED
    BY <1>1, <2>1, <2>2, ThroughKeeps, ErrorsKept DEF KInv, KTypeOK
<1>7. CASE Halted \/ UNCHANGED kvars
  <2>1. UNCHANGED <<vars, held, todo, errno, ended>>
    BY <1>7 DEF Halted, kvars
  <2>2. UNCHANGED <<halt, regs, running, lock, started, held, todo, errno, ended>>
    BY <2>1 DEF vars, sched
  <2> QED
    BY <1>1, <2>2
    DEF KInv, KTypeOK, SectionsFit, OnlyTheCutKeepLocks, ErrorsBelong, Cut
<1> QED
  BY <1>2, <1>3, <1>4, <1>5, <1>6, <1>7 DEF KNext, Code

\* The invariant holds in every state.
THEOREM KInvariance == KSpec => []KInv
  BY InitKInv, NextKInv, PTL DEF KSpec

\* Running code finds a lock taken only if its holder was cut inside the
\* section, however many processes there are and wherever ticks fall.
THEOREM LocksOfTheCut == KSpec => []OnlyTheCutKeepLocks
  BY KInvariance, PTL DEF KInv

\* A pending error is the running call's own, that of a call that was cut,
\* or the boot's, and that one only until the first call ends.
THEOREM ErrorsOfTheCut == KSpec => []ErrorsBelong
  BY KInvariance, PTL DEF KInv

\* A lock whose holder lost the CPU is not released while the machine runs.
THEOREM LostForGood == KSpec => LostLocksStayLost
<1>1. ASSUME KInv, [KNext]_kvars
      PROVE  [\A l \in Lock : Lost(l) /\ halt' = "none"
                 => Lost(l)' /\ held'[l] = held[l]]_kvars
  <2> SUFFICES ASSUME KNext, NEW l \in Lock, Lost(l), halt' = "none"
               PROVE  Lost(l)' /\ held'[l] = held[l]
    BY <1>1
  <2>1. held \in [Lock -> Context \cup {NoTask}]
    BY <1>1 DEF KInv, KTypeOK
  <2>2. CASE Interrupt
    <3>1. held' = held /\ Tick /\ halt = "none"
      BY <1>1, <2>2, TickKeeps DEF Interrupt, KInv
    <3>2. Cut(held[l])
      BY <1>1, <3>1 DEF KInv, OnlyTheCutKeepLocks, Lost
    <3>3. held[l] # running'
      BY <1>1, <3>1, <3>2, NoCutResumes DEF KInv, Cut
    <3> QED
      BY <3>1, <3>3 DEF Lost
  <2>3. CASE Take \/ Release \/ Input
    <3>1. running' = running
      BY <2>3 DEF Take, Release, Input, vars
    <3> QED
      BY <2>1, <2>3, <3>1 DEF Take, Release, Input, Ahead, Lost
  <2>4. CASE Body \/ Dispatch \/ Other \/ Trap
    <3>1. Step /\ Through
      BY <2>4 DEF Body, Dispatch, Other, Trap, Step
    <3> QED
      BY <1>1, <3>1, ThroughMoves DEF Lost
  <2>5. CASE Halted
    BY <2>5 DEF Halted, kvars, vars, Lost
  <2> QED
    BY <2>2, <2>3, <2>4, <2>5 DEF KNext, Code
<1> QED
  BY KInvariance, <1>1, PTL DEF KSpec, LostLocksStayLost
=============================================================================
