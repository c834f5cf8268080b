------------------------------- MODULE Files -------------------------------
(***************************************************************************)
(* The system calls on files (syscalls.c), the descriptors of each task,   *)
(* and the reads and writes of tmpfs and devfs, from the moment the file   *)
(* systems are up.  A system call is one step: see Sched for what happens  *)
(* to one that is interrupted.                                             *)
(*                                                                         *)
(* The kernel stops ("halted") when it goes through a NULL pointer         *)
(* ("fault": page 0 is not mapped), reads a field that was never set       *)
(* ("junk"), uses a heap block that was freed ("freed"), writes outside a  *)
(* heap block ("overrun") or moves a negative number of bytes ("splice").  *)
(***************************************************************************)
EXTENDS RootFs, Functions

CONSTANTS TaskIds,       \* the tasks that may come to be
          FirstTask,     \* the one that kernel_main starts
          Program,       \* the path that is executed
          Interpreters,  \* the ld.so that it may name, as paths
          Paths,         \* the paths that a process opens
          FlagSets,      \* the flags that it passes in r10, as sets
          Counts,        \* the sizes of its reads and writes
          Seeks,         \* its seeks, <<whence, offset>>
          Lines,         \* the lengths of the lines typed on the terminal
          Fds,           \* the descriptors that it passes
          MaxFds,        \* bound on the length of a descriptor table
          MaxNodes,      \* bound on the number of nodes
          MaxSize        \* bound on sizes and positions

ASSUME FilesAssumption ==
    /\ FirstTask \in TaskIds
    /\ Counts \subseteq Nat \ {0} /\ Lines \subseteq Nat \ {0} /\ Fds \subseteq Nat
    /\ Paths \cup {Program} \cup Interpreters \subseteq Seq(STRING) \ {<<>>}
    /\ Seeks \subseteq STRING \X Int
    /\ Junk \notin [fd : Nat, file : Int \cup {Junk}]
    /\ MaxFds \in Nat /\ MaxNodes \in Nat /\ MaxSize \in Nat

VARIABLES tasks,         \* for every task its state and its descriptors
          opened,        \* the descriptors that each process was given and has
                         \* not closed, with the files it opened
          closed,        \* the files that were closed at least once
          gentle,        \* no call has been a careless one (see below)
          rewritten,     \* the files that were written elsewhere than at their end
          last           \* the last system call and what it returned

vars == <<bootVars, tasks, opened, closed, gentle, rewritten, last>>

\* file and meant: what a close has dealt with, and what its descriptor stood for.
NoCall == [op |-> "none", error |-> FALSE, failed |-> FALSE, file |-> NULL, meant |-> NULL]
NoDescriptors == [state |-> "unborn", descriptors |-> VecInit, current_fd |-> 0]

Init ==
    /\ BootInit
    /\ tasks = [p \in TaskIds |-> NoDescriptors]
    /\ opened = [p \in TaskIds |-> <<>>]
    /\ closed = {}
    /\ gentle = TRUE
    /\ rewritten = {}
    /\ last = NoCall

-----------------------------------------------------------------------------
(* Reads and writes of one node.  Each yields the node, why the kernel     *)
(* stops ("no" if it does not) and the value that is returned.             *)

Done(f, ret)    == [node |-> f, halt |-> "no", ret |-> ret]
StopIn(f, why)  == [node |-> f, halt |-> why, ret |-> -1]
IsJunk(f, set)  == set \cap f.junk # {}
Put(f, set)     == [f EXCEPT !.junk = @ \ set]

\* The first read of a file copies the archive's bytes into its buffer and
\* overwrites the last one.
LoadStops(f) ==
    IF IsJunk(f, {"address", "st_size", "internal_address"}) THEN "junk"
    ELSE IF f.room = 0 \/ (f.st_size > 0 /\ ~f.archived) THEN "fault"
    ELSE IF f.freed THEN "freed"
    ELSE IF f.st_size = 0 \/ f.st_size > f.room THEN "overrun"
    ELSE "no"

\* Nothing keeps the copy inside the buffer; it only reads.
tmpfs_read(f, count, buffer) ==
    IF IsJunk(f, {"init"}) THEN StopIn(f, "junk")
    ELSE IF ~f.init /\ LoadStops(f) # "no" THEN StopIn(f, LoadStops(f))
    ELSE LET g == [f EXCEPT !.init = TRUE]
         IN  IF ~buffer THEN Done(g, -1)
             ELSE IF IsJunk(g, {"cursor"}) THEN StopIn(g, "junk")
             ELSE Done([g EXCEPT !.cursor = @ + count], count)

\* Faulty: realloc without the bytes that are to be added.
tmpfs_append_short(f, count) ==
    IF IsJunk(f, {"st_size", "address"}) THEN StopIn(f, "junk")
    ELSE IF f.freed THEN StopIn(f, "freed")
    ELSE Done([Put(f, {"cursor"}) EXCEPT !.cursor = f.st_size, !.room = f.st_size + 1,
                                         !.st_size = @ + count], 0)

tmpfs_append(f, count) ==
    IF IsJunk(f, {"st_size", "address"}) THEN StopIn(f, "junk")
    ELSE IF f.freed THEN StopIn(f, "freed")
    ELSE Done([Put(f, {"cursor"}) EXCEPT !.cursor = f.st_size, !.room = f.st_size + count + 1,
                                         !.st_size = @ + count], 0)

\* The buffer grows if the write starts at or behind the end; the size grows
\* always.
tmpfs_write(f, count) ==
    IF f.append THEN tmpfs_append(f, count)
    ELSE LET grows == f.cursor >= f.st_size
             room == IF grows THEN f.st_size + count + 1 ELSE f.room
         IN  IF IsJunk(f, {"st_size", "address", "cursor"}) THEN StopIn(f, "junk")
             ELSE IF f.freed THEN StopIn(f, "freed")
             ELSE IF room = 0 THEN StopIn(f, "fault")
             ELSE IF f.cursor < 0 \/ f.cursor + count > room THEN StopIn(f, "overrun")
             ELSE Done([f EXCEPT !.cursor = @ + count, !.room = room,
                                 !.st_size = @ + count], count)

\* A line from the terminal, its end and the mark behind it included, goes into
\* a block of count bytes.
devfs_read(f, count, buffer, line) ==
    IF f.name # <<"tty">> THEN Done(f, -1)
    ELSE IF line + 1 > count THEN StopIn(f, "overrun")
    ELSE IF buffer THEN Done(f, line) ELSE StopIn(f, "fault")

\* Sums with junk stay junk.
Advance(f, field, n) == IF field \in f.junk THEN 0 ELSE n

devfs_write(f, count) ==
    IF f.name # <<"tty">> THEN Done(f, -1)
    ELSE Done([f EXCEPT !.cursor = @ + Advance(f, "cursor", count),
                        !.st_size = @ + Advance(f, "st_size", count)], count)

\* The read and the write of the node's file system.
vfs_read(f, count, buffer, line) ==
    IF IsJunk(f, {"mountpoint"}) THEN StopIn(f, "junk")
    ELSE IF f.mountpoint = "none" THEN StopIn(f, "fault")
    ELSE IF f.mountpoint = "tmpfs" THEN tmpfs_read(f, count, buffer)
    ELSE devfs_read(f, count, buffer, line)

vfs_write(f, count) ==
    LET w == IF f.mountpoint = "tmpfs" THEN tmpfs_write(f, count) ELSE devfs_write(f, count)
    IN  IF IsJunk(f, {"mountpoint"}) THEN StopIn(f, "junk")
        ELSE IF f.mountpoint = "none" THEN StopIn(f, "fault")
        ELSE [w EXCEPT !.ret = IF @ = -1 THEN -1 ELSE count]

-----------------------------------------------------------------------------
(* Descriptors.                                                            *)

AT_FDCWD == -100

\* get_fd(fd).file: the test on fd only logs; the slot is read all the same.
FileIn(descriptors, fd) ==
    LET d == VecAt(descriptors, fd) IN IF d = Junk THEN Junk ELSE d.file
get_fd(p, fd) == FileIn(tasks[p].descriptors, fd)

\* Why going through a VfsNode pointer stops the kernel.
DerefStops(file) == IF file = NULL THEN "fault" ELSE IF file = Junk THEN "junk" ELSE "no"

IsInvalid(p, fd) == fd >= tasks[p].descriptors.length

CanCall(p) == phase = "up" /\ halted = "no" /\ tasks[p].state = "alive"

\* Faulty: the error stays set.
dispatch_keeps_errno(call, error, ret) ==
    /\ errno' = IF error # "none" THEN error ELSE errno
    /\ last' = [call EXCEPT !.error = error # "none",
                            !.failed = errno # "none" \/ error # "none" \/ ret = -1]

\* The end of syscall_dispatch: an error that is set is reported and cleared.
syscall_dispatch(call, error, ret) ==
    /\ errno' = "none"
    /\ last' = [call EXCEPT !.error = error # "none",
                            !.failed = errno # "none" \/ error # "none" \/ ret = -1]

Call(op) == [NoCall EXCEPT !.op = op]

\* The calls after which the kernel gives no guarantee, of whatever process:
\* one on a descriptor that the process does not have;
Careless(p, fd) == fd \notin DOMAIN opened[p]

\* an open or execve of a file that was closed before (sys_close has freed its
\* buffer, and whoever reads or writes it next goes through the old address);
CarelessOpen(file) == file \in closed

\* a close that is not of the newest descriptor, or of a file that is open
\* elsewhere or was closed before.
OpenElsewhere(p, fd, file) ==
    \E q \in TaskIds : \E e \in DOMAIN opened[q] : opened[q][e] = file /\ <<q, e>> # <<p, fd>>
CarelessClose(p, fd) ==
    \/ Careless(p, fd)
    \/ fd # tasks[p].descriptors.length - 1
    \/ opened[p][fd] \in closed
    \/ OpenElsewhere(p, fd, opened[p][fd])

-----------------------------------------------------------------------------
(* The system calls.                                                       *)

AddDescriptor(task, file) ==
    [task EXCEPT !.descriptors = vec_push(@, [fd |-> task.current_fd, file |-> file]),
                 !.current_fd = @ + 1]

\* The descriptors in held, and fd on file.
Holding(held, fd, file) ==
    [e \in DOMAIN held \cup {fd} |-> IF e = fd THEN file ELSE held[e]]

StartOf(p, dirfd) == IF dirfd = AT_FDCWD THEN Root ELSE get_fd(p, dirfd)

sys_openat(p, dirfd, path, flags) ==
    /\ CanCall(p)
    /\ tasks[p].descriptors.length < MaxFds
    /\ \E dirty \in IF "O_CREAT" \in flags THEN Malloced ELSE {FALSE},
          parent \in {vfs_get_parent(tree, StartOf(p, dirfd), path)} :
       \E r \in {IF parent \in Stops THEN Result(tree, parent, "none")
                 ELSE IF parent = NULL THEN Result(tree, NULL, "ENOENT")
                 ELSE vfs_open(tree, parent, path, flags, dirty)} :
          LET fd == tasks[p].current_fd
              pushed == parent # NULL /\ r.file \notin Stops
          IN  /\ Len(r.tree) <= MaxNodes
              /\ tree' = r.tree
              /\ halted' = StopOf(r.file)
              /\ tasks' = IF pushed THEN [tasks EXCEPT ![p] = AddDescriptor(@, r.file)] ELSE tasks
              /\ syscall_dispatch(Call("openat"), r.error, fd)
              /\ opened' = IF pushed /\ ~last'.failed
                           THEN [opened EXCEPT ![p] = Holding(@, fd, r.file)] ELSE opened
              /\ gentle' = (gentle /\ ~CarelessOpen(r.file)
                               /\ (dirfd = AT_FDCWD \/ ~Careless(p, dirfd)))
    /\ UNCHANGED <<archive, address, phase, closed, rewritten>>

\* A call on the file of fd with outcome r, if it goes through the pointer.
FileCall(p, fd, op, derefs, r, error) ==
    LET file == get_fd(p, fd)
        stops == IF derefs THEN DerefStops(file) ELSE "no"
    IN  /\ CanCall(p)
        /\ halted' = IF stops # "no" THEN stops ELSE r.halt
        /\ tree' = IF derefs /\ stops = "no" THEN [tree EXCEPT ![file] = r.node] ELSE tree
        /\ syscall_dispatch(Call(op), error, r.ret)
        /\ gentle' = (gentle /\ ~Careless(p, fd))
        /\ UNCHANGED <<archive, address, phase, tasks, opened, closed>>

NodeOf(p, fd) == IF DerefStops(get_fd(p, fd)) = "no" THEN tree[get_fd(p, fd)] ELSE Node(FALSE)

\* Both tmpfs_read and sys_read move the cursor.
sys_read(p, fd, count, buffer, line) ==
    LET r == vfs_read(NodeOf(p, fd), count, buffer, line)
        f == [r.node EXCEPT !.cursor = @ + Advance(r.node, "cursor", count)]
    IN  /\ f.cursor <= MaxSize
        /\ FileCall(p, fd, "read", TRUE, [r EXCEPT !.node = f], "none")
        /\ UNCHANGED rewritten

sys_write(p, fd, count) ==
    LET f == NodeOf(p, fd)
        r == vfs_write(f, count)
    IN  /\ r.node.cursor <= MaxSize /\ r.node.st_size <= MaxSize
        /\ FileCall(p, fd, "write", TRUE, r, "none")
        /\ rewritten' = IF f.mountpoint = "tmpfs" /\ ~f.append /\ f.cursor # f.st_size
                        THEN rewritten \cup {get_fd(p, fd)} ELSE rewritten

sys_seek(p, fd, whence, offset) ==
    LET f == NodeOf(p, fd)
        base == IF whence = "SEEK_SET" THEN offset
                ELSE IF whence = "SEEK_CUR" THEN f.cursor + offset
                ELSE IF whence = "SEEK_END" THEN f.st_size + offset
                ELSE -1
        fromJunk == \/ whence = "SEEK_CUR" /\ IsJunk(f, {"cursor"})
                    \/ whence = "SEEK_END" /\ IsJunk(f, {"st_size"})
        known == whence \in {"SEEK_SET", "SEEK_CUR", "SEEK_END"}
    IN  /\ base <= MaxSize
        /\ FileCall(p, fd, "seek", known,
                    Done(IF fromJunk THEN [f EXCEPT !.junk = @ \cup {"cursor"}]
                         ELSE [Put(f, {"cursor"}) EXCEPT !.cursor = base], base),
                    IF known THEN "none" ELSE "EINVAL")
        /\ UNCHANGED rewritten

\* Faulty: the number is not given back.
CloseSlotKeepsNumber(task, cut) == [task EXCEPT !.descriptors = cut]

CloseSlot(task, cut) == [task EXCEPT !.descriptors = cut, !.current_fd = @ - 1]

\* Faulty: the newest descriptor that is left.
ClosedNewest(cut, fd) == FileIn(cut, cut.length - 1)

\* The file that sys_close deals with is looked up after the slot is cut out.
ClosedFile(cut, fd) == FileIn(cut, fd)

sys_close(p, fd) ==
    LET cut == vec_splice(tasks[p].descriptors, fd, 1)
        file == ClosedFile(cut, fd)
        f == tree[file]
        stops == IF IsInvalid(p, fd) THEN "splice"
                 ELSE IF DerefStops(file) # "no" THEN DerefStops(file)
                 ELSE IF IsJunk(f, {"address"}) THEN "junk"
                 ELSE IF f.freed THEN "freed"
                 ELSE "no"
    IN  /\ CanCall(p)
        /\ halted' = stops
        /\ IF stops # "no" THEN UNCHANGED <<tree, tasks, opened, closed, last, errno>>
           ELSE /\ tree' = [tree EXCEPT ![file] = [Put(f, {"init", "cursor"}) EXCEPT
                                !.init = FALSE, !.cursor = 0, !.freed = f.room > 0]]
                /\ tasks' = [tasks EXCEPT ![p] = CloseSlot(@, cut)]
                /\ syscall_dispatch([Call("close") EXCEPT !.file = file,
                                                          !.meant = get_fd(p, fd)], "none", 0)
                /\ opened' = [opened EXCEPT ![p] = Restrict(@, DOMAIN @ \ {fd})]
                /\ closed' = closed \cup {file}
        /\ gentle' = (gentle /\ ~CarelessClose(p, fd))
        /\ UNCHANGED <<archive, address, phase, rewritten>>

\* vec_deinit; the files stay as they are, and so does current_fd.
Exited(task) == [task EXCEPT !.state = "dead", !.descriptors = VecInit]

sys_exit(p) ==
    /\ CanCall(p)
    /\ tasks' = [tasks EXCEPT ![p] = Exited(@)]
    /\ opened' = [opened EXCEPT ![p] = <<>>]
    /\ last' = NoCall
    /\ UNCHANGED <<bootVars, closed, gentle, rewritten>>

\* sched_new_elf_process reads all of a file from its start: the program, and in
\* the end the ld.so that it names, if it does.
ReadAll(file, f) ==
    IF file \in {NULL, Fault} THEN StopIn(Node(FALSE), "fault")
    ELSE IF file \in {Wild, Junk} THEN StopIn(Node(FALSE), "junk")
    ELSE IF IsJunk(f, {"st_size"}) THEN StopIn(f, "junk")
    ELSE vfs_read(f, f.st_size, TRUE, f.st_size)
Loaded(elf, r) ==
    [halt |-> r.halt, file |-> elf.file,
     tree |-> IF r.halt = "no" THEN [elf.tree EXCEPT ![elf.file] = r.node] ELSE elf.tree]
LoadProgram(elf) == Loaded(elf, ReadAll(elf.file, elf.tree[elf.file]))
NoInterpreter(t) == [halt |-> "no", file |-> NULL, tree |-> t]

\* In between the task gets three descriptors of the terminal, or none; a
\* terminal that cannot be opened leaves its error in errno.
sched_new_elf_process(q, stdio) ==
    /\ tasks[q].state = "unborn"
    /\ \E elf \in {LoadProgram(vfs_open(tree, Root, Program, {}, FALSE))} :
       \E tty \in {IF stdio THEN vfs_open(elf.tree, Root, <<"", "dev", "tty">>, {}, FALSE)
                   ELSE Result(elf.tree, NULL, "none")} :
       \E ld \in {NoInterpreter(tty.tree)} \cup
                 {LoadProgram(vfs_open(tty.tree, Root, path, {}, FALSE)) : path \in Interpreters} :
          LET stops == IF elf.halt # "no" THEN elf.halt
                       ELSE IF StopOf(tty.file) # "no" THEN StopOf(tty.file) ELSE ld.halt
              new == [NoDescriptors EXCEPT !.state = "alive"]
              std == AddDescriptor(AddDescriptor(AddDescriptor(new, tty.file), tty.file),
                                   tty.file)
          IN  /\ \A n \in DOMAIN tree : ld.tree[n].cursor <= MaxSize
              /\ halted' = stops
              /\ tree' = ld.tree
              /\ stdio => errno' = IF tty.error = "none" THEN errno ELSE tty.error
              /\ tasks' = IF stops # "no" THEN tasks
                          ELSE [tasks EXCEPT ![q] = IF stdio THEN std ELSE new]
              /\ opened' = IF stops # "no" \/ ~stdio THEN opened
                           ELSE [opened EXCEPT ![q] = [fd \in 0..2 |-> tty.file]]
              /\ gentle' = (gentle /\ ~\E r \in {elf, tty, ld} : CarelessOpen(r.file))
    /\ UNCHANGED <<archive, address, phase, closed, rewritten>>

StartFirstTask ==
    /\ phase = "up" /\ halted = "no"
    /\ sched_new_elf_process(FirstTask, TRUE)
    /\ UNCHANGED last

sys_execve(p, q) ==
    /\ CanCall(p) /\ q # FirstTask
    /\ sched_new_elf_process(q, FALSE)
    /\ syscall_dispatch(Call("execve"), "none", 0)

-----------------------------------------------------------------------------

Boot == BootNext /\ UNCHANGED <<tasks, opened, closed, gentle, rewritten, last>>

\* The kernel has stopped, or every task has ended.
Idle ==
    /\ halted # "no" \/ (tasks[FirstTask].state = "dead"
                           /\ \A p \in TaskIds : tasks[p].state # "alive")
    /\ UNCHANGED vars

OpenAt == \E p \in TaskIds, path \in Paths, flags \in FlagSets :
              \E dirfd \in {AT_FDCWD} \cup Fds : sys_openat(p, dirfd, path, flags)
Read   == \E p \in TaskIds, fd \in Fds, n \in Counts, b \in BOOLEAN, l \in Lines :
              sys_read(p, fd, n, b, l)
Write  == \E p \in TaskIds, fd \in Fds, n \in Counts : sys_write(p, fd, n)
Seek   == \E p \in TaskIds, fd \in Fds, s \in Seeks : sys_seek(p, fd, s[1], s[2])
Close  == \E p \in TaskIds, fd \in Fds : sys_close(p, fd)
Exit   == \E p \in TaskIds : sys_exit(p)
Execve == \E p, q \in TaskIds : sys_execve(p, q)

Next ==
    \/ Boot \/ StartFirstTask \/ Idle
    \/ OpenAt \/ Read \/ Write \/ Seek \/ Close \/ Exit \/ Execve

Spec == Init /\ [][Next]_vars

-----------------------------------------------------------------------------
(* Properties.                                                             *)

TypeOK ==
    /\ halted \in {"no", "fault", "junk", "freed", "overrun", "splice"}
    /\ phase \in {"mount", "archive", "devfs", "up"}
    /\ errno \in {"none", "ENOENT", "EISDIR", "EINVAL"}
    /\ \A n \in DOMAIN tree :
          /\ tree[n].parent \in 0..Len(tree)
          /\ tree[n].points_to \in 0..Len(tree) \cup {Junk}
          /\ tree[n].mountpoint \in {"none", "tmpfs", "devfs"}
          /\ tree[n].junk \subseteq Fields
          /\ tree[n].room \in Nat /\ tree[n].st_size \in Nat
    /\ \A p \in TaskIds :
          /\ tasks[p].state \in {"unborn", "alive", "dead"}
          /\ Elements(tasks[p].descriptors)
                \subseteq [fd : Nat, file : 0..Len(tree) \cup {Junk}]
    /\ gentle \in BOOLEAN /\ closed \subseteq DOMAIN tree

\* Every node that vfs_mkdir, tmpfs_create_file, vfs_open and devfs_init made
\* has the fields and the links that lookups follow.
TreeExact == TypeOK /\ Linked

\* The number that an open returns is the slot of its descriptor: current_fd
\* and the length of the table go up and down together, through failed opens,
\* closes in any order and the standard descriptors alike.
NumberIsSlot ==
    \A p \in TaskIds :
        tasks[p].state = "alive" => tasks[p].current_fd = tasks[p].descriptors.length

\* As long as the processes use only descriptors that they have, close them in
\* the reverse order of their opening and no file while it is open elsewhere,
\* and no file that was closed is closed, opened or executed again: each
\* descriptor leads to the file it was opened on, and each close has dealt with
\* the file it was meant for.  (sys_close looks the file up after it has cut the
\* slot: it finds the right one only because the last slot of a table keeps its
\* content when it falls out of use.)
GentleIsRight ==
    gentle =>
        /\ \A p \in TaskIds : \A fd \in DOMAIN opened[p] :
              /\ ~IsInvalid(p, fd)
              /\ get_fd(p, fd) = opened[p][fd]
        /\ last.op = "close" => last.file = last.meant

\* Under the same discipline, which forbids the second open of a file that was
\* closed, the kernel does not use a file's buffer after it was freed, by a
\* read, a write, a close or the load of a program, and moves no memory by a
\* negative length.
GentleIsSafe == gentle => halted \notin {"freed", "splice"}

\* Unless a file was written elsewhere than at its end, its buffer has room for
\* all of it and one byte more: neither the archive's files nor those made by
\* O_CREAT, appended to or written on from the end, outgrow their block.
RoomForAll ==
    \A n \in DOMAIN tree \ rewritten :
        tree[n].mountpoint = "tmpfs" /\ tree[n].room > 0 /\ ~IsJunk(tree[n], {"st_size"}) =>
            tree[n].st_size < tree[n].room

\* Once the kernel is up without an error, a call reports an error if
\* and only if it made one: no error of an earlier call is left in errno.
OwnErrors ==
    /\ last.op # "none" => (last.error => last.failed)
    /\ last.op \in {"openat", "close", "execve"} => (last.failed => last.error)

\* An absolute path is resolved to the node that has this path by its parent
\* pointers, the oldest one if there are several, and to NULL if there is none.
\* (If a directory in front of the last two segments is missing,
\* vfs_find_node goes through the NULL it got for it.)
Resolves ==
    phase = "up" /\ halted = "no" =>
        \A path \in Paths : IsPlain(path) =>
            \/ Lookup(path) = NodeAt(path)
            \/ Lookup(path) = Fault /\ NodeAt(path) = NULL
                  /\ NodeAt(SubSeq(path, 1, Len(path) - 2)) = NULL
            \/ Lookup(path) = Wild /\ DirtyNow > 0

\* "." and ".." in a path lead where they should: what is found at d/x is found
\* at d/./x, and what is found at x beside d is found at d/../x.
DotsLead ==
    phase = "up" /\ halted = "no" =>
        \A path \in Paths : IsPlain(path) /\ NodeAt(path) # NULL =>
            LET d == Front(path)
                x == Last(path)
                Below(q, dot) == Lookup(q \o <<dot, x>>)
            IN  /\ Len(d) > 1 => Below(d, ".") \in {NodeAt(path), Wild}
                /\ \A q \in Paths :
                      IsPlain(q) /\ Front(q) = d /\ NodeAt(q) # NULL /\ tree[NodeAt(q)].type = "dir"
                      => Below(q, "..") \in {NodeAt(path), Wild}

\* Every kind of path is resolved by vfs_find_node as the tree says.
PathsLead == Resolves /\ DotsLead

\* What the log line "closed fd %d" says: the file that was closed is the one
\* that the descriptor stood for.
ClosedThatFile ==
    last.op = "close" /\ last.meant # NULL => last.file = last.meant
=============================================================================
