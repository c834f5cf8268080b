------------------------------- MODULE RootFs -------------------------------
(***************************************************************************)
(* How the file systems come up in kernel_main: vfs_mount("/", tmpfs()),   *)
(* then a file or directory for every header of the ustar archive, then    *)
(* devfs_init().  The archive is a sequence of 512-byte blocks: a header,  *)
(* the file's data, the next header, and a block of zeros at the end.      *)
(***************************************************************************)
EXTENDS Vfs, FiniteSetsExt

CONSTANTS Archives,      \* the archives that the boot loader may hand over,
                         \* each a sequence of headers in the order of tar
          BlockSize,     \* 512
          MaxDirty       \* bound: malloc gives clean blocks once so many
                         \* nodes are dirty

ASSUME BlockAssumption == BlockSize \in Nat \ {0} /\ MaxDirty \in Nat

\* What the program reads of a header.  tar writes names without a '/' in front,
\* and those of directories with one behind.
Header == [kind : {"dir", "file"}, path : Seq(STRING), size : Nat]
ASSUME ArchiveAssumption ==
    \A entries \in Archives :
        /\ entries \in Seq(Header)
        /\ \A i \in DOMAIN entries :
              /\ entries[i].path # <<>> /\ entries[i].path[1] # ""
              /\ entries[i].kind = "dir" => Last(entries[i].path) = ""

VARIABLES archive,       \* the entries of the archive
          address,       \* the block that create_tmpfs_files looks at, from 1
          phase,         \* "mount", "archive", "devfs", "up"
          tree,          \* the VfsNodes
          errno,         \* "none", or the error that is not reported yet
          halted         \* "no", or why the kernel stopped

bootVars == <<archive, address, phase, tree, errno, halted>>

\* The blocks of an archive (the format is tar's).
DataBlocks(size) == size \div BlockSize + (IF size % BlockSize = 0 THEN 0 ELSE 1)
Blocks(entries) ==
    Append(FlattenSeq([i \in DOMAIN entries |->
               <<entries[i]>> \o [j \in 1..DataBlocks(entries[i].size) |-> [kind |-> "data"]]]),
           [kind |-> "end"])

BootInit ==
    /\ archive \in Archives
    /\ address = 1
    /\ phase = "mount"
    /\ tree = <<>>
    /\ errno = "none"
    /\ halted = "no"

\* A name that was not terminated and runs on; it stands for every such name.
Longer == "?"

IsDirty(n) == n.junk # {} \/ n.name = <<Longer>>
DirtyNow == Cardinality({i \in DOMAIN tree : IsDirty(tree[i])})

\* The memory that the next operation gets from malloc.
Malloced == IF DirtyNow < MaxDirty THEN BOOLEAN ELSE {FALSE}

\* Why the kernel stopped in an operation that yields file.
StopOf(file) == IF file = Fault THEN "fault" ELSE IF file = Wild THEN "junk" ELSE "no"

\* What an operation on the tree leaves behind.
Outcome(r) ==
    /\ tree' = r.tree
    /\ halted' = StopOf(r.file)
    /\ errno' = IF r.error = "none" THEN errno ELSE r.error

MountRoot ==
    /\ phase = "mount" /\ halted = "no"
    /\ \E dirty \in Malloced : Outcome(vfs_mount(tree, <<"", "">>, "tmpfs", dirty))
    /\ phase' = "archive"
    /\ UNCHANGED <<archive, address>>

\* How far the next header is: the header, the full blocks, the last one.
NextHeader(size) == size \div BlockSize + 1 + (IF size % BlockSize # 0 THEN 1 ELSE 0)

\* "/" and the name of the header, a directory's without its last '/'.
EntryPath(h) == <<"">> \o (IF h.kind = "dir" THEN Front(h.path) ELSE h.path)

\* The copy of the name has no terminator and ends where malloc's memory happens
\* to be zero: behind the name, or later, in the last segment or in further ones.
CopiedPaths(h) ==
    {EntryPath(h)} \cup
    IF DirtyNow < MaxDirty
    THEN {Append(Front(EntryPath(h)), Longer), Append(EntryPath(h), Longer)} ELSE {}

\* One round of create_tmpfs_files.  Data taken for a header are junk.
ReadHeader ==
    /\ phase = "archive" /\ halted = "no"
    /\ LET h == Blocks(archive)[address]
       IN  \/ /\ h.kind = "end"
              /\ phase' = "devfs"
              /\ UNCHANGED <<archive, address, tree, errno, halted>>
           \/ /\ h.kind = "data"
              /\ halted' = "junk"
              /\ UNCHANGED <<archive, address, phase, tree, errno>>
           \/ /\ h.kind \in {"dir", "file"}
              /\ \E dirty \in Malloced, path \in CopiedPaths(h) :
                    Outcome(IF h.kind = "dir" THEN vfs_mkdir(tree, path, dirty)
                            ELSE tmpfs_create_file(tree, path, h.size, dirty))
              /\ address' = address + NextHeader(h.size)
              /\ UNCHANGED <<archive, phase>>

devfs_init ==
    /\ phase = "devfs" /\ halted = "no"
    /\ \E d, e \in Malloced : \E m \in {vfs_mount(tree, <<"", "dev">>, "devfs", d)} :
          Outcome(IF m.file \in Stops THEN m
                  ELSE vfs_open(m.tree, Root, <<"", "dev", "tty">>, {"O_CREAT"}, e))
    /\ phase' = "up"
    /\ UNCHANGED <<archive, address>>

BootNext == MountRoot \/ ReadHeader \/ devfs_init

-----------------------------------------------------------------------------
(* What the tree is meant to be.  The operations find nodes downwards,     *)
(* through the lists of children; the properties name them upwards,        *)
(* through the parent pointers.                                            *)

IsDot(n) == tree[n].name \in {<<".">>, <<"..">>}

\* The names on the way from the root down to n; NoPath for "." and ".." and
\* what was made below them.
NoPath == <<<<>>>>
PathOf ==
    LET up[n \in DOMAIN tree] ==
            IF n = Root THEN <<>>
            ELSE IF IsDot(n) \/ up[tree[n].parent] = NoPath THEN NoPath
            ELSE Append(up[tree[n].parent], tree[n].name)
    IN  up

\* The path of segments p as a list of names.
NamesOf(p) == [i \in 1..Len(p) - 1 |-> <<p[i + 1]>>]

\* The oldest node with path p; NULL if there is none.
NodeAt(p) ==
    LET found == {n \in DOMAIN tree : PathOf[n] = NamesOf(p)}
    IN  IF found = {} THEN NULL ELSE Min(found)

\* What vfs_open finds before it looks at the flags.
Lookup(p) == Found(tree, vfs_get_parent(tree, Root, p), p)

\* Absolute paths of plain segments.
IsPlain(p) == Len(p) > 1 /\ p[1] = "" /\ \A i \in 2..Len(p) : p[i] \notin {"", ".", ".."}

\* Every node but the root is in one list of children, once: that of the node
\* its parent pointer names.  A directory's ".." leads to its parent and its
\* "." to itself (vfs_mkdir, tmpfs_create_file and vfs_open each make these
\* links by hand).
Linked ==
    \A n \in DOMAIN tree \ {Root} :
        \E d \in DOMAIN tree : \E i \in DOMAIN tree[d].children :
            /\ tree[d].children[i] = n
            /\ \A e \in DOMAIN tree : \A j \in DOMAIN tree[e].children :
                  tree[e].children[j] = n => e = d /\ j = i
            /\ \/ tree[n].parent = d
               \/ tree[n].name = <<"..">> /\ tree[n].points_to = tree[d].parent
               \/ tree[n].name = <<".">> /\ tree[n].points_to = d

\* While create_tmpfs_files runs, address is always at a header or at the end
\* of the archive, never inside a file's data: the step over the data is right
\* for sizes that fill their last block and for those that do not.
AtHeader ==
    phase = "archive" /\ halted = "no" =>
        address \in DOMAIN Blocks(archive) /\ Blocks(archive)[address].kind # "data"

\* When the archive has been read, the tree has exactly its entries, each at its
\* own path, as a directory or as a file of its size, unless the copy of some
\* name ran on.  (A directory whose parent is missing is dropped and leaves
\* ENOENT behind.)
Unpacked ==
    phase = "devfs" /\ halted = "no" /\ errno = "none"
        /\ (\A n \in DOMAIN tree : tree[n].name # <<Longer>>) =>
        /\ \A i \in DOMAIN archive :
              LET n == NodeAt(EntryPath(archive[i]))
              IN  /\ n # NULL
                  /\ tree[n].type = archive[i].kind
                  /\ tree[n].st_size = archive[i].size
        /\ {PathOf[n] : n \in DOMAIN tree} \ {<<>>, NoPath}
              = {NamesOf(EntryPath(archive[i])) : i \in DOMAIN archive}

\* The archive is read header by header, and all of it arrives.
ArchiveRead == AtHeader /\ Unpacked

\* Unless the archive brings a directory dev of its own, which then hides the
\* one of devfs, the nodes below /dev belong to devfs and the others to tmpfs:
\* the terminal that a process reads and writes is the serial line.
MountsApart ==
    phase = "up" /\ halted = "no"
        /\ (\A i \in DOMAIN archive : NamesOf(EntryPath(archive[i])) # <<<<"dev">>>>) =>
        \A n \in DOMAIN tree : PathOf[n] # NoPath =>
            tree[n].mountpoint =
                IF PathOf[n] # <<>> /\ PathOf[n][1] = <<"dev">> THEN "devfs" ELSE "tmpfs"
=============================================================================
