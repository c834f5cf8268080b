-------------------------------- MODULE Vfs --------------------------------
(***************************************************************************)
(* The tree of VfsNodes of fs/vfs.c, and the operations that read it and   *)
(* add to it.                                                              *)
(*                                                                         *)
(* A tree is a sequence of nodes in the order of their malloc; a VfsNode   *)
(* pointer is an index into it, node 1 is the root.  A string is the       *)
(* sequence of the segments that '/' cuts it into, the empty ones          *)
(* included, which is how the kernel's strtok cuts: "/bin/sh" is           *)
(* <<"", "bin", "sh">>, "sh" is <<"sh">>.                                  *)
(*                                                                         *)
(* Nodes come from malloc and most of their fields are never set.  A dirty *)
(* node's unset fields hold Junk, a clean one's hold zeros.  Operations    *)
(* yield Fault where they go through NULL and Wild where they go through   *)
(* Junk: the kernel stops there.                                           *)
(***************************************************************************)
EXTENDS Vec, SequencesExt

NULL  == 0
Fault == -1
Wild  == -2
Stops == {Fault, Wild}

\* What was never written is told apart from every pointer.
ASSUME JunkAssumption == Junk \notin Int

Root == 1

\* What an unset field of a file or directory can be junk in.
Fields == {"mountpoint", "st_size", "cursor", "init", "address", "internal_address"}

\* append is the O_APPEND bit of o_mode, room the number of bytes of the heap
\* block at address (0 if address is NULL), freed says that the block was freed,
\* archived that internal_address points into the archive.
Node(dirty) ==
    [type |-> "file", name |-> <<>>, parent |-> NULL,
     points_to |-> IF dirty THEN Junk ELSE NULL,
     children |-> IF dirty THEN <<Junk>> ELSE <<>>,
     mountpoint |-> "none", st_size |-> 0, cursor |-> 0, append |-> FALSE,
     room |-> 0, freed |-> FALSE, archived |-> FALSE, init |-> FALSE,
     junk |-> IF dirty THEN Fields ELSE {}]

\* A malloc(sizeof(VfsNode)) whose fields in f are then assigned; pointers that
\* the model only knows as set or not are in f as TRUE.
NewNode(dirty, f) ==
    [x \in DOMAIN Node(dirty) |->
        IF x \in DOMAIN f THEN f[x]
        ELSE IF x = "junk" THEN Node(dirty).junk \ DOMAIN f
        ELSE Node(dirty)[x]]

\* Faulty: every new node goes into the root's list.
AddToRoot(t, node) ==
    Append([t EXCEPT ![Root].children = Append(@, Len(t) + 1)], node)

\* Append node to the tree and to its parent's children.
AddChild(t, node) ==
    Append([t EXCEPT ![node.parent].children = Append(@, Len(t) + 1)], node)

-----------------------------------------------------------------------------
(* Names and paths.                                                        *)

\* The text behind the last '/' of a path that starts with one and goes on;
\* any other string as it is.
basename(path) ==
    IF path[1] # "" \/ path \in {<<"">>, <<"", "">>} THEN path ELSE <<path[Len(path)]>>

\* Faulty: the newest child of that name.
ChildNamedLast(t, children, name) ==
    LET i == SelectLastInSeq(children, LAMBDA c : c = Junk \/ t[c].name = name)
    IN  IF i = 0 THEN NULL ELSE IF children[i] = Junk THEN Wild ELSE children[i]

\* The first of the children named name, or NULL.
ChildNamed(t, children, name) ==
    LET i == SelectInSeq(children, LAMBDA c : c = Junk \/ t[c].name = name)
    IN  IF i = 0 THEN NULL ELSE IF children[i] = Junk THEN Wild ELSE children[i]

\* What "." or ".." points to is searched first, then the node itself.
vfs_find_node(t, start, name) ==
    IF start = NULL THEN Fault
    ELSE IF start = Junk \/ t[start].points_to = Junk THEN Wild
    ELSE LET via == t[start].points_to
             there == IF via = NULL THEN NULL
                      ELSE ChildNamed(t, t[via].children, name)
         IN  IF there # NULL THEN there ELSE ChildNamed(t, t[start].children, name)

\* node[i] is the C variable node after i rounds of the loop.  A return from
\* the middle of the loop is always in its last round.
vfs_get_parent(t, start, path) ==
    LET n == Len(path)
        node[i \in 0..n - 1] ==
            IF i = 0 THEN start
            ELSE IF node[i - 1] \in Stops THEN node[i - 1]
            ELSE IF path[i] # ""
            THEN IF i + 1 = n THEN node[i - 1]
                 ELSE vfs_find_node(t, node[i - 1], <<path[i + 1]>>)
            ELSE IF n = 2 THEN start ELSE vfs_find_node(t, start, <<path[i + 1]>>)
    IN  node[n - 1]

-----------------------------------------------------------------------------
(* Operations that change the tree.  Each yields the new tree, the pointer *)
(* that the C function returns (Fault or Wild if the kernel stops in it)   *)
(* and whether it sets errno.                                              *)

Result(t, file, error) == [tree |-> t, file |-> file, error |-> error]

\* The entries ".." and "." of the directory new.
DotEntries(dirty, new, parent) ==
    <<NewNode(dirty, [type |-> "dir", name |-> <<"..">>, points_to |-> parent]),
      NewNode(dirty, [type |-> "dir", name |-> <<".">>, points_to |-> new])>>

\* vfs_mkdir once it has the parent.  The first directory is the root, and its
\* Mountpoint has no file system yet; any other one gets the entries ".." and "." and the mountpoint of the root.
MkdirIn(t, parent, path, dirty) ==
    LET new == Len(t) + 1
        root == NewNode(dirty, [type |-> "dir", parent |-> new, name |-> path,
                                mountpoint |-> "none", children |-> <<>>])
        dir == NewNode(dirty, [type |-> "dir", parent |-> parent, name |-> basename(path),
                               mountpoint |-> t[Root].mountpoint,
                               children |-> <<new + 1, new + 2>>])
    IN  IF path = <<"", "">> THEN Result(<<root>>, new, "none")
        ELSE IF parent = NULL THEN Result(t, NULL, "ENOENT")
        ELSE IF parent \in Stops THEN Result(t, parent, "none")
        ELSE IF Contains(t[parent].children, Junk) THEN Result(t, Wild, "none")
        ELSE Result(AddChild(t, dir) \o DotEntries(dirty, new, parent), new, "none")

vfs_mkdir(t, path, dirty) == MkdirIn(t, vfs_get_parent(t, Root, path), path, dirty)

\* Faulty: the file system is only entered for the root.
MountRootOnly(r, fs) ==
    IF r.file \in Stops THEN r
    ELSE IF r.file = NULL THEN [r EXCEPT !.file = Fault]
    ELSE [r EXCEPT !.tree[Root].mountpoint = fs]

\* The new directory gets the file system; a vfs_mkdir that failed gave NULL.
MountOn(r, fs) ==
    IF r.file \in Stops THEN r
    ELSE IF r.file = NULL THEN [r EXCEPT !.file = Fault]
    ELSE [r EXCEPT !.tree[r.file].mountpoint = fs]

vfs_mount(t, where, fs, dirty) == MountOn(vfs_mkdir(t, where, dirty), fs)

\* Faulty: the file is named by its whole path.
FileNodeFullName(t, parent, path, size, dirty) ==
    NewNode(dirty, [name |-> path, parent |-> parent, mountpoint |-> t[parent].mountpoint,
                    st_size |-> size, address |-> TRUE, room |-> size + 1,
                    internal_address |-> TRUE, archived |-> TRUE])

\* The node of a file of the archive, with a buffer for its bytes and one more.
FileNode(t, parent, path, size, dirty) ==
    NewNode(dirty, [name |-> basename(path), parent |-> parent,
                    mountpoint |-> t[parent].mountpoint,
                    st_size |-> size, address |-> TRUE, room |-> size + 1,
                    internal_address |-> TRUE, archived |-> TRUE])

\* tmpfs_create_file once it has the parent, which it does not test.
CreateFileIn(t, parent, path, size, dirty) ==
    IF parent \in {NULL, Fault} THEN Result(t, Fault, "none")
    ELSE IF parent = Wild \/ Contains(t[parent].children, Junk) THEN Result(t, Wild, "none")
    ELSE Result(AddChild(t, FileNode(t, parent, path, size, dirty)), Len(t) + 1, "none")

tmpfs_create_file(t, path, size, dirty) ==
    CreateFileIn(t, vfs_get_parent(t, Root, path), path, size, dirty)

\* The new file of an open with O_CREAT, with a buffer of two bytes.
CreatedNode(t, parent, path, flags, dirty) ==
    LET n == NewNode(dirty,
               [name |-> basename(path), parent |-> parent, append |-> "O_APPEND" \in flags,
                mountpoint |-> t[parent].mountpoint, address |-> TRUE, room |-> 2])
    IN  [n EXCEPT !.junk = @ \cup (t[parent].junk \cap {"mountpoint"})]

\* vfs_open once it has found parent and node (see Found).  A points_to that is
\* Junk is returned like any other.
OpenNode(t, parent, node, path, flags, dirty) ==
    LET opened == [t EXCEPT ![node].append = "O_APPEND" \in flags]
    IN  IF parent \in Stops THEN Result(t, parent, "none")
        ELSE IF parent = NULL THEN Result(t, NULL, "ENOENT")
        ELSE IF node = Wild THEN Result(t, Wild, "none")
        ELSE IF node = NULL THEN
             IF "O_CREAT" \notin flags THEN Result(t, NULL, "ENOENT")
             ELSE IF Contains(t[parent].children, Junk) THEN Result(t, Wild, "none")
             ELSE Result(AddChild(t, CreatedNode(t, parent, path, flags, dirty)),
                         Len(t) + 1, "none")
        ELSE IF t[node].type = "dir" /\ "O_DIRECTORY" \notin flags THEN
             Result(t, NULL, "EISDIR")
        ELSE Result(opened, IF "O_CREAT" \in flags \/ t[node].points_to = NULL THEN node
                            ELSE t[node].points_to, "none")

\* The node that vfs_open finds below parent; parent itself if that is no node.
Found(t, parent, path) ==
    IF parent \in Stops \cup {NULL} THEN parent ELSE vfs_find_node(t, parent, basename(path))

OpenIn(t, parent, path, flags, dirty) ==
    OpenNode(t, parent, Found(t, parent, path), path, flags, dirty)

\* start is not used: the path is always looked up from the root.
vfs_open(t, start, path, flags, dirty) ==
    OpenIn(t, vfs_get_parent(t, Root, path), path, flags, dirty)
=============================================================================
