----------------------------- MODULE VfsProofs -----------------------------
(* Proofs about the tree of VfsNodes (Vfs) and about how it comes up from   *)
(* the archive (RootFs), for every archive and every size of a block.       *)
(*                                                                          *)
(* The recursive functions of the model are reasoned about by the smallest  *)
(* number for which a claim about them would fail.                          *)
EXTENDS RootFs, WellFoundedInduction, TLAPS

\* A set of natural numbers that is not empty has a least element.
LEMMA LeastNumber ==
    ASSUME NEW T \in SUBSET Nat, T # {}
    PROVE  \E x \in T : \A y \in T : x <= y
<1>1. \E x \in T : \A y \in T : <<y, x>> \notin OpToRel(<, Nat)
  BY NatLessThanWellFounded, WFMin
<1>2. \A x, y \in Nat : <<y, x>> \notin OpToRel(<, Nat) => x <= y
  BY DEF OpToRel
<1> QED
  BY <1>1, <1>2, Zenon

-----------------------------------------------------------------------------
(* Types of nodes and trees.                                               *)

\* The segments of paths.  (They are strings; the provers do not know that of a
\* literal.)
Text == STRING \cup {"", ".", "..", "dev", "tty", "?"}

FsNames == {"none", "tmpfs", "devfs"}

\* A node of a tree of m nodes.
Nodes(m) ==
    [type : {"file", "dir"}, name : Seq(Text), parent : 0..m,
     points_to : (0..m) \cup {Junk}, children : Seq((1..m) \cup {Junk}),
     mountpoint : FsNames, st_size : Nat, cursor : Int,
     append : BOOLEAN, room : Nat, freed : BOOLEAN, archived : BOOLEAN,
     init : BOOLEAN, junk : SUBSET Fields]

IsTree(t) == t \in Seq(Nodes(Len(t)))

FieldNames ==
    {"type", "name", "parent", "points_to", "children", "mountpoint", "st_size",
     "cursor", "append", "room", "freed", "archived", "init", "junk"}

\* The types of the fields one by one.
IsNode(n, m) ==
    /\ n = [x \in FieldNames |-> n[x]]
    /\ n.type \in {"file", "dir"}
    /\ n.name \in Seq(Text)
    /\ n.parent \in 0..m
    /\ n.points_to \in (0..m) \cup {Junk}
    /\ n.children \in Seq((1..m) \cup {Junk})
    /\ n.mountpoint \in FsNames
    /\ n.st_size \in Nat
    /\ n.cursor \in Int
    /\ n.append \in BOOLEAN
    /\ n.room \in Nat
    /\ n.freed \in BOOLEAN
    /\ n.archived \in BOOLEAN
    /\ n.init \in BOOLEAN
    /\ n.junk \in SUBSET Fields

\* Both say the same.
LEMMA NodeTypes ==
    ASSUME NEW n, NEW m
    PROVE  n \in Nodes(m) <=> IsNode(n, m)
<1>1. ASSUME IsNode(n, m) PROVE n \in Nodes(m)
  BY <1>1 DEF IsNode, Nodes, FieldNames
<1>2. ASSUME n \in Nodes(m) PROVE IsNode(n, m)
  BY <1>2 DEF IsNode, Nodes, FieldNames
<1> QED
  BY <1>1, <1>2

\* What a tree consists of.
LEMMA TreeNodes ==
    ASSUME NEW t, IsTree(t)
    PROVE  /\ Len(t) \in Nat
           /\ DOMAIN t = 1..Len(t)
           /\ \A i \in 1..Len(t) : t[i] \in Nodes(Len(t)) /\ IsNode(t[i], Len(t))
<1>1. t \in Seq(Nodes(Len(t)))
  BY DEF IsTree
<1> QED
  BY <1>1, NodeTypes

\* A node of a tree is a node of a larger one.
LEMMA NodesGrow ==
    ASSUME NEW m \in Nat, NEW k \in Nat, m <= k, NEW n \in Nodes(m)
    PROVE  n \in Nodes(k)
<1>1. IsNode(n, m)
  BY NodeTypes
<1>2. n.parent \in 0..k /\ n.points_to \in (0..k) \cup {Junk}
  BY <1>1 DEF IsNode
<1>3. n.children \in Seq((1..k) \cup {Junk})
  BY <1>1 DEF IsNode
<1>4. IsNode(n, k)
  BY <1>1, <1>2, <1>3 DEF IsNode
<1> QED
  BY <1>4, NodeTypes

\* The node n is what malloc gives, with the fields in f assigned.
Or(f, x, other) == IF x \in DOMAIN f THEN f[x] ELSE other
Made(n, dirty, f) ==
    /\ n = [x \in FieldNames |-> n[x]]
    /\ n.type = Or(f, "type", "file")
    /\ n.name = Or(f, "name", <<>>)
    /\ n.parent = Or(f, "parent", NULL)
    /\ n.points_to = Or(f, "points_to", IF dirty THEN Junk ELSE NULL)
    /\ n.children = Or(f, "children", IF dirty THEN <<Junk>> ELSE <<>>)
    /\ n.mountpoint = Or(f, "mountpoint", "none")
    /\ n.st_size = Or(f, "st_size", 0)
    /\ n.cursor = Or(f, "cursor", 0)
    /\ n.append = Or(f, "append", FALSE)
    /\ n.room = Or(f, "room", 0)
    /\ n.freed = Or(f, "freed", FALSE)
    /\ n.archived = Or(f, "archived", FALSE)
    /\ n.init = Or(f, "init", FALSE)
    /\ "junk" \notin DOMAIN f => n.junk = (IF dirty THEN Fields ELSE {}) \ DOMAIN f

\* The fields of a node that malloc made.
LEMMA NewNodeFields ==
    ASSUME NEW dirty, NEW f
    PROVE  Made(NewNode(dirty, f), dirty, f)
<1>1. DOMAIN Node(dirty) = FieldNames
  BY DEF Node, FieldNames
<1> QED
  BY <1>1 DEF NewNode, Node, FieldNames, Made, Or

-----------------------------------------------------------------------------
(* Looking nodes up.                                                       *)

\* Starting from start, step can be iterated n times.
LEMMA Iteration ==
    ASSUME NEW S, NEW start \in S, NEW n \in Nat, NEW step \in [1..n -> [S -> S]]
    PROVE  \E f \in [0..n -> S] :
              f[0] = start /\ \A i \in 1..n : f[i] = step[i][f[i - 1]]
<1> DEFINE Upto(m) == \E f \in [0..m -> S] :
                         f[0] = start /\ \A i \in 1..m : f[i] = step[i][f[i - 1]]
           T == {m \in 0..n : ~Upto(m)}
<1>1. Upto(0)
  <2> DEFINE f == [i \in 0..0 |-> start]
  <2>1. f \in [0..0 -> S] /\ f[0] = start /\ \A i \in 1..0 : f[i] = step[i][f[i - 1]]
    OBVIOUS
  <2> QED
    BY <2>1
<1>2. ASSUME NEW m \in 1..n, Upto(m - 1)
      PROVE  Upto(m)
  <2>1. PICK f \in [0..m - 1 -> S] :
           f[0] = start /\ \A i \in 1..m - 1 : f[i] = step[i][f[i - 1]]
    BY <1>2
  <2> DEFINE x == step[m][f[m - 1]]
             g == [i \in 0..m |-> IF i < m THEN f[i] ELSE x]
  <2>2. x \in S
    BY <2>1
  <2> HIDE DEF x
  <2>3. g \in [0..m -> S]
    BY <2>1, <2>2
  <2>4. g[0] = start
    BY <2>1
  <2>5. ASSUME NEW i \in 1..m
        PROVE  g[i] = step[i][g[i - 1]]
    <3>1. CASE i < m
      BY <2>1, <3>1
    <3>2. CASE i = m
      BY <2>1, <3>2 DEF x
    <3> QED
      BY <3>1, <3>2
  <2> HIDE DEF g
  <2> QED
    BY <2>3, <2>4, <2>5
<1> HIDE DEF Upto
<1>3. T = {}
  <2> SUFFICES ASSUME T # {} PROVE FALSE
    OBVIOUS
  <2>1. T \in SUBSET Nat
    OBVIOUS
  <2>2. PICK m \in T : \A y \in T : m <= y
    BY <2>1, LeastNumber
  <2>3. m # 0 /\ m \in 1..n
    BY <1>1, <2>2
  <2>4. m - 1 \notin T /\ m - 1 \in 0..n
    BY <2>2, <2>3
  <2> QED
    BY <1>2, <2>2, <2>3, <2>4
<1>4. Upto(n)
  BY <1>3
<1> QED
  BY <1>4 DEF Upto

\* The first child of that name is a node, if there is one.
LEMMA ChildNamedYields ==
    ASSUME NEW t, NEW m \in Nat, NEW children \in Seq((1..m) \cup {Junk}), NEW name
    PROVE  /\ ChildNamed(t, children, name) \in (1..m) \cup {NULL, Wild}
           /\ ChildNamed(t, children, name) \in 1..m =>
                 \E i \in DOMAIN children : children[i] = ChildNamed(t, children, name)
<1> DEFINE I == {i \in 1..Len(children) : children[i] = Junk \/ t[children[i]].name = name}
           i == IF I # {} THEN Min(I) ELSE 0
<1>1. ChildNamed(t, children, name) =
         IF i = 0 THEN NULL ELSE IF children[i] = Junk THEN Wild ELSE children[i]
  BY DEF ChildNamed, SelectInSeq
<1>2. I # {} => i \in I
  <2> SUFFICES ASSUME I # {} PROVE Min(I) \in I
    OBVIOUS
  <2>1. I \in SUBSET Nat
    OBVIOUS
  <2> HIDE DEF I
  <2>2. \E x \in I : \A y \in I : x <= y
    BY <2>1, LeastNumber
  <2> QED
    BY <2>2 DEF Min
<1>3. CASE I = {}
  <2>1. i = 0
    BY <1>3
  <2> HIDE DEF i
  <2> QED
    BY <1>1, <2>1 DEF NULL
<1>4. CASE I # {}
  <2>1. i \in DOMAIN children /\ i # 0 /\ children[i] \in (1..m) \cup {Junk}
    BY <1>2, <1>4
  <2>2. Wild \notin 1..m
    BY DEF Wild
  <2> HIDE DEF i
  <2>3. CASE children[i] = Junk
    BY <1>1, <2>1, <2>2, <2>3
  <2>4. CASE children[i] # Junk
    BY <1>1, <2>1, <2>4
  <2> QED
    BY <2>3, <2>4
<1> QED
  BY <1>3, <1>4

\* A lookup below a node yields a node or nothing, or stops.
LEMMA FindYields ==
    ASSUME NEW t, IsTree(t), NEW start \in (0..Len(t)) \cup {Junk}, NEW name
    PROVE  /\ vfs_find_node(t, start, name) \in (1..Len(t)) \cup {NULL, Fault, Wild}
           /\ start \in 1..Len(t) => vfs_find_node(t, start, name) # Fault
<1>1. t \in Seq(Nodes(Len(t))) /\ Len(t) \in Nat
  BY DEF IsTree
<1>2. \A i \in 1..Len(t) : /\ t[i].children \in Seq((1..Len(t)) \cup {Junk})
                            /\ t[i].points_to \in (0..Len(t)) \cup {Junk}
  BY <1>1, TreeNodes DEF IsNode
<1>3. \A i \in 1..Len(t) :
         ChildNamed(t, t[i].children, name) \in (1..Len(t)) \cup {NULL, Wild}
  BY <1>1, <1>2, ChildNamedYields
<1>4. Fault # Wild /\ Fault # NULL /\ Fault \notin 1..Len(t) /\ NULL = 0
  BY DEF Fault, Wild, NULL
<1>5. CASE start = NULL \/ start = Junk \/ t[start].points_to = Junk
  BY <1>4, <1>5, JunkAssumption DEF vfs_find_node
<1>6. CASE ~(start = NULL \/ start = Junk \/ t[start].points_to = Junk)
  <2> DEFINE via == t[start].points_to
             there == IF via = NULL THEN NULL ELSE ChildNamed(t, t[via].children, name)
             here == ChildNamed(t, t[start].children, name)
  <2>1. start \in 1..Len(t) /\ via \in 0..Len(t)
    BY <1>1, <1>2, <1>4, <1>6
  <2>2. vfs_find_node(t, start, name) = IF there # NULL THEN there ELSE here
    BY <1>6 DEF vfs_find_node
  <2>3. here \in (1..Len(t)) \cup {NULL, Wild}
    BY <1>3, <2>1
  <2>4. there \in (1..Len(t)) \cup {NULL, Wild}
    <3>1. CASE via = NULL
      BY <3>1
    <3>2. CASE via # NULL
      BY <1>3, <1>4, <2>1, <3>2
    <3> QED
      BY <3>1, <3>2
  <2> HIDE DEF there, here
  <2> QED
    BY <1>4, <2>2, <2>3, <2>4
<1> QED
  BY <1>5, <1>6

\* What one round of the loop of vfs_get_parent makes of node.
ParentRound(t, start, path, i, node) ==
    IF node \in Stops THEN node
    ELSE IF path[i] # ""
    THEN IF i + 1 = Len(path) THEN node
         ELSE vfs_find_node(t, node, <<path[i + 1]>>)
    ELSE IF Len(path) = 2 THEN start ELSE vfs_find_node(t, start, <<path[i + 1]>>)

\* vfs_get_parent yields a node, nothing or what it was given, or stops.
LEMMA ParentYields ==
    \A t, start, path :
        /\ IsTree(t)
        /\ start \in (0..Len(t)) \cup {Junk}
        /\ Len(path) \in Nat \ {0}
        => vfs_get_parent(t, start, path) \in (0..Len(t)) \cup {start, Fault, Wild}
<1>0. SUFFICES ASSUME NEW t, NEW start, NEW path,
                      IsTree(t), start \in (0..Len(t)) \cup {Junk}, Len(path) \in Nat \ {0}
               PROVE  vfs_get_parent(t, start, path) \in (0..Len(t)) \cup {start, Fault, Wild}
  OBVIOUS
<1> DEFINE n == Len(path) - 1
           S == (0..Len(t)) \cup {start, Fault, Wild}
           Loop(f) == [i \in 0..n |-> IF i = 0 THEN start
                                      ELSE ParentRound(t, start, path, i, f[i - 1])]
           node == CHOOSE f : f = Loop(f)
<1>1. n \in Nat /\ Len(t) \in Nat
  BY <1>0 DEF IsTree
<1>2. ASSUME NEW i \in 1..n, NEW x \in S
      PROVE  ParentRound(t, start, path, i, x) \in S
  <2>1. NULL = 0
    BY DEF NULL
  <2>2. x \notin Stops => vfs_find_node(t, x, <<path[i + 1]>>) \in S
    <3> SUFFICES ASSUME x \notin Stops PROVE vfs_find_node(t, x, <<path[i + 1]>>) \in S
      OBVIOUS
    <3>1. x \in (0..Len(t)) \cup {Junk}
      BY <1>0 DEF Stops
    <3> QED
      BY <1>0, <1>1, <2>1, <3>1, FindYields
  <2>3. vfs_find_node(t, start, <<path[i + 1]>>) \in S
    BY <1>0, <1>1, <2>1, FindYields
  <2> QED
    BY <2>2, <2>3 DEF ParentRound
<1>3. vfs_get_parent(t, start, path) = node[n]
  BY DEF vfs_get_parent, ParentRound
<1>4. \E f : f = Loop(f)
  <2> DEFINE step == [i \in 1..n |-> [x \in S |-> ParentRound(t, start, path, i, x)]]
  <2>1. step \in [1..n -> [S -> S]]
    BY <1>2
  <2>2. start \in S
    OBVIOUS
  <2> HIDE DEF S, step, n, Loop, node
  <2>3. ASSUME NEW q \in [1..n -> [S -> S]]
        PROVE  \E f \in [0..n -> S] :
                  f[0] = start /\ \A i \in 1..n : f[i] = q[i][f[i - 1]]
    BY <1>1, <2>2, Iteration
  <2>4. PICK f \in [0..n -> S] :
           f[0] = start /\ \A i \in 1..n : f[i] = step[i][f[i - 1]]
    BY <2>1, <2>3
  <2>5. \A i \in 1..n : f[i - 1] \in S
    BY <1>1, <2>4
  <2>6. \A i \in 1..n : f[i] = ParentRound(t, start, path, i, f[i - 1])
    BY <2>4, <2>5, Zenon DEF step
  <2>7. f = Loop(f)
    BY <1>1, <2>4, <2>6 DEF Loop
  <2> QED
    BY <2>7
<1>5. node = Loop(node)
  BY <1>4
<1>6. /\ node[0] = start
      /\ \A i \in 1..n : node[i] = ParentRound(t, start, path, i, node[i - 1])
  <2> HIDE DEF node
  <2> QED
    BY <1>1, <1>5
<1> HIDE DEF node
<1>7. \A i \in 0..n : node[i] \in S
  <2> DEFINE T == {i \in 0..n : node[i] \notin S}
  <2> SUFFICES ASSUME T # {} PROVE FALSE
    OBVIOUS
  <2>1. T \in SUBSET Nat
    BY <1>1
  <2>2. PICK k \in T : \A y \in T : k <= y
    BY <2>1, LeastNumber
  <2>3. start \in S
    OBVIOUS
  <2> HIDE DEF S
  <2>4. k \in 1..n /\ k - 1 \in 0..n
    BY <1>1, <1>6, <2>2, <2>3
  <2>5. node[k - 1] \in S
    BY <1>1, <2>2, <2>4
  <2>6. node[k] \in S
    BY <1>2, <1>6, <2>4, <2>5
  <2> QED
    BY <2>2, <2>6
<1> QED
  BY <1>1, <1>3, <1>7

-----------------------------------------------------------------------------
(* Trees that grow.                                                        *)

\* A node whose list of children gets one more entry.
WithChild(n, c) == [n EXCEPT !.children = Append(@, c)]

\* It is a node like before, but for the list.
LEMMA ChildAppended ==
    ASSUME NEW m \in Nat, NEW k \in Nat, m <= k, NEW n \in Nodes(m), NEW c \in 1..k
    PROVE  /\ WithChild(n, c) \in Nodes(k)
           /\ WithChild(n, c).children = Append(n.children, c)
           /\ \A x \in FieldNames \ {"children"} : WithChild(n, c)[x] = n[x]
<1> DEFINE new == Append(n.children, c)
           u == WithChild(n, c)
<1>0. u = [n EXCEPT !.children = new]
  BY DEF WithChild
<1> HIDE DEF u
<1>1. IsNode(n, k)
  BY NodesGrow, NodeTypes
<1>2. new \in Seq((1..k) \cup {Junk})
  BY <1>1 DEF IsNode
<1> HIDE DEF new
<1>3. IsNode(u, k) /\ u.children = new /\ \A x \in FieldNames \ {"children"} : u[x] = n[x]
  BY <1>0, <1>1, <1>2 DEF IsNode, FieldNames
<1>4. u \in Nodes(k)
  BY <1>3, NodeTypes
<1> QED
  BY <1>3, <1>4 DEF new, u

\* The nodes of a tree with one more node, which is the last child of another.
LEMMA AddChildNodes ==
    ASSUME NEW t, IsTree(t), NEW k \in Nat, Len(t) < k, NEW node \in Nodes(k),
           node.parent \in 1..Len(t)
    PROVE  LET u == AddChild(t, node)
               p == node.parent
           IN  /\ u \in Seq(Nodes(k))
               /\ Len(u) = Len(t) + 1
               /\ u[Len(t) + 1] = node
               /\ \A i \in 1..Len(t) : i # p => u[i] = t[i]
               /\ u[p].children = Append(t[p].children, Len(t) + 1)
               /\ \A x \in FieldNames \ {"children"} : u[p][x] = t[p][x]
<1> DEFINE p == node.parent
           c == WithChild(t[p], Len(t) + 1)
           w == [t EXCEPT ![p] = c]
           u == AddChild(t, node)
<1>1. /\ Len(t) \in Nat /\ t \in Seq(Nodes(Len(t)))
      /\ \A i \in 1..Len(t) : t[i] \in Nodes(Len(t)) /\ t[i] \in Nodes(k)
  BY TreeNodes, NodesGrow DEF IsTree
<1>2. /\ c \in Nodes(k)
      /\ c.children = Append(t[p].children, Len(t) + 1)
      /\ \A x \in FieldNames \ {"children"} : c[x] = t[p][x]
  <2>1. t[p] \in Nodes(Len(t)) /\ Len(t) \in Nat /\ Len(t) + 1 \in 1..k /\ Len(t) <= k
    BY <1>1
  <2> QED
    BY <2>1, ChildAppended
<1>3. u = Append(w, node)
  BY DEF AddChild, WithChild
<1> HIDE DEF c, p
<1>4. p \in 1..Len(t)
  BY DEF p
<1>5. w \in Seq(Nodes(k)) /\ Len(w) = Len(t)
  BY <1>1, <1>2, <1>4
<1>6. w[p] = c /\ \A i \in 1..Len(t) : i # p => w[i] = t[i]
  BY <1>1, <1>4
<1> HIDE DEF w
<1>7. /\ u \in Seq(Nodes(k)) /\ Len(u) = Len(t) + 1 /\ u[Len(t) + 1] = node
      /\ \A i \in 1..Len(t) : u[i] = w[i]
  BY <1>1, <1>3, <1>5
<1> HIDE DEF u
<1> QED
  BY <1>2, <1>4, <1>6, <1>7 DEF u, p

\* Node n is child i of node d and of no other, and knows d as its parent, or
\* stands for d or for d's parent.
LinkedAt(t, n, d, i) ==
    /\ t[d].children[i] = n
    /\ \A e \in DOMAIN t : \A j \in DOMAIN t[e].children :
          t[e].children[j] = n => e = d /\ j = i
    /\ \/ t[n].parent = d
       \/ t[n].name = <<"..">> /\ t[n].points_to = t[d].parent
       \/ t[n].name = <<".">> /\ t[n].points_to = d

WellLinked(t) ==
    \A n \in DOMAIN t \ {Root} : \E d \in DOMAIN t :
        \E i \in DOMAIN t[d].children : LinkedAt(t, n, d, i)

\* The links of t are there in u, and the new ones lead to new nodes.
LinksGrow(t, u) ==
    /\ Len(t) <= Len(u)
    /\ \A i \in 1..Len(t) :
          /\ u[i].parent = t[i].parent
          /\ u[i].points_to = t[i].points_to
          /\ u[i].name = t[i].name
          /\ DOMAIN t[i].children \subseteq DOMAIN u[i].children
          /\ \A j \in DOMAIN t[i].children : u[i].children[j] = t[i].children[j]
          /\ \A j \in DOMAIN u[i].children \ DOMAIN t[i].children :
                u[i].children[j] \notin 1..Len(t)
    /\ \A i \in 1..Len(u) \ 1..Len(t) : \A j \in DOMAIN u[i].children :
          u[i].children[j] \notin 1..Len(t)

\* Then the old nodes are linked as they were.
LEMMA OldLinksKept ==
    ASSUME NEW t, NEW u, IsTree(t), IsTree(u), LinksGrow(t, u),
           NEW n \in 1..Len(t), NEW d \in 1..Len(t), NEW i \in DOMAIN t[d].children,
           LinkedAt(t, n, d, i)
    PROVE  d \in DOMAIN u /\ i \in DOMAIN u[d].children /\ LinkedAt(u, n, d, i)
<1>1. /\ DOMAIN t = 1..Len(t) /\ DOMAIN u = 1..Len(u)
      /\ Len(t) \in Nat /\ Len(u) \in Nat /\ Len(t) <= Len(u)
  BY TreeNodes DEF LinksGrow
<1>2. d \in DOMAIN u /\ i \in DOMAIN u[d].children /\ u[d].children[i] = n
  BY <1>1 DEF LinksGrow, LinkedAt
<1>3. ASSUME NEW e \in 1..Len(u), NEW j \in DOMAIN u[e].children, u[e].children[j] = n
      PROVE  e = d /\ j = i
  <2>1. e \in 1..Len(t)
    BY <1>3 DEF LinksGrow
  <2>2. j \in DOMAIN t[e].children
    BY <1>3, <2>1 DEF LinksGrow
  <2>3. t[e].children[j] = n
    BY <1>3, <2>1, <2>2 DEF LinksGrow
  <2> QED
    BY <1>1, <2>1, <2>2, <2>3 DEF LinkedAt
<1>4. u[n].parent = t[n].parent /\ u[n].points_to = t[n].points_to /\ u[n].name = t[n].name
      /\ u[d].parent = t[d].parent
  BY DEF LinksGrow
<1> QED
  BY <1>1, <1>2, <1>3, <1>4 DEF LinkedAt

\* Links grow from tree to tree.
LEMMA LinksGrowOn ==
    ASSUME NEW t, NEW u, NEW v, IsTree(t), IsTree(u), IsTree(v),
           LinksGrow(t, u), LinksGrow(u, v)
    PROVE  LinksGrow(t, v)
<1>1. /\ Len(t) \in Nat /\ Len(u) \in Nat /\ Len(v) \in Nat
      /\ Len(t) <= Len(u) /\ Len(u) <= Len(v)
  BY TreeNodes DEF LinksGrow
<1>2. ASSUME NEW i \in 1..Len(t)
      PROVE  /\ v[i].parent = t[i].parent
             /\ v[i].points_to = t[i].points_to
             /\ v[i].name = t[i].name
             /\ DOMAIN t[i].children \subseteq DOMAIN v[i].children
             /\ \A j \in DOMAIN t[i].children : v[i].children[j] = t[i].children[j]
             /\ \A j \in DOMAIN v[i].children \ DOMAIN t[i].children :
                   v[i].children[j] \notin 1..Len(t)
  <2>1. i \in 1..Len(u)
    BY <1>1
  <2>2. ASSUME NEW j \in DOMAIN v[i].children \ DOMAIN t[i].children
        PROVE  v[i].children[j] \notin 1..Len(t)
    <3>1. CASE j \in DOMAIN u[i].children
      <4>1. u[i].children[j] \notin 1..Len(t)
        BY <2>2, <3>1 DEF LinksGrow
      <4>2. v[i].children[j] = u[i].children[j]
        BY <2>1, <3>1 DEF LinksGrow
      <4> QED
        BY <4>1, <4>2
    <3>2. CASE j \notin DOMAIN u[i].children
      <4>1. v[i].children[j] \notin 1..Len(u)
        BY <2>1, <2>2, <3>2 DEF LinksGrow
      <4> QED
        BY <1>1, <4>1
    <3> QED
      BY <3>1, <3>2
  <2>3. /\ v[i].parent = t[i].parent
        /\ v[i].points_to = t[i].points_to
        /\ v[i].name = t[i].name
    BY <2>1 DEF LinksGrow
  <2>4. /\ DOMAIN t[i].children \subseteq DOMAIN v[i].children
        /\ \A j \in DOMAIN t[i].children : v[i].children[j] = t[i].children[j]
    BY <2>1 DEF LinksGrow
  <2> QED
    BY <2>2, <2>3, <2>4
<1>3. ASSUME NEW i \in 1..Len(v) \ 1..Len(t), NEW j \in DOMAIN v[i].children
      PROVE  v[i].children[j] \notin 1..Len(t)
  <2>1. CASE i \in 1..Len(u)
    <3>1. CASE j \in DOMAIN u[i].children
      <4>1. u[i].children[j] \notin 1..Len(t)
        BY <1>3, <2>1, <3>1 DEF LinksGrow
      <4>2. v[i].children[j] = u[i].children[j]
        BY <2>1, <3>1 DEF LinksGrow
      <4> QED
        BY <4>1, <4>2
    <3>2. CASE j \notin DOMAIN u[i].children
      <4>1. v[i].children[j] \notin 1..Len(u)
        BY <2>1, <1>3, <3>2 DEF LinksGrow
      <4> QED
        BY <1>1, <4>1
    <3> QED
      BY <3>1, <3>2
  <2>2. CASE i \notin 1..Len(u)
    <3>1. v[i].children[j] \notin 1..Len(u)
      BY <2>2, <1>3 DEF LinksGrow
    <3> QED
      BY <1>1, <3>1
  <2> QED
    BY <2>1, <2>2
<1> QED
  BY <1>1, <1>2, <1>3 DEF LinksGrow

\* A tree is well linked if its old part was and its new nodes are.
LEMMA NewLinks ==
    ASSUME NEW t, NEW u, IsTree(t), IsTree(u), LinksGrow(t, u), WellLinked(t),
           \A n \in 1..Len(u) \ 1..Len(t) : n # Root =>
              \E d \in DOMAIN u : \E i \in DOMAIN u[d].children : LinkedAt(u, n, d, i)
    PROVE  WellLinked(u)
<1>1. DOMAIN t = 1..Len(t) /\ DOMAIN u = 1..Len(u)
  BY TreeNodes
<1>2. ASSUME NEW n \in 1..Len(t), n # Root
      PROVE  \E d \in DOMAIN u : \E i \in DOMAIN u[d].children : LinkedAt(u, n, d, i)
  <2>1. PICK d \in 1..Len(t) : \E i \in DOMAIN t[d].children : LinkedAt(t, n, d, i)
    BY <1>1, <1>2 DEF WellLinked
  <2>2. PICK i \in DOMAIN t[d].children : LinkedAt(t, n, d, i)
    BY <2>1
  <2> QED
    BY <2>2, OldLinksKept
<1> QED
  BY <1>1, <1>2 DEF WellLinked

\* A buffer has room for the file and one byte more.
Fits(f) == f.room > 0 /\ "st_size" \notin f.junk => f.st_size < f.room

\* What the operations of Vfs make of a tree: new nodes with buffers that are
\* large enough, and new links to them.  A node's fields stay as they were, but
\* for its list of children and its mode.
Extends(t, u) ==
    /\ IsTree(u)
    /\ LinksGrow(t, u)
    /\ \A i \in 1..Len(t) : \A x \in FieldNames \ {"children", "append"} : u[i][x] = t[i][x]
    /\ \A i \in 1..Len(u) \ 1..Len(t) : ~u[i].freed /\ Fits(u[i])
    /\ WellLinked(t) => WellLinked(u)

\* A tree extends itself.
LEMMA ExtendsSame ==
    ASSUME NEW t, IsTree(t)
    PROVE  Extends(t, t)
<1>1. Len(t) \in Nat
  BY TreeNodes
<1> QED
  BY <1>1 DEF Extends, LinksGrow

\* Growing twice is growing.
LEMMA ExtendsOn ==
    ASSUME NEW t, NEW u, NEW v, IsTree(t), Extends(t, u), Extends(u, v)
    PROVE  Extends(t, v)
<1>1. /\ IsTree(u) /\ IsTree(v) /\ LinksGrow(t, u) /\ LinksGrow(u, v)
      /\ WellLinked(t) => WellLinked(v)
  BY DEF Extends
<1>2. /\ Len(t) \in Nat /\ Len(u) \in Nat /\ Len(v) \in Nat
      /\ Len(t) <= Len(u) /\ Len(u) <= Len(v)
  BY <1>1, TreeNodes DEF LinksGrow
<1>3. LinksGrow(t, v)
  BY <1>1, LinksGrowOn
<1>4. ASSUME NEW i \in 1..Len(t), NEW x \in FieldNames \ {"children", "append"}
      PROVE  v[i][x] = t[i][x]
  <2>1. i \in 1..Len(u)
    BY <1>2
  <2>2. v[i][x] = u[i][x] /\ u[i][x] = t[i][x]
    BY <2>1 DEF Extends
  <2> QED
    BY <2>2
<1>5. ASSUME NEW i \in 1..Len(v) \ 1..Len(t)
      PROVE  ~v[i].freed /\ Fits(v[i])
  <2>1. CASE i \in 1..Len(u)
    <3>1. ~u[i].freed /\ Fits(u[i])
      BY <1>5, <2>1 DEF Extends
    <3>2. /\ v[i].freed = u[i].freed /\ v[i].room = u[i].room
          /\ v[i].junk = u[i].junk /\ v[i].st_size = u[i].st_size
      <4>1. {"freed", "room", "junk", "st_size"} \subseteq FieldNames \ {"children", "append"}
        BY DEF FieldNames
      <4> QED
        BY <2>1, <4>1 DEF Extends
    <3> QED
      BY <3>1, <3>2 DEF Fits
  <2>2. CASE i \notin 1..Len(u)
    BY <1>5, <2>2 DEF Extends
  <2> QED
    BY <2>1, <2>2
<1> QED
  BY <1>1, <1>3, <1>4, <1>5 DEF Extends

\* No entry of a tree's lists leads out of the tree.
LEMMA ChildrenInside ==
    ASSUME NEW t, IsTree(t), NEW i \in 1..Len(t), NEW j \in DOMAIN t[i].children
    PROVE  t[i].children[j] \in (1..Len(t)) \cup {Junk}
<1>1. t[i].children \in Seq((1..Len(t)) \cup {Junk})
  BY TreeNodes DEF IsNode
<1> QED
  BY <1>1

\* How the lists of a tree grow when a node is added to its parent's list.
LEMMA AddChildLinks ==
    ASSUME NEW t, IsTree(t), NEW u, NEW p \in 1..Len(t), Len(u) \in Nat, Len(u) > Len(t),
           \A i \in 1..Len(t) : i # p => u[i] = t[i],
           u[p].children = Append(t[p].children, Len(t) + 1),
           \A x \in FieldNames \ {"children"} : u[p][x] = t[p][x],
           \A i \in 1..Len(u) \ 1..Len(t) : \A j \in DOMAIN u[i].children :
              u[i].children[j] \notin 1..Len(t)
    PROVE  LinksGrow(t, u)
<1>1. Len(t) \in Nat
  BY TreeNodes
<1>2. t[p].children \in Seq((1..Len(t)) \cup {Junk})
  BY TreeNodes DEF IsNode
<1>3. {"parent", "points_to", "name"} \subseteq FieldNames \ {"children"}
  BY DEF FieldNames
<1>4. u[p].parent = t[p].parent /\ u[p].points_to = t[p].points_to /\ u[p].name = t[p].name
  BY <1>3
<1>5. /\ DOMAIN t[p].children \subseteq DOMAIN u[p].children
      /\ \A j \in DOMAIN t[p].children : u[p].children[j] = t[p].children[j]
      /\ \A j \in DOMAIN u[p].children \ DOMAIN t[p].children :
            u[p].children[j] \notin 1..Len(t)
  BY <1>1, <1>2
<1>6. ASSUME NEW i \in 1..Len(t)
      PROVE  /\ u[i].parent = t[i].parent
             /\ u[i].points_to = t[i].points_to
             /\ u[i].name = t[i].name
             /\ DOMAIN t[i].children \subseteq DOMAIN u[i].children
             /\ \A j \in DOMAIN t[i].children : u[i].children[j] = t[i].children[j]
             /\ \A j \in DOMAIN u[i].children \ DOMAIN t[i].children :
                   u[i].children[j] \notin 1..Len(t)
  <2>1. CASE i = p
    BY <1>4, <1>5, <2>1
  <2>2. CASE i # p
    BY <2>2
  <2> QED
    BY <2>1, <2>2
<1> QED
  BY <1>1, <1>6 DEF LinksGrow

\* The entry for the new node is the only one.
LEMMA NewEntry ==
    ASSUME NEW t, IsTree(t), NEW u, IsTree(u), NEW p \in 1..Len(t), Len(u) > Len(t),
           \A i \in 1..Len(t) : i # p => u[i] = t[i],
           u[p].children = Append(t[p].children, Len(t) + 1),
           \A i \in 1..Len(u) \ 1..Len(t) : \A j \in DOMAIN u[i].children :
              u[i].children[j] # Len(t) + 1,
           u[Len(t) + 1].parent = p
    PROVE  /\ p \in DOMAIN u /\ Len(t[p].children) + 1 \in DOMAIN u[p].children
           /\ LinkedAt(u, Len(t) + 1, p, Len(t[p].children) + 1)
<1> DEFINE new == Len(t) + 1
           c == Len(t[p].children) + 1
<1>1. /\ Len(t) \in Nat /\ Len(u) \in Nat
      /\ DOMAIN t = 1..Len(t) /\ DOMAIN u = 1..Len(u)
  BY TreeNodes
<1>2. t[p].children \in Seq((1..Len(t)) \cup {Junk})
  BY TreeNodes DEF IsNode
<1>3. /\ c \in DOMAIN u[p].children /\ u[p].children[c] = new
      /\ \A j \in DOMAIN u[p].children : j # c => u[p].children[j] \in (1..Len(t)) \cup {Junk}
  BY <1>2
<1>4. new # Junk /\ new \notin 1..Len(t)
  BY <1>1, JunkAssumption
<1>5. ASSUME NEW e \in 1..Len(u), NEW j \in DOMAIN u[e].children, u[e].children[j] = new
      PROVE  e = p /\ j = c
  <2>1. e \in 1..Len(t)
    BY <1>5
  <2>2. e = p
    <3> SUFFICES ASSUME e # p PROVE FALSE
      OBVIOUS
    <3>1. u[e] = t[e]
      BY <2>1
    <3>2. u[e].children[j] \in (1..Len(t)) \cup {Junk}
      BY <2>1, <3>1, ChildrenInside
    <3> QED
      BY <1>4, <1>5, <3>2
  <2>3. j = c
    BY <1>3, <1>4, <1>5, <2>2
  <2> QED
    BY <2>2, <2>3
<1>6. p \in DOMAIN u
  BY <1>1
<1> HIDE DEF new, c
<1>7. LinkedAt(u, new, p, c)
  BY <1>1, <1>3, <1>5 DEF LinkedAt, new
<1> QED
  BY <1>3, <1>6, <1>7 DEF new, c

\* A node without children: its list is empty, or was never set.
Childless(n) == \A j \in DOMAIN n.children : n.children[j] = Junk

\* A file that is added to its parent's list.
LEMMA FileAdded ==
    ASSUME NEW t, IsTree(t), NEW node, node \in Nodes(Len(t) + 1),
           node.parent \in 1..Len(t), Childless(node), ~node.freed, Fits(node)
    PROVE  Extends(t, AddChild(t, node)) /\ Len(AddChild(t, node)) = Len(t) + 1
<1> DEFINE u == AddChild(t, node)
           p == node.parent
<1>1. Len(t) \in Nat /\ p \in 1..Len(t)
  BY TreeNodes
<1>2. /\ u \in Seq(Nodes(Len(t) + 1))
      /\ Len(u) = Len(t) + 1
      /\ u[Len(t) + 1] = node
      /\ \A i \in 1..Len(t) : i # p => u[i] = t[i]
      /\ u[p].children = Append(t[p].children, Len(t) + 1)
      /\ \A x \in FieldNames \ {"children"} : u[p][x] = t[p][x]
  <2>1. Len(t) + 1 \in Nat /\ Len(t) < Len(t) + 1
    BY <1>1
  <2> QED
    BY <2>1, AddChildNodes
<1> HIDE DEF u
<1>3. IsTree(u) /\ Len(u) \in Nat /\ Len(u) > Len(t)
  BY <1>1, <1>2 DEF IsTree
<1>4. ASSUME NEW i \in 1..Len(u) \ 1..Len(t)
      PROVE  i = Len(t) + 1 /\ u[i] = node
  BY <1>1, <1>2
<1>5. \A i \in 1..Len(u) \ 1..Len(t) : \A j \in DOMAIN u[i].children :
         u[i].children[j] \notin 1..Len(t) /\ u[i].children[j] # Len(t) + 1
  <2> SUFFICES ASSUME NEW i \in 1..Len(u) \ 1..Len(t), NEW j \in DOMAIN u[i].children
               PROVE  u[i].children[j] \notin 1..Len(t) /\ u[i].children[j] # Len(t) + 1
    OBVIOUS
  <2>1. u[i].children[j] = Junk
    BY <1>4 DEF Childless
  <2> QED
    BY <1>1, <2>1, JunkAssumption
<1>6. LinksGrow(t, u)
  BY <1>1, <1>2, <1>3, <1>5, AddChildLinks
<1>7. WellLinked(t) => WellLinked(u)
  <2>1. u[Len(t) + 1].parent = p
    BY <1>2
  <2> DEFINE c == Len(t[p].children) + 1
  <2>2. p \in DOMAIN u /\ c \in DOMAIN u[p].children /\ LinkedAt(u, Len(t) + 1, p, c)
    BY <1>1, <1>2, <1>3, <1>5, <2>1, NewEntry
  <2>3. \A n \in 1..Len(u) \ 1..Len(t) : n # Root =>
           \E d \in DOMAIN u : \E i \in DOMAIN u[d].children : LinkedAt(u, n, d, i)
    BY <1>4, <2>2
  <2> QED
    BY <1>3, <1>6, <2>3, NewLinks
<1>8. \A i \in 1..Len(t) : \A x \in FieldNames \ {"children", "append"} : u[i][x] = t[i][x]
  BY <1>2
<1>9. \A i \in 1..Len(u) \ 1..Len(t) : ~u[i].freed /\ Fits(u[i])
  BY <1>4
<1>10. Extends(t, u)
  BY <1>3, <1>6, <1>7, <1>8, <1>9 DEF Extends
<1> QED
  BY <1>2, <1>10 DEF u

\* A directory that is added with its entries ".." and ".".
LEMMA DirAdded ==
    ASSUME NEW t, IsTree(t), NEW dir \in Nodes(Len(t) + 3), NEW a \in Nodes(Len(t) + 3),
           NEW b \in Nodes(Len(t) + 3),
           dir.parent \in 1..Len(t), dir.children = <<Len(t) + 2, Len(t) + 3>>,
           Childless(a), a.name = <<"..">>, a.points_to = dir.parent,
           Childless(b), b.name = <<".">>, b.points_to = Len(t) + 1,
           \A n \in {dir, a, b} : ~n.freed /\ Fits(n)
    PROVE  /\ Extends(t, AddChild(t, dir) \o <<a, b>>)
           /\ Len(AddChild(t, dir) \o <<a, b>>) = Len(t) + 3
<1> DEFINE v == AddChild(t, dir)
           u == v \o <<a, b>>
           p == dir.parent
           new == Len(t) + 1
<1>1. Len(t) \in Nat /\ p \in 1..Len(t)
  BY TreeNodes
<1>2. /\ v \in Seq(Nodes(Len(t) + 3))
      /\ Len(v) = new
      /\ v[new] = dir
      /\ \A i \in 1..Len(t) : i # p => v[i] = t[i]
      /\ v[p].children = Append(t[p].children, new)
      /\ \A x \in FieldNames \ {"children"} : v[p][x] = t[p][x]
  <2>1. Len(t) + 3 \in Nat /\ Len(t) < Len(t) + 3
    BY <1>1
  <2> QED
    BY <2>1, AddChildNodes
<1> HIDE DEF v
<1>3. <<a, b>> \in Seq(Nodes(Len(t) + 3)) /\ Len(<<a, b>>) = 2
      /\ <<a, b>>[1] = a /\ <<a, b>>[2] = b
  OBVIOUS
<1>4. /\ u \in Seq(Nodes(Len(t) + 3)) /\ Len(u) = Len(t) + 3
      /\ \A i \in 1..new : u[i] = v[i]
      /\ u[Len(t) + 2] = a /\ u[Len(t) + 3] = b
  BY <1>1, <1>2, <1>3
<1> HIDE DEF u
<1>5. IsTree(u) /\ Len(u) \in Nat /\ Len(u) > Len(t) /\ DOMAIN u = 1..Len(u)
  BY <1>1, <1>4 DEF IsTree
<1>6. /\ u[new] = dir
      /\ \A i \in 1..Len(t) : i # p => u[i] = t[i]
      /\ u[p].children = Append(t[p].children, new)
      /\ \A x \in FieldNames \ {"children"} : u[p][x] = t[p][x]
  <2>1. new \in 1..new /\ p \in 1..new /\ \A i \in 1..Len(t) : i \in 1..new
    BY <1>1
  <2>2. u[new] = v[new] /\ u[p] = v[p] /\ \A i \in 1..Len(t) : u[i] = v[i]
    BY <1>4, <2>1
  <2> QED
    BY <1>2, <2>2
<1>7. ASSUME NEW i \in 1..Len(u) \ 1..Len(t)
      PROVE  \/ i = new /\ u[i] = dir
             \/ i = Len(t) + 2 /\ u[i] = a
             \/ i = Len(t) + 3 /\ u[i] = b
  BY <1>1, <1>4, <1>6
<1>8. /\ DOMAIN dir.children = {1, 2}
      /\ dir.children[1] = Len(t) + 2 /\ dir.children[2] = Len(t) + 3
  OBVIOUS
<1>9. Junk \notin 1..Len(t) /\ Junk # new /\ Junk # Len(t) + 2 /\ Junk # Len(t) + 3
  BY <1>1, JunkAssumption
<1>10. \A i \in 1..Len(u) \ 1..Len(t) : \A j \in DOMAIN u[i].children :
         u[i].children[j] \notin 1..Len(t) /\ u[i].children[j] # new
  <2> SUFFICES ASSUME NEW i \in 1..Len(u) \ 1..Len(t), NEW j \in DOMAIN u[i].children
               PROVE  u[i].children[j] \notin 1..Len(t) /\ u[i].children[j] # new
    OBVIOUS
  <2>1. CASE u[i] = dir
    BY <1>1, <1>8, <2>1
  <2>2. CASE u[i] = a \/ u[i] = b
    BY <1>9, <2>2 DEF Childless
  <2> QED
    BY <1>7, <2>1, <2>2
<1>11. LinksGrow(t, u)
  BY <1>1, <1>5, <1>6, <1>10, AddChildLinks
<1>12. ASSUME NEW k \in {Len(t) + 2, Len(t) + 3}, NEW e \in 1..Len(u),
              NEW j \in DOMAIN u[e].children, u[e].children[j] = k
       PROVE  e = new /\ dir.children[j] = k
  <2>1. k # Junk /\ k \notin 1..Len(t) /\ k # new
    BY <1>1, <1>9
  <2>2. e \notin 1..Len(t)
    <3> SUFFICES ASSUME e \in 1..Len(t) PROVE FALSE
      OBVIOUS
    <3>1. CASE e = p
      <4>1. t[p].children \in Seq((1..Len(t)) \cup {Junk})
        BY <1>1, TreeNodes DEF IsNode
      <4>2. u[e].children[j] \in (1..Len(t)) \cup {Junk, new}
        <5> DEFINE old == t[p].children
        <5> HIDE DEF old
        <5>1. old \in Seq((1..Len(t)) \cup {Junk}) /\ u[p].children = Append(old, new)
              /\ j \in DOMAIN u[p].children
          BY <1>6, <3>1, <4>1 DEF old
        <5>2. \A c \in DOMAIN Append(old, new) : Append(old, new)[c] \in (1..Len(t)) \cup {Junk, new}
          BY <5>1
        <5> QED
          BY <3>1, <5>1, <5>2
      <4> QED
        BY <1>12, <2>1, <4>2
    <3>2. CASE e # p
      <4>1. u[e] = t[e]
        BY <1>6, <3>2
      <4>2. u[e].children[j] \in (1..Len(t)) \cup {Junk}
        BY <4>1, ChildrenInside
      <4> QED
        BY <1>12, <2>1, <4>2
    <3> QED
      BY <3>1, <3>2
  <2>3. u[e] # a /\ u[e] # b
    BY <1>12, <2>1 DEF Childless
  <2> QED
    BY <1>7, <1>12, <2>2, <2>3
<1>13. LinkedAt(u, Len(t) + 2, new, 1) /\ LinkedAt(u, Len(t) + 3, new, 2)
  <2>1. \A e \in DOMAIN u : \A j \in DOMAIN u[e].children :
           u[e].children[j] = Len(t) + 2 => e = new /\ j = 1
    BY <1>1, <1>5, <1>6, <1>8, <1>12
  <2>2. \A e \in DOMAIN u : \A j \in DOMAIN u[e].children :
           u[e].children[j] = Len(t) + 3 => e = new /\ j = 2
    BY <1>1, <1>5, <1>6, <1>8, <1>12
  <2> QED
    BY <1>4, <1>6, <1>8, <2>1, <2>2 DEF LinkedAt
<1>14. WellLinked(t) => WellLinked(u)
  <2>1. u[Len(t) + 1].parent = p
    BY <1>6
  <2> DEFINE c == Len(t[p].children) + 1
  <2>2. p \in DOMAIN u /\ c \in DOMAIN u[p].children /\ LinkedAt(u, new, p, c)
    BY <1>1, <1>5, <1>6, <1>10, <2>1, NewEntry
  <2>3. new \in DOMAIN u /\ 1 \in DOMAIN u[new].children /\ 2 \in DOMAIN u[new].children
    BY <1>1, <1>4, <1>5, <1>6, <1>8
  <2> HIDE DEF new, c, p
  <2>4. \A n \in 1..Len(u) \ 1..Len(t) : n # Root =>
           \E d \in DOMAIN u : \E i \in DOMAIN u[d].children : LinkedAt(u, n, d, i)
    BY <1>7, <1>13, <2>2, <2>3, Zenon
  <2> QED
    BY <1>5, <1>11, <2>4, NewLinks
<1>15. \A i \in 1..Len(t) : \A x \in FieldNames \ {"children", "append"} : u[i][x] = t[i][x]
  BY <1>6
<1>16. \A i \in 1..Len(u) \ 1..Len(t) : ~u[i].freed /\ Fits(u[i])
  BY <1>7
<1>17. Extends(t, u)
  BY <1>5, <1>11, <1>14, <1>15, <1>16 DEF Extends
<1> QED
  BY <1>4, <1>17 DEF u, v

-----------------------------------------------------------------------------
(* The nodes that are made.                                                *)

\* A path that can be looked up, and one that does not name the root.
IsPath(path) == path \in Seq(Text) /\ path # <<>>
BelowRoot(path) == IsPath(path) /\ path # <<"", "">>

\* The last segment of a path is a name.
LEMMA BasenameIsName ==
    ASSUME NEW path \in Seq(Text), path # <<>>
    PROVE  basename(path) \in Seq(Text)
<1>1. path[Len(path)] \in Text
  OBVIOUS
<1>2. <<path[Len(path)]>> \in Seq(Text)
  BY <1>1
<1> QED
  BY <1>2 DEF basename

\* A list that was not set has no nodes.
LEMMA UnsetChildren ==
    ASSUME NEW n, NEW dirty \in BOOLEAN, NEW m \in Nat,
           n.children = IF dirty THEN <<Junk>> ELSE <<>>
    PROVE  Childless(n) /\ n.children \in Seq((1..m) \cup {Junk})
<1>1. CASE dirty
  BY <1>1 DEF Childless
<1>2. CASE ~dirty
  BY <1>2 DEF Childless
<1> QED
  BY <1>1, <1>2

\* A file of the archive.
LEMMA FileNodeMade ==
    ASSUME NEW t, IsTree(t), NEW parent \in 1..Len(t), NEW path,
           IsPath(path), NEW size \in Nat, NEW dirty \in BOOLEAN
    PROVE  LET n == FileNode(t, parent, path, size, dirty)
           IN  /\ n \in Nodes(Len(t) + 1) /\ n.parent = parent
               /\ Childless(n) /\ ~n.freed /\ Fits(n)
<1> DEFINE n == FileNode(t, parent, path, size, dirty)
           name == basename(path)
           fs == t[parent].mountpoint
           f == [name |-> name, parent |-> parent, mountpoint |-> fs,
                 st_size |-> size, address |-> TRUE, room |-> size + 1,
                 internal_address |-> TRUE, archived |-> TRUE]
<1>1. name \in Seq(Text) /\ fs \in FsNames /\ Len(t) \in Nat
  BY BasenameIsName, TreeNodes DEF IsNode, IsPath
<1>2. n = NewNode(dirty, f)
  BY DEF FileNode
<1> HIDE DEF n, name, fs
<1>3. /\ DOMAIN f = {"name", "parent", "mountpoint", "st_size", "address", "room",
                     "internal_address", "archived"}
      /\ f.name = name /\ f.parent = parent /\ f.mountpoint = fs /\ f.st_size = size
      /\ f.room = size + 1 /\ f.archived = TRUE
  OBVIOUS
<1> HIDE DEF f
<1>4. /\ n = [x \in FieldNames |-> n[x]]
      /\ n.type = "file" /\ n.name = name /\ n.parent = parent
      /\ n.points_to = (IF dirty THEN Junk ELSE NULL)
      /\ n.children = (IF dirty THEN <<Junk>> ELSE <<>>)
      /\ n.mountpoint = fs /\ n.st_size = size /\ n.cursor = 0 /\ n.append = FALSE
      /\ n.room = size + 1 /\ n.freed = FALSE /\ n.archived = TRUE /\ n.init = FALSE
      /\ n.junk = (IF dirty THEN Fields ELSE {}) \ DOMAIN f
  <2>1. Made(n, dirty, f)
    BY <1>2, NewNodeFields, Zenon
  <2> QED
    BY <1>3, <2>1 DEF Made, Or
<1>5. Childless(n) /\ n.children \in Seq((1..Len(t) + 1) \cup {Junk})
  <2>1. Len(t) + 1 \in Nat
    BY <1>1
  <2> QED
    BY <1>4, <2>1, UnsetChildren
<1>6. n.points_to \in (0..Len(t) + 1) \cup {Junk} /\ n.parent \in 0..Len(t) + 1
  BY <1>1, <1>4 DEF NULL
<1>7. n.junk \in SUBSET Fields
  BY <1>4
<1>8. n.st_size \in Nat /\ n.room \in Nat /\ n.cursor \in Int
  BY <1>4
<1>9. IsNode(n, Len(t) + 1)
  BY <1>1, <1>4, <1>5, <1>6, <1>7, <1>8 DEF IsNode
<1>10. Fits(n) /\ ~n.freed
  BY <1>4 DEF Fits
<1> QED
  BY <1>4, <1>5, <1>9, <1>10, NodeTypes DEF n

\* A file made by O_CREAT.
LEMMA CreatedNodeMade ==
    ASSUME NEW t, IsTree(t), NEW parent \in 1..Len(t), NEW path,
           IsPath(path), NEW flags, NEW dirty \in BOOLEAN
    PROVE  LET n == CreatedNode(t, parent, path, flags, dirty)
           IN  /\ n \in Nodes(Len(t) + 1) /\ n.parent = parent
               /\ Childless(n) /\ ~n.freed /\ Fits(n)
<1> DEFINE made == CreatedNode(t, parent, path, flags, dirty)
           name == basename(path)
           fs == t[parent].mountpoint
           app == "O_APPEND" \in flags
           f == [name |-> name, parent |-> parent, append |-> app,
                 mountpoint |-> fs, address |-> TRUE, room |-> 2]
           n == NewNode(dirty, f)
           unset == n.junk \cup (t[parent].junk \cap {"mountpoint"})
<1>1. name \in Seq(Text) /\ fs \in FsNames /\ Len(t) \in Nat
      /\ t[parent].junk \in SUBSET Fields
  BY BasenameIsName, TreeNodes DEF IsNode, IsPath
<1>2. made = [n EXCEPT !.junk = unset]
  BY DEF CreatedNode
<1>a. app \in BOOLEAN
  OBVIOUS
<1> HIDE DEF made, n, name, fs, app
<1>3. /\ DOMAIN f = {"name", "parent", "append", "mountpoint", "address", "room"}
      /\ f.name = name /\ f.parent = parent /\ f.append = app /\ f.mountpoint = fs
      /\ f.room = 2
  OBVIOUS
<1> HIDE DEF f
<1>4. /\ n = [x \in FieldNames |-> n[x]]
      /\ n.type = "file" /\ n.name = name /\ n.parent = parent
      /\ n.points_to = (IF dirty THEN Junk ELSE NULL)
      /\ n.children = (IF dirty THEN <<Junk>> ELSE <<>>)
      /\ n.mountpoint = fs /\ n.st_size = 0 /\ n.cursor = 0 /\ n.append = app
      /\ n.room = 2 /\ n.freed = FALSE /\ n.archived = FALSE /\ n.init = FALSE
      /\ n.junk = (IF dirty THEN Fields ELSE {}) \ DOMAIN f
  <2>1. Made(n, dirty, f)
    BY NewNodeFields, Zenon DEF n
  <2> QED
    BY <1>3, <2>1 DEF Made, Or
<1>5. unset \in SUBSET Fields
  BY <1>1, <1>4
<1> HIDE DEF unset
<1>6. made = [x \in FieldNames |-> made[x]] /\ made.junk = unset
      /\ \A x \in FieldNames \ {"junk"} : made[x] = n[x]
  BY <1>2, <1>4 DEF FieldNames
<1>7. /\ made.type = "file" /\ made.name = name /\ made.parent = parent
      /\ made.points_to = (IF dirty THEN Junk ELSE NULL)
      /\ made.children = (IF dirty THEN <<Junk>> ELSE <<>>)
      /\ made.mountpoint = fs /\ made.st_size = 0 /\ made.cursor = 0 /\ made.append = app
      /\ made.room = 2 /\ made.freed = FALSE /\ made.archived = FALSE /\ made.init = FALSE
  BY <1>4, <1>6 DEF FieldNames
<1>8. Childless(made) /\ made.children \in Seq((1..Len(t) + 1) \cup {Junk})
  <2>1. Len(t) + 1 \in Nat
    BY <1>1
  <2> QED
    BY <1>7, <2>1, UnsetChildren
<1>9. made.points_to \in (0..Len(t) + 1) \cup {Junk} /\ made.parent \in 0..Len(t) + 1
  BY <1>1, <1>7 DEF NULL
<1>10. made.st_size \in Nat /\ made.room \in Nat /\ made.cursor \in Int
  BY <1>7
<1>11. IsNode(made, Len(t) + 1)
  BY <1>1, <1>a, <1>5, <1>6, <1>7, <1>8, <1>9, <1>10 DEF IsNode
<1>12. Fits(made) /\ ~made.freed
  BY <1>7 DEF Fits
<1> QED
  BY <1>7, <1>8, <1>11, <1>12, NodeTypes DEF made

\* The entry name of a directory, which leads to the node to.
DotNode(dirty, name, to) == NewNode(dirty, [type |-> "dir", name |-> name, points_to |-> to])

\* "." and ".." are nodes.
LEMMA DotNodeMade ==
    ASSUME NEW m \in Nat, NEW dirty \in BOOLEAN, NEW name \in Seq(Text), NEW to \in 1..m
    PROVE  LET n == DotNode(dirty, name, to)
           IN  /\ n \in Nodes(m) /\ n.name = name /\ n.points_to = to
               /\ Childless(n) /\ ~n.freed /\ Fits(n)
<1> DEFINE n == DotNode(dirty, name, to)
           f == [type |-> "dir", name |-> name, points_to |-> to]
<1>1. n = NewNode(dirty, f)
  BY DEF DotNode
<1> HIDE DEF n
<1>2. /\ DOMAIN f = {"type", "name", "points_to"}
      /\ f.type = "dir" /\ f.name = name /\ f.points_to = to
  OBVIOUS
<1> HIDE DEF f
<1>3. /\ n = [x \in FieldNames |-> n[x]]
      /\ n.type = "dir" /\ n.name = name /\ n.parent = NULL /\ n.points_to = to
      /\ n.children = (IF dirty THEN <<Junk>> ELSE <<>>)
      /\ n.mountpoint = "none" /\ n.st_size = 0 /\ n.cursor = 0 /\ n.append = FALSE
      /\ n.room = 0 /\ n.freed = FALSE /\ n.archived = FALSE /\ n.init = FALSE
      /\ n.junk = (IF dirty THEN Fields ELSE {}) \ DOMAIN f
  <2>1. Made(n, dirty, f)
    BY <1>1, NewNodeFields, Zenon
  <2> QED
    BY <1>2, <2>1 DEF Made, Or
<1>4. Childless(n) /\ n.children \in Seq((1..m) \cup {Junk})
  BY <1>3, UnsetChildren
<1>5. /\ n.points_to \in (0..m) \cup {Junk} /\ n.parent \in 0..m
      /\ n.junk \in SUBSET Fields /\ n.st_size \in Nat /\ n.room \in Nat /\ n.cursor \in Int
  BY <1>3 DEF NULL
<1>6. IsNode(n, m)
  BY <1>3, <1>4, <1>5 DEF IsNode, FsNames
<1>7. Fits(n) /\ ~n.freed
  BY <1>3 DEF Fits
<1> QED
  BY <1>3, <1>4, <1>6, <1>7, NodeTypes DEF n

\* A directory below parent, with the list children.
DirNode(dirty, parent, name, fs, children) ==
    NewNode(dirty, [type |-> "dir", parent |-> parent, name |-> name, mountpoint |-> fs,
                    children |-> children])

DirFields(m, dirty, parent, name, fs, children) ==
    /\ m \in Nat /\ dirty \in BOOLEAN /\ parent \in 1..m /\ name \in Seq(Text)
    /\ fs \in FsNames /\ children \in Seq((1..m) \cup {Junk})

\* A new directory is a node.
LEMMA DirNodeMade ==
    ASSUME NEW m, NEW dirty, NEW parent, NEW name, NEW fs, NEW children,
           DirFields(m, dirty, parent, name, fs, children)
    PROVE  LET n == DirNode(dirty, parent, name, fs, children)
           IN  /\ n \in Nodes(m) /\ n.parent = parent /\ n.children = children
               /\ ~n.freed /\ Fits(n)
<1> DEFINE n == DirNode(dirty, parent, name, fs, children)
           f == [type |-> "dir", parent |-> parent, name |-> name, mountpoint |-> fs,
                 children |-> children]
<1>0. /\ m \in Nat /\ dirty \in BOOLEAN /\ parent \in 1..m /\ name \in Seq(Text)
      /\ fs \in FsNames /\ children \in Seq((1..m) \cup {Junk})
  BY DEF DirFields
<1>1. n = NewNode(dirty, f)
  BY DEF DirNode
<1> HIDE DEF n
<1>2. /\ DOMAIN f = {"type", "parent", "name", "mountpoint", "children"}
      /\ f.type = "dir" /\ f.parent = parent /\ f.name = name /\ f.mountpoint = fs
      /\ f.children = children
  OBVIOUS
<1> HIDE DEF f
<1>3. /\ n = [x \in FieldNames |-> n[x]]
      /\ n.type = "dir" /\ n.name = name /\ n.parent = parent
      /\ n.points_to = (IF dirty THEN Junk ELSE NULL)
      /\ n.children = children /\ n.mountpoint = fs
      /\ n.st_size = 0 /\ n.cursor = 0 /\ n.append = FALSE
      /\ n.room = 0 /\ n.freed = FALSE /\ n.archived = FALSE /\ n.init = FALSE
      /\ n.junk = (IF dirty THEN Fields ELSE {}) \ DOMAIN f
  <2>1. Made(n, dirty, f)
    BY <1>1, NewNodeFields, Zenon
  <2> QED
    BY <1>2, <2>1 DEF Made, Or
<1>4. /\ n.points_to \in (0..m) \cup {Junk} /\ n.parent \in 0..m
      /\ n.junk \in SUBSET Fields /\ n.st_size \in Nat /\ n.room \in Nat /\ n.cursor \in Int
  <2>1. NULL \in 0..m
    BY <1>0 DEF NULL
  <2>2. n.points_to \in (0..m) \cup {Junk}
    BY <1>3, <2>1
  <2>3. n.junk \in SUBSET Fields
    BY <1>3
  <2> QED
    BY <1>0, <1>3, <2>2, <2>3
<1>5. IsNode(n, m)
  BY <1>0, <1>3, <1>4 DEF IsNode
<1>6. Fits(n) /\ ~n.freed
  BY <1>3 DEF Fits
<1> QED
  BY <1>3, <1>5, <1>6, NodeTypes DEF n

\* The root is made in the same way, without a file system yet.
RootNode(dirty, parent, name, children) ==
    NewNode(dirty, [type |-> "dir", parent |-> parent, name |-> name, mountpoint |-> "none",
                    children |-> children])

\* It is a node.
LEMMA RootNodeMade ==
    ASSUME NEW m \in Nat, NEW dirty \in BOOLEAN, NEW parent \in 1..m,
           NEW name \in Seq(Text), NEW children \in Seq((1..m) \cup {Junk})
    PROVE  LET n == RootNode(dirty, parent, name, children)
           IN  n \in Nodes(m) /\ n.children = children /\ ~n.freed /\ Fits(n)
<1> DEFINE n == RootNode(dirty, parent, name, children)
           f == [type |-> "dir", parent |-> parent, name |-> name, mountpoint |-> "none",
                 children |-> children]
<1>1. n = NewNode(dirty, f)
  BY DEF RootNode
<1> HIDE DEF n
<1>2. /\ DOMAIN f = {"type", "parent", "name", "mountpoint", "children"}
      /\ f.type = "dir" /\ f.parent = parent /\ f.name = name /\ f.children = children
      /\ f.mountpoint = "none"
  OBVIOUS
<1> HIDE DEF f
<1>3. /\ n = [x \in FieldNames |-> n[x]]
      /\ n.type = "dir" /\ n.name = name /\ n.parent = parent
      /\ n.points_to = (IF dirty THEN Junk ELSE NULL)
      /\ n.children = children /\ n.mountpoint = "none"
      /\ n.st_size = 0 /\ n.cursor = 0 /\ n.append = FALSE
      /\ n.room = 0 /\ n.freed = FALSE /\ n.archived = FALSE /\ n.init = FALSE
      /\ n.junk = (IF dirty THEN Fields ELSE {}) \ DOMAIN f
  <2>1. Made(n, dirty, f)
    BY <1>1, NewNodeFields, Zenon
  <2> QED
    BY <1>2, <2>1 DEF Made, Or
<1>4. /\ n.points_to \in (0..m) \cup {Junk} /\ n.parent \in 0..m
      /\ n.junk \in SUBSET Fields /\ n.st_size \in Nat /\ n.room \in Nat /\ n.cursor \in Int
  <2>1. NULL \in 0..m
    BY DEF NULL
  <2>2. n.points_to \in (0..m) \cup {Junk}
    BY <1>3, <2>1
  <2>3. n.junk \in SUBSET Fields
    BY <1>3
  <2> QED
    BY <1>3, <2>2, <2>3
<1>5. IsNode(n, m)
  BY <1>3, <1>4 DEF IsNode, FsNames
<1>6. Fits(n) /\ ~n.freed
  BY <1>3 DEF Fits
<1> QED
  BY <1>3, <1>5, <1>6, NodeTypes DEF n

-----------------------------------------------------------------------------
(* The operations.                                                         *)

\* An operation that made r of the tree t: the tree has grown, and what is
\* returned is a pointer into it, NULL or Junk, or the reason for a stop.
Yields(t, r) ==
    /\ r = Result(r.tree, r.file, r.error)
    /\ Extends(t, r.tree)
    /\ r.file \in (0..Len(r.tree)) \cup {Junk, Fault, Wild}
    /\ r.error \in {"none", "ENOENT", "EISDIR"}

\* A result with a tree that has grown.
LEMMA ResultYields ==
    ASSUME NEW t, NEW u, Extends(t, u), NEW file \in (0..Len(u)) \cup {Junk, Fault, Wild},
           NEW error \in {"none", "ENOENT", "EISDIR"}
    PROVE  Yields(t, Result(u, file, error))
<1> DEFINE r == Result(u, file, error)
<1>1. r.tree = u /\ r.file = file /\ r.error = error
  BY DEF Result
<1> HIDE DEF r
<1>2. Yields(t, r)
  BY <1>1 DEF Yields, r
<1> QED
  BY <1>2 DEF r

\* The first directory is the root.
LEMMA RootYields ==
    ASSUME NEW dirty \in BOOLEAN, NEW parent
    PROVE  LET r == MkdirIn(<<>>, parent, <<"", "">>, dirty)
           IN  Yields(<<>>, r) /\ r.file = 1 /\ Len(r.tree) = 1 /\ r.error = "none"
<1> DEFINE name == <<"", "">>
           children == <<>>
           n == RootNode(dirty, 1, name, children)
           u == <<n>>
           r == MkdirIn(<<>>, parent, <<"", "">>, dirty)
<1>1. r = Result(u, 1, "none")
  BY DEF MkdirIn, RootNode
<1>2. name \in Seq(Text)
  <2>1. "" \in Text
    BY DEF Text
  <2>2. ASSUME NEW S, NEW s \in S PROVE <<s, s>> \in Seq(S)
    OBVIOUS
  <2> QED
    BY <2>1, <2>2, Zenon
<1>3. children \in Seq((1..1) \cup {Junk}) /\ DOMAIN children = {}
  OBVIOUS
<1> HIDE DEF name, children, r
<1>4. n \in Nodes(1) /\ n.children = children /\ ~n.freed /\ Fits(n)
  <2> DEFINE m == 1
  <2>1. m \in Nat /\ m \in 1..m
    OBVIOUS
  <2>2. children \in Seq((1..m) \cup {Junk}) /\ n = RootNode(dirty, m, name, children)
    BY <1>3
  <2> HIDE DEF n, m
  <2>3. n \in Nodes(m) /\ n.children = children /\ ~n.freed /\ Fits(n)
    BY <1>2, <2>1, <2>2, RootNodeMade, Zenon
  <2> QED
    BY <2>3 DEF m
<1> HIDE DEF n
<1>5. Len(u) = 1 /\ u[1] = n /\ u \in Seq(Nodes(1)) /\ DOMAIN u = {1} /\ Len(<<>>) = 0
  BY <1>4
<1> HIDE DEF u
<1>6. IsTree(u)
  BY <1>5 DEF IsTree
<1>7. LinksGrow(<<>>, u)
  BY <1>3, <1>4, <1>5 DEF LinksGrow
<1>8. WellLinked(u)
  BY <1>5 DEF WellLinked, Root
<1>9. Extends(<<>>, u)
  BY <1>4, <1>5, <1>6, <1>7, <1>8 DEF Extends
<1>10. Yields(<<>>, r)
  <2>1. 1 \in (0..Len(u)) \cup {Junk, Fault, Wild}
    BY <1>5
  <2> QED
    BY <1>1, <1>9, <2>1, ResultYields
<1>11. r.tree = u /\ r.file = 1 /\ r.error = "none"
  BY <1>1 DEF Result
<1> QED
  BY <1>5, <1>10, <1>11 DEF r

\* Two nodes with the same links.
SameLinks(n, k) ==
    n.parent = k.parent /\ n.points_to = k.points_to /\ n.name = k.name /\ n.children = k.children

\* A node that is set anew, with the links it had.
LEMMA NodeSet ==
    ASSUME NEW u, IsTree(u), NEW k \in 1..Len(u), NEW n \in Nodes(Len(u)), SameLinks(n, u[k])
    PROVE  LET w == [u EXCEPT ![k] = n]
           IN  /\ IsTree(w) /\ Len(w) = Len(u) /\ w[k] = n
               /\ \A i \in 1..Len(u) : i # k => w[i] = u[i]
               /\ \A i \in 1..Len(u) : SameLinks(w[i], u[i])
               /\ WellLinked(u) => WellLinked(w)
<1> DEFINE w == [u EXCEPT ![k] = n]
<1>1. u \in Seq(Nodes(Len(u))) /\ Len(u) \in Nat
  BY DEF IsTree
<1>2. /\ w \in Seq(Nodes(Len(u))) /\ Len(w) = Len(u) /\ w[k] = n
      /\ \A i \in 1..Len(u) : i # k => w[i] = u[i]
  BY <1>1
<1> HIDE DEF w
<1>3. IsTree(w) /\ DOMAIN u = 1..Len(u) /\ DOMAIN w = 1..Len(u)
  BY <1>1, <1>2 DEF IsTree
<1>4. \A i \in 1..Len(u) : SameLinks(w[i], u[i])
  BY <1>2 DEF SameLinks
<1>5. ASSUME NEW m \in DOMAIN u, NEW d \in DOMAIN u, NEW i \in DOMAIN u[d].children,
             LinkedAt(u, m, d, i)
      PROVE  i \in DOMAIN w[d].children /\ LinkedAt(w, m, d, i)
  BY <1>3, <1>4, <1>5 DEF LinkedAt, SameLinks
<1>6. WellLinked(u) => WellLinked(w)
  BY <1>3, <1>5 DEF WellLinked
<1> QED
  BY <1>2, <1>3, <1>4, <1>6 DEF w

\* Nodes with the same links stand for each other.
LEMMA LinksGrowSame ==
    ASSUME NEW t, NEW u, NEW w, LinksGrow(t, u), Len(w) = Len(u), Len(u) \in Nat, Len(t) \in Nat,
           \A i \in 1..Len(u) : SameLinks(w[i], u[i])
    PROVE  LinksGrow(t, w)
<1>1. Len(t) <= Len(u) /\ \A i \in 1..Len(t) : i \in 1..Len(u)
  BY DEF LinksGrow
<1> QED
  BY <1>1 DEF LinksGrow, SameLinks

\* Setting the file system of a node.
WithFs(n, fs) == [n EXCEPT !.mountpoint = fs]

\* The links and the buffer of the node stay.
LEMMA FsSet ==
    ASSUME NEW m \in Nat, NEW n \in Nodes(m), NEW fs \in FsNames
    PROVE  /\ WithFs(n, fs) \in Nodes(m)
           /\ SameLinks(WithFs(n, fs), n)
           /\ WithFs(n, fs).freed = n.freed
           /\ Fits(n) => Fits(WithFs(n, fs))
<1> DEFINE u == WithFs(n, fs)
<1>1. u = [n EXCEPT !.mountpoint = fs]
  BY DEF WithFs
<1> HIDE DEF u
<1>2. IsNode(n, m)
  BY NodeTypes
<1>3. IsNode(u, m) /\ \A x \in FieldNames \ {"mountpoint"} : u[x] = n[x]
  BY <1>1, <1>2 DEF IsNode, FieldNames
<1>4. SameLinks(u, n) /\ u.freed = n.freed /\ (Fits(n) => Fits(u))
  BY <1>3 DEF FieldNames, SameLinks, Fits
<1> QED
  BY <1>3, <1>4, NodeTypes DEF u

\* A file system is entered in a directory that is new.
Entered(u, k, fs) == [u EXCEPT ![k].mountpoint = fs]

\* The tree with the file system entered still extends the old one.
LEMMA FsEntered ==
    ASSUME NEW t, IsTree(t), NEW u, Extends(t, u), NEW k \in 1..Len(u) \ 1..Len(t),
           NEW fs \in FsNames
    PROVE  Extends(t, Entered(u, k, fs)) /\ Len(Entered(u, k, fs)) = Len(u)
<1> DEFINE n == WithFs(u[k], fs)
           w == [u EXCEPT ![k] = n]
<1>1. IsTree(u) /\ LinksGrow(t, u) /\ Len(t) \in Nat /\ Len(u) \in Nat
  BY TreeNodes DEF Extends
<1>2. u[k] \in Nodes(Len(u))
  BY <1>1, TreeNodes
<1>3. n \in Nodes(Len(u)) /\ SameLinks(n, u[k]) /\ n.freed = u[k].freed
      /\ (Fits(u[k]) => Fits(n))
  BY <1>1, <1>2, FsSet
<1>4. w = Entered(u, k, fs)
  BY DEF WithFs, Entered
<1> HIDE DEF n
<1>5. /\ IsTree(w) /\ Len(w) = Len(u) /\ w[k] = n
      /\ \A i \in 1..Len(u) : i # k => w[i] = u[i]
      /\ \A i \in 1..Len(u) : SameLinks(w[i], u[i])
      /\ WellLinked(u) => WellLinked(w)
  BY <1>1, <1>3, NodeSet, Zenon
<1> HIDE DEF w
<1>6. LinksGrow(t, w)
  BY <1>1, <1>5, LinksGrowSame
<1>7. ~u[k].freed /\ Fits(u[k])
  BY DEF Extends
<1>8. \A i \in 1..Len(w) \ 1..Len(t) : ~w[i].freed /\ Fits(w[i])
  BY <1>3, <1>5, <1>7 DEF Extends
<1>9. \A i \in 1..Len(t) : w[i] = u[i]
  BY <1>1, <1>5 DEF LinksGrow
<1>10. \A i \in 1..Len(t) : \A x \in FieldNames \ {"children", "append"} : w[i][x] = t[i][x]
  BY <1>9 DEF Extends
<1>11. Extends(t, w)
  BY <1>5, <1>6, <1>8, <1>10 DEF Extends
<1> QED
  BY <1>4, <1>5, <1>11

\* A lookup from the root yields a node or nothing, or stops.
LEMMA ParentFromRoot ==
    ASSUME NEW t, IsTree(t), Len(t) > 0, NEW path, IsPath(path)
    PROVE  vfs_get_parent(t, Root, path) \in (0..Len(t)) \cup {Fault, Wild}
<1>1. Len(path) \in Nat \ {0}
  BY DEF IsPath
<1>2. Len(t) \in Nat
  BY TreeNodes
<1>3. Root \in 0..Len(t)
  BY <1>2 DEF Root
<1>4. vfs_get_parent(t, Root, path) \in (0..Len(t)) \cup {Root, Fault, Wild}
  BY <1>1, <1>3, ParentYields, Zenon
<1> QED
  BY <1>3, <1>4

\* A directory below parent: nothing is made, or a directory with its entries.
LEMMA MkdirInYields ==
    ASSUME NEW t, IsTree(t), Len(t) > 0, NEW path, BelowRoot(path), NEW dirty \in BOOLEAN,
           NEW parent \in (0..Len(t)) \cup {Fault, Wild}
    PROVE  /\ Yields(t, MkdirIn(t, parent, path, dirty))
           /\ MkdirIn(t, parent, path, dirty).file \in {NULL, Fault, Wild} \/
              MkdirIn(t, parent, path, dirty).file
                 \in 1..Len(MkdirIn(t, parent, path, dirty).tree) \ 1..Len(t)
<1> DEFINE new == Len(t) + 1
           name == basename(path)
           fs == t[Root].mountpoint
           children == <<new + 1, new + 2>>
           dir == DirNode(dirty, parent, name, fs, children)
           a == DotNode(dirty, <<"..">>, parent)
           b == DotNode(dirty, <<".">>, new)
           u == AddChild(t, dir) \o <<a, b>>
           r == MkdirIn(t, parent, path, dirty)
<1>1. Len(t) \in Nat /\ 1 \in 1..Len(t)
  BY TreeNodes
<1>2. r = IF parent = NULL THEN Result(t, NULL, "ENOENT")
          ELSE IF parent \in Stops THEN Result(t, parent, "none")
          ELSE IF Contains(t[parent].children, Junk) THEN Result(t, Wild, "none")
          ELSE Result(u, new, "none")
  BY Zenon DEF BelowRoot, MkdirIn, DirNode, DotNode, DotEntries
<1>3. name \in Seq(Text)
  BY BasenameIsName DEF BelowRoot, IsPath
<1> HIDE DEF r, name
<1>4. fs \in FsNames
  BY <1>1, TreeNodes DEF IsNode, Root
<1>5. Extends(t, t)
  BY ExtendsSame
<1>6. CASE parent = NULL
  <2>1. r = Result(t, NULL, "ENOENT")
    BY <1>2, <1>6
  <2>2. NULL \in (0..Len(t)) \cup {Junk, Fault, Wild}
    BY <1>1 DEF NULL
  <2>3. Yields(t, r)
    BY <1>5, <2>1, <2>2, ResultYields
  <2> QED
    BY <2>1, <2>3 DEF r, Result
<1>7. CASE parent # NULL /\ parent \in Stops
  <2>1. r = Result(t, parent, "none")
    BY <1>2, <1>7
  <2>2. parent \in (0..Len(t)) \cup {Junk, Fault, Wild} /\ parent \in {Fault, Wild}
    BY <1>7 DEF Stops
  <2>3. Yields(t, r)
    BY <1>5, <2>1, <2>2, ResultYields
  <2> QED
    BY <2>1, <2>2, <2>3 DEF r, Result
<1>8. CASE parent # NULL /\ parent \notin Stops
  <2>1. parent \in 1..Len(t)
    BY <1>1, <1>8 DEF NULL, Stops
  <2>2. CASE Contains(t[parent].children, Junk)
    <3>1. r = Result(t, Wild, "none")
      BY <1>2, <1>8, <2>2
    <3>2. Wild \in (0..Len(t)) \cup {Junk, Fault, Wild}
      OBVIOUS
    <3>3. Yields(t, r)
      BY <1>5, <3>1, <3>2, ResultYields
    <3> QED
      BY <3>1, <3>3 DEF r, Result
  <2>3. CASE ~Contains(t[parent].children, Junk)
    <3>1. r = Result(u, new, "none")
      BY <1>2, <1>8, <2>3
    <3> DEFINE m == Len(t) + 3
    <3>2. m \in Nat /\ parent \in 1..m /\ new \in 1..m /\ new + 1 \in 1..m /\ new + 2 \in 1..m
      BY <1>1, <2>1
    <3>3. children \in Seq((1..m) \cup {Junk}) /\ children = <<Len(t) + 2, Len(t) + 3>>
      BY <1>1, <3>2
    <3>4. <<"..">> \in Seq(Text) /\ <<".">> \in Seq(Text)
      BY DEF Text
    <3> HIDE DEF m, new, fs, children
    <3>5. /\ dir \in Nodes(m) /\ dir.parent = parent /\ dir.children = children
          /\ ~dir.freed /\ Fits(dir)
      <4>1. m \in Nat /\ parent \in 1..m /\ children \in Seq((1..m) \cup {Junk})
        BY <3>2, <3>3
      <4>2. DirFields(m, dirty, parent, name, fs, children)
        BY <1>3, <1>4, <4>1 DEF DirFields
      <4> QED
        BY <4>2, DirNodeMade, Zenon
    <3>6. /\ a \in Nodes(m) /\ a.name = <<"..">> /\ a.points_to = parent
          /\ Childless(a) /\ ~a.freed /\ Fits(a)
      BY <3>2, <3>4, DotNodeMade, Zenon
    <3>7. /\ b \in Nodes(m) /\ b.name = <<".">> /\ b.points_to = new
          /\ Childless(b) /\ ~b.freed /\ Fits(b)
      BY <3>2, <3>4, DotNodeMade, Zenon
    <3> HIDE DEF dir, a, b
    <3>8. Extends(t, u) /\ Len(u) = m
      <4>1. \A n \in {dir, a, b} : ~n.freed /\ Fits(n)
        BY <3>5, <3>6, <3>7
      <4>2. dir \in Nodes(Len(t) + 3) /\ a \in Nodes(Len(t) + 3) /\ b \in Nodes(Len(t) + 3)
        BY <3>5, <3>6, <3>7 DEF m
      <4>3. b.points_to = Len(t) + 1
        BY <3>7 DEF new
      <4>4. Extends(t, u) /\ Len(u) = Len(t) + 3
        BY <2>1, <3>3, <3>5, <3>6, <3>7, <4>1, <4>2, <4>3, DirAdded, Zenon
      <4> QED
        BY <4>4 DEF m
    <3> HIDE DEF u
    <3>9. new \in 1..Len(u) \ 1..Len(t)
      BY <1>1, <3>8 DEF m, new
    <3>10. new \in (0..Len(u)) \cup {Junk, Fault, Wild}
      BY <1>1, <3>8 DEF m, new
    <3>11. Yields(t, r)
      BY <3>1, <3>8, <3>10, ResultYields
    <3>12. r.file = new /\ r.tree = u
      BY <3>1 DEF Result
    <3> QED
      BY <3>9, <3>11, <3>12 DEF r
  <2> QED
    BY <2>2, <2>3
<1> QED
  BY <1>6, <1>7, <1>8

\* vfs_mkdir, with or without a parent: a new directory, or none.
LEMMA MkdirYields ==
    ASSUME NEW t, IsTree(t), Len(t) > 0, NEW path, BelowRoot(path), NEW dirty \in BOOLEAN
    PROVE  LET r == vfs_mkdir(t, path, dirty)
           IN  /\ Yields(t, r)
               /\ r.file \in {NULL, Fault, Wild} \/ r.file \in 1..Len(r.tree) \ 1..Len(t)
<1>1. vfs_get_parent(t, Root, path) \in (0..Len(t)) \cup {Fault, Wild}
  BY ParentFromRoot DEF BelowRoot
<1> QED
  BY <1>1, MkdirInYields, Zenon DEF vfs_mkdir

\* The file system is entered in the directory that was made.
LEMMA MountOnYields ==
    ASSUME NEW t, IsTree(t), NEW r, Yields(t, r), NEW fs \in FsNames,
           r.file \in {NULL, Fault, Wild} \/ r.file \in 1..Len(r.tree) \ 1..Len(t)
    PROVE  /\ Yields(t, MountOn(r, fs))
           /\ MountOn(r, fs).file \notin Stops => MountOn(r, fs).file \in 1..Len(r.tree)
           /\ Len(MountOn(r, fs).tree) = Len(r.tree)
<1>1. /\ r = Result(r.tree, r.file, r.error) /\ Extends(t, r.tree)
      /\ r.file \in (0..Len(r.tree)) \cup {Junk, Fault, Wild}
      /\ r.error \in {"none", "ENOENT", "EISDIR"}
  BY DEF Yields
<1>2. CASE r.file \in Stops
  BY <1>2 DEF MountOn
<1>3. CASE r.file \notin Stops /\ r.file = NULL
  <2>1. MountOn(r, fs) = [r EXCEPT !.file = Fault]
    BY <1>3 DEF MountOn
  <2> DEFINE m == Result(r.tree, Fault, r.error)
  <2>2. MountOn(r, fs) = m
    BY <1>1, <2>1 DEF Result
  <2>3. m.tree = r.tree /\ m.file = Fault
    BY DEF Result
  <2>4. Yields(t, m)
    BY <1>1, ResultYields
  <2> HIDE DEF m
  <2> QED
    BY <2>2, <2>3, <2>4 DEF Stops
<1>4. CASE r.file \notin Stops /\ r.file # NULL
  <2> DEFINE w == Entered(r.tree, r.file, fs)
             m == Result(w, r.file, r.error)
  <2>1. MountOn(r, fs) = [r EXCEPT !.tree = w]
    BY <1>4 DEF MountOn, Entered
  <2>2. r.file \in 1..Len(r.tree) \ 1..Len(t)
    BY <1>4 DEF Stops
  <2>3. Extends(t, w) /\ Len(w) = Len(r.tree)
    BY <1>1, <2>2, FsEntered, Zenon
  <2> HIDE DEF w
  <2>4. MountOn(r, fs) = m
    BY <1>1, <2>1 DEF Result
  <2>5. m.tree = w /\ m.file = r.file
    BY DEF Result
  <2>6. r.file \in (0..Len(w)) \cup {Junk, Fault, Wild}
    BY <1>1, <2>3
  <2>7. Yields(t, m)
    BY <1>1, <2>3, <2>6, ResultYields
  <2> HIDE DEF m
  <2> QED
    BY <2>2, <2>3, <2>4, <2>5, <2>7
<1> QED
  BY <1>2, <1>3, <1>4

\* A file of the archive is made, or the kernel stops.
LEMMA CreateYields ==
    ASSUME NEW t, IsTree(t), Len(t) > 0, NEW path, IsPath(path), NEW size \in Nat,
           NEW dirty \in BOOLEAN
    PROVE  Yields(t, tmpfs_create_file(t, path, size, dirty))
<1> DEFINE parent == vfs_get_parent(t, Root, path)
           n == FileNode(t, parent, path, size, dirty)
           u == AddChild(t, n)
           r == tmpfs_create_file(t, path, size, dirty)
<1>1. Len(t) \in Nat
  BY TreeNodes
<1>2. parent \in (0..Len(t)) \cup {Fault, Wild}
  BY ParentFromRoot
<1> HIDE DEF parent
<1>3. r = IF parent \in {NULL, Fault} THEN Result(t, Fault, "none")
          ELSE IF parent = Wild \/ Contains(t[parent].children, Junk)
          THEN Result(t, Wild, "none")
          ELSE Result(u, Len(t) + 1, "none")
  BY Zenon DEF tmpfs_create_file, CreateFileIn, parent
<1> HIDE DEF r
<1>4. Extends(t, t)
  BY ExtendsSame
<1>5. CASE r = Result(t, Fault, "none") \/ r = Result(t, Wild, "none")
  BY <1>4, <1>5, ResultYields DEF r
<1>6. CASE parent \notin {NULL, Fault, Wild} /\ r = Result(u, Len(t) + 1, "none")
  <2>1. parent \in 1..Len(t)
    BY <1>1, <1>2, <1>6 DEF NULL
  <2>2. /\ n \in Nodes(Len(t) + 1) /\ n.parent = parent
        /\ Childless(n) /\ ~n.freed /\ Fits(n)
    BY <2>1, FileNodeMade
  <2> HIDE DEF n
  <2>3. Extends(t, u) /\ Len(u) = Len(t) + 1
    BY <2>1, <2>2, FileAdded, Zenon
  <2> HIDE DEF u
  <2>4. Len(t) + 1 \in (0..Len(u)) \cup {Junk, Fault, Wild}
    BY <1>1, <2>3
  <2> QED
    BY <1>6, <2>3, <2>4, ResultYields DEF r
<1> QED
  BY <1>3, <1>5, <1>6

\* Setting the mode of a node.
WithMode(n, mode) == [n EXCEPT !.append = mode]
ModeSet(t, k, mode) == [t EXCEPT ![k].append = mode]

\* vfs_open sets the mode of the node it found.
LEMMA ModeSetExtends ==
    ASSUME NEW t, IsTree(t), NEW k \in 1..Len(t), NEW mode \in BOOLEAN
    PROVE  Extends(t, ModeSet(t, k, mode)) /\ Len(ModeSet(t, k, mode)) = Len(t)
<1> DEFINE n == WithMode(t[k], mode)
           w == [t EXCEPT ![k] = n]
<1>1. Len(t) \in Nat /\ t[k] \in Nodes(Len(t)) /\ IsNode(t[k], Len(t))
  BY TreeNodes
<1>2. w = ModeSet(t, k, mode)
  BY DEF WithMode, ModeSet
<1>3. n = [t[k] EXCEPT !.append = mode]
  BY DEF WithMode
<1> HIDE DEF n
<1>4. IsNode(n, Len(t)) /\ \A x \in FieldNames \ {"append"} : n[x] = t[k][x]
  BY <1>1, <1>3 DEF IsNode, FieldNames
<1>5. n \in Nodes(Len(t)) /\ SameLinks(n, t[k])
  BY <1>4, NodeTypes DEF FieldNames, SameLinks
<1>6. /\ IsTree(w) /\ Len(w) = Len(t) /\ w[k] = n
      /\ \A i \in 1..Len(t) : i # k => w[i] = t[i]
      /\ \A i \in 1..Len(t) : SameLinks(w[i], t[i])
      /\ WellLinked(t) => WellLinked(w)
  BY <1>5, NodeSet, Zenon
<1> HIDE DEF w
<1>7. LinksGrow(t, w)
  <2>1. LinksGrow(t, t)
    BY ExtendsSame DEF Extends
  <2> QED
    BY <1>1, <1>6, <2>1, LinksGrowSame
<1>8. \A i \in 1..Len(t) : \A x \in FieldNames \ {"children", "append"} : w[i][x] = t[i][x]
  BY <1>4, <1>6
<1>9. \A i \in 1..Len(w) \ 1..Len(t) : ~w[i].freed /\ Fits(w[i])
  BY <1>6
<1>10. Extends(t, w)
  BY <1>6, <1>7, <1>8, <1>9 DEF Extends
<1> QED
  BY <1>2, <1>6, <1>10

\* An open finds a node or makes a file, or fails, or the kernel stops.
LEMMA OpenYields ==
    ASSUME NEW t, IsTree(t), Len(t) > 0, NEW start, NEW path, IsPath(path), NEW flags,
           NEW dirty \in BOOLEAN
    PROVE  Yields(t, vfs_open(t, start, path, flags, dirty))
<1> DEFINE parent == vfs_get_parent(t, Root, path)
           node == Found(t, parent, path)
           mode == "O_APPEND" \in flags
           created == AddChild(t, CreatedNode(t, parent, path, flags, dirty))
           opened == ModeSet(t, node, mode)
           to == IF "O_CREAT" \in flags \/ t[node].points_to = NULL THEN node
                 ELSE t[node].points_to
           r == vfs_open(t, start, path, flags, dirty)
<1>1. Len(t) \in Nat
  BY TreeNodes
<1>2. parent \in (0..Len(t)) \cup {Fault, Wild}
  BY ParentFromRoot
<1>3. r = IF parent \in Stops THEN Result(t, parent, "none")
          ELSE IF parent = NULL THEN Result(t, NULL, "ENOENT")
          ELSE IF node = Wild THEN Result(t, Wild, "none")
          ELSE IF node = NULL THEN
               IF "O_CREAT" \notin flags THEN Result(t, NULL, "ENOENT")
               ELSE IF Contains(t[parent].children, Junk) THEN Result(t, Wild, "none")
               ELSE Result(created, Len(t) + 1, "none")
          ELSE IF t[node].type = "dir" /\ "O_DIRECTORY" \notin flags THEN
               Result(t, NULL, "EISDIR")
          ELSE Result(opened, to, "none")
  BY Zenon DEF vfs_open, OpenIn, OpenNode, ModeSet
<1> HIDE DEF r, parent
<1>4. Extends(t, t)
  BY ExtendsSame
<1>5. NULL \in (0..Len(t)) \cup {Junk, Fault, Wild}
  BY <1>1 DEF NULL
<1>6. CASE \/ r = Result(t, NULL, "ENOENT") \/ r = Result(t, NULL, "EISDIR")
           \/ r = Result(t, Wild, "none") \/ r = Result(t, Fault, "none")
  BY <1>4, <1>5, <1>6, ResultYields DEF r
<1>7. CASE parent \notin Stops \cup {NULL} /\ r = Result(created, Len(t) + 1, "none")
  <2>1. parent \in 1..Len(t)
    BY <1>1, <1>2, <1>7 DEF NULL, Stops
  <2> DEFINE n == CreatedNode(t, parent, path, flags, dirty)
  <2>2. /\ n \in Nodes(Len(t) + 1) /\ n.parent = parent
        /\ Childless(n) /\ ~n.freed /\ Fits(n)
    BY <2>1, CreatedNodeMade
  <2> HIDE DEF n
  <2> DEFINE u == AddChild(t, n)
  <2>3. Extends(t, u) /\ Len(u) = Len(t) + 1
    BY <2>1, <2>2, FileAdded, Zenon
  <2>4. r = Result(u, Len(t) + 1, "none")
    BY <1>7 DEF n
  <2> HIDE DEF u
  <2>5. Len(t) + 1 \in (0..Len(u)) \cup {Junk, Fault, Wild}
    BY <1>1, <2>3
  <2> QED
    BY <2>3, <2>4, <2>5, ResultYields DEF r
<1>8. CASE parent \notin Stops \cup {NULL} /\ node \notin {Wild, NULL}
           /\ r = Result(opened, to, "none")
  <2>1. parent \in 1..Len(t)
    BY <1>1, <1>2, <1>8 DEF NULL, Stops
  <2>2. node \in (1..Len(t)) \cup {NULL, Fault, Wild} /\ node # Fault
    <3>1. node = vfs_find_node(t, parent, basename(path))
      BY <1>8 DEF Found
    <3>2. parent \in (0..Len(t)) \cup {Junk}
      BY <1>1, <2>1
    <3> QED
      BY <2>1, <3>1, <3>2, FindYields, Zenon
  <2> HIDE DEF node
  <2>3. node \in 1..Len(t)
    BY <1>8, <2>2
  <2>4. mode \in BOOLEAN
    OBVIOUS
  <2> HIDE DEF mode
  <2>5. Extends(t, opened) /\ Len(opened) = Len(t)
    BY <2>3, <2>4, ModeSetExtends, Zenon
  <2> HIDE DEF opened
  <2>6. t[node].points_to \in (0..Len(t)) \cup {Junk}
    BY <2>3, TreeNodes DEF IsNode
  <2>7. to \in (0..Len(opened)) \cup {Junk, Fault, Wild}
    BY <1>1, <2>3, <2>5, <2>6
  <2> HIDE DEF to
  <2> QED
    BY <1>8, <2>5, <2>7, ResultYields DEF r
<1>9. \/ r = Result(t, NULL, "ENOENT") \/ r = Result(t, NULL, "EISDIR")
      \/ r = Result(t, Wild, "none") \/ r = Result(t, Fault, "none")
      \/ parent \notin Stops \cup {NULL} /\ r = Result(created, Len(t) + 1, "none")
      \/ parent \notin Stops \cup {NULL} /\ node \notin {Wild, NULL}
           /\ r = Result(opened, to, "none")
  <2>1. parent \in Stops => parent = Fault \/ parent = Wild
    BY DEF Stops
  <2> HIDE DEF node, created, opened, to
  <2> QED
    BY <1>3, <2>1
<1> QED
  BY <1>6, <1>7, <1>8, <1>9

-----------------------------------------------------------------------------
(* The archive.                                                            *)

\* Where the pieces of a flattened sequence begin.
Starts(seqs, pos) ==
    /\ pos[1] = 1
    /\ pos[Len(seqs) + 1] = Len(FlattenSeq(seqs)) + 1
    /\ \A i \in 1..Len(seqs) :
          /\ pos[i + 1] = pos[i] + Len(seqs[i])
          /\ Len(seqs[i]) > 0 => /\ pos[i] \in 1..Len(FlattenSeq(seqs))
                                 /\ FlattenSeq(seqs)[pos[i]] = seqs[i][1]

Pieces(seqs, B) == seqs \in Seq(Seq(B))

\* Where the parts of a concatenation stand.
LEMMA Concatenation ==
    ASSUME NEW B, NEW s \in Seq(B), NEW r \in Seq(B)
    PROVE  /\ s \o r \in Seq(B)
           /\ Len(s \o r) = Len(s) + Len(r)
           /\ \A k \in 1..Len(s) : (s \o r)[k] = s[k]
           /\ Len(r) > 0 => (s \o r)[Len(s) + 1] = r[1]
  OBVIOUS

\* Where the parts of a flattened sequence start.
LEMMA FlattenStarts ==
    ASSUME NEW B, NEW seqs, Pieces(seqs, B)
    PROVE  FlattenSeq(seqs) \in Seq(B) /\ \E pos : Starts(seqs, pos)
<1> DEFINE n == Len(seqs)
<1>1. n \in Nat /\ \A i \in 1..n : seqs[i] \in Seq(B)
  BY DEF Pieces
<1>2. CASE n = 0
  <2>1. FlattenSeq(seqs) = seqs /\ seqs = <<>>
    BY <1>2 DEF FlattenSeq, Pieces
  <2>2. FlattenSeq(seqs) \in Seq(B) /\ Len(FlattenSeq(seqs)) = 0
    BY <2>1
  <2> DEFINE pos == [i \in {1} |-> 1]
  <2>3. pos[1] = 1 /\ pos[n + 1] = 1
    BY <1>2
  <2> HIDE DEF pos
  <2>4. Starts(seqs, pos)
    BY <1>2, <2>2, <2>3 DEF Starts
  <2> QED
    BY <2>2, <2>4
<1>3. CASE n > 0
  <2> DEFINE Loop(f) == [i \in 1..n |-> IF i = 1 THEN seqs[i] ELSE f[i - 1] \o seqs[i]]
             flat == CHOOSE f : f = Loop(f)
  <2>1. FlattenSeq(seqs) = flat[n]
    BY <1>1, <1>3 DEF FlattenSeq
  <2>2. \E f : f = Loop(f)
    <3> DEFINE S == Seq(B)
               start == seqs[1]
               m == n - 1
               step == [i \in 1..m |-> [x \in S |-> x \o seqs[i + 1]]]
    <3>1. m \in Nat /\ start \in S
      BY <1>1, <1>3
    <3>2. \A i \in 1..m : seqs[i + 1] \in S
      BY <1>1, <1>3
    <3>3. step \in [1..m -> [S -> S]]
      BY <3>2
    <3> HIDE DEF S, start, m, step
    <3>4. ASSUME NEW q \in [1..m -> [S -> S]]
          PROVE  \E g \in [0..m -> S] :
                    g[0] = start /\ \A i \in 1..m : g[i] = q[i][g[i - 1]]
      BY <3>1, Iteration
    <3>5. PICK g \in [0..m -> S] :
             g[0] = start /\ \A i \in 1..m : g[i] = step[i][g[i - 1]]
      BY <3>3, <3>4
    <3>6. \A i \in 1..m : g[i - 1] \in S
      BY <3>1, <3>5
    <3>7. \A i \in 1..m : g[i] = g[i - 1] \o seqs[i + 1]
      BY <3>5, <3>6, Zenon DEF step
    <3> DEFINE f == [i \in 1..n |-> g[i - 1]]
    <3>8. f = Loop(f)
      <4>1. ASSUME NEW i \in 1..n
            PROVE  f[i] = IF i = 1 THEN seqs[i] ELSE f[i - 1] \o seqs[i]
        <5>1. CASE i = 1
          BY <3>5, <5>1 DEF start
        <5>2. CASE i # 1
          <6>1. i - 1 \in 1..m /\ i - 1 \in 1..n /\ i - 1 + 1 = i
            BY <1>1, <5>2 DEF m
          <6>2. g[i - 1] = g[i - 1 - 1] \o seqs[i]
            BY <3>7, <6>1
          <6>3. f[i] = g[i - 1] /\ f[i - 1] = g[i - 1 - 1]
            BY <6>1
          <6> QED
            BY <5>2, <6>2, <6>3
        <5> QED
          BY <5>1, <5>2
      <4>2. f = [i \in 1..n |-> f[i]]
        OBVIOUS
      <4> HIDE DEF f
      <4> QED
        BY <4>1, <4>2
    <3> QED
      BY <3>8
  <2>3. flat = Loop(flat)
    BY <2>2
  <2>4. flat[1] = seqs[1] /\ \A i \in 2..n : flat[i] = flat[i - 1] \o seqs[i]
    <3> HIDE DEF flat
    <3>1. \A i \in 1..n : flat[i] = IF i = 1 THEN seqs[i] ELSE flat[i - 1] \o seqs[i]
      BY <2>3, Zenon
    <3>2. 1 \in 1..n /\ \A i \in 2..n : i \in 1..n /\ i # 1
      BY <1>1, <1>3
    <3> QED
      BY <3>1, <3>2, Zenon
  <2> HIDE DEF flat
  <2>5. \A i \in 1..n : flat[i] \in Seq(B)
    <3> DEFINE T == {i \in 1..n : flat[i] \notin Seq(B)}
    <3> SUFFICES ASSUME T # {} PROVE FALSE
      OBVIOUS
    <3>1. T \in SUBSET Nat
      OBVIOUS
    <3>2. PICK k \in T : \A y \in T : k <= y
      BY <3>1, LeastNumber
    <3>3. k # 1 /\ k \in 2..n /\ k - 1 \in 1..n
      BY <1>1, <2>4, <3>2
    <3>4. flat[k - 1] \in Seq(B) /\ seqs[k] \in Seq(B)
      BY <1>1, <3>2, <3>3
    <3>5. flat[k] = flat[k - 1] \o seqs[k]
      BY <2>4, <3>3
    <3>6. flat[k] \in Seq(B)
      BY <3>4, <3>5, Concatenation, Zenon
    <3> QED
      BY <3>2, <3>6
  <2> DEFINE Prefix(i, j) == /\ Len(flat[i]) <= Len(flat[j])
                             /\ \A k \in 1..Len(flat[i]) : flat[j][k] = flat[i][k]
  <2>6. ASSUME NEW i \in 2..n
        PROVE  /\ Len(flat[i]) = Len(flat[i - 1]) + Len(seqs[i])
               /\ Prefix(i - 1, i)
               /\ Len(seqs[i]) > 0 => flat[i][Len(flat[i - 1]) + 1] = seqs[i][1]
    <3>1. i - 1 \in 1..n /\ flat[i - 1] \in Seq(B) /\ seqs[i] \in Seq(B)
      BY <1>1, <2>5
    <3>2. flat[i] = flat[i - 1] \o seqs[i]
      BY <2>4
    <3>3. /\ Len(flat[i]) = Len(flat[i - 1]) + Len(seqs[i])
          /\ \A k \in 1..Len(flat[i - 1]) : flat[i][k] = flat[i - 1][k]
          /\ Len(seqs[i]) > 0 => flat[i][Len(flat[i - 1]) + 1] = seqs[i][1]
      <4> DEFINE a == flat[i - 1]
                 b == seqs[i]
      <4>1. a \in Seq(B) /\ b \in Seq(B) /\ flat[i] = a \o b
        BY <3>1, <3>2
      <4> HIDE DEF a, b
      <4>2. /\ Len(a \o b) = Len(a) + Len(b)
            /\ \A k \in 1..Len(a) : (a \o b)[k] = a[k]
            /\ Len(b) > 0 => (a \o b)[Len(a) + 1] = b[1]
        BY <4>1, Concatenation
      <4> QED
        BY <4>1, <4>2 DEF a, b
    <3>4. Len(flat[i - 1]) \in Nat /\ Len(seqs[i]) \in Nat
      BY <3>1
    <3>5. Len(flat[i - 1]) <= Len(flat[i])
      <4>1. \A x, y, z : x \in Nat /\ z \in Nat /\ y = x + z => x <= y
        OBVIOUS
      <4> QED
        BY <3>3, <3>4, <4>1, Zenon
    <3> QED
      BY <3>3, <3>5, Zenon
  <2>7. ASSUME NEW i \in 1..n, NEW j \in i..n
        PROVE  Prefix(i, j)
    <3> DEFINE T == {h \in i..n : ~Prefix(i, h)}
    <3> SUFFICES ASSUME T # {} PROVE FALSE
      OBVIOUS
    <3>1. T \in SUBSET Nat
      OBVIOUS
    <3>2. PICK k \in T : \A y \in T : k <= y
      BY <3>1, LeastNumber
    <3>3. Len(flat[i]) \in Nat
      BY <2>5
    <3>4. k # i
      BY <3>2, <3>3
    <3>5. k \in 2..n /\ k - 1 \in i..n /\ k - 1 \in 1..n
      BY <1>1, <3>2, <3>4
    <3>6. Prefix(i, k - 1)
      BY <3>2, <3>5
    <3>7. Prefix(k - 1, k)
      BY <2>6, <3>5
    <3>8. Len(flat[k - 1]) \in Nat /\ Len(flat[k]) \in Nat
      <4>1. k \in 1..n
        BY <3>5
      <4>2. flat[k - 1] \in Seq(B) /\ flat[k] \in Seq(B)
        BY <2>5, <3>5, <4>1
      <4> QED
        BY <4>2
    <3>9. Prefix(i, k)
      <4>1. Len(flat[i]) <= Len(flat[k - 1]) /\ Len(flat[k - 1]) <= Len(flat[k])
        BY <3>6, <3>7
      <4>2. ASSUME NEW h \in 1..Len(flat[i])
            PROVE  flat[k][h] = flat[i][h]
        <5>1. h \in 1..Len(flat[k - 1])
          BY <3>3, <3>8, <4>1
        <5> QED
          BY <3>6, <3>7, <5>1
      <4> QED
        BY <3>3, <3>8, <4>1, <4>2
    <3> QED
      BY <3>2, <3>9
  <2> DEFINE pos == [i \in 1..n + 1 |-> IF i = 1 THEN 1 ELSE Len(flat[i - 1]) + 1]
  <2>8. pos[1] = 1 /\ \A i \in 2..n + 1 : pos[i] = Len(flat[i - 1]) + 1
    BY <1>1, <1>3
  <2> HIDE DEF pos
  <2>9. ASSUME NEW i \in 1..n
        PROVE  /\ pos[i + 1] = pos[i] + Len(seqs[i])
               /\ Len(seqs[i]) > 0 => /\ pos[i] \in 1..Len(flat[n])
                                      /\ flat[n][pos[i]] = seqs[i][1]
    <3>1. Prefix(i, n)
      BY <1>1, <2>7
    <3>2. /\ Len(flat[i]) \in Nat /\ Len(flat[n]) \in Nat /\ Len(seqs[i]) \in Nat
      BY <1>1, <1>3, <2>5
    <3>3. pos[i + 1] = Len(flat[i]) + 1
      BY <1>1, <2>8
    <3>4. CASE i = 1
      <4>1. flat[i] = seqs[i] /\ pos[i] = 1
        BY <2>4, <2>8, <3>4
      <4> QED
        BY <3>1, <3>2, <3>3, <4>1
    <3>5. CASE i # 1
      <4>1. i \in 2..n /\ i - 1 \in 1..n
        BY <1>1, <3>5
      <4>2. pos[i] = Len(flat[i - 1]) + 1 /\ Len(flat[i - 1]) \in Nat
        BY <1>1, <2>5, <2>8, <4>1
      <4>3. /\ Len(flat[i]) = Len(flat[i - 1]) + Len(seqs[i])
            /\ Len(seqs[i]) > 0 => flat[i][Len(flat[i - 1]) + 1] = seqs[i][1]
        BY <2>6, <4>1
      <4>4. \A x, y, z, e : x \in Nat /\ z \in Nat /\ e \in Nat /\ y = x + z /\ y <= e
               => y + 1 = x + 1 + z /\ (z > 0 => x + 1 \in 1..y /\ x + 1 \in 1..e)
        OBVIOUS
      <4>5. Len(flat[i]) <= Len(flat[n])
        BY <3>1
      <4>6. /\ pos[i + 1] = pos[i] + Len(seqs[i])
            /\ Len(seqs[i]) > 0 => pos[i] \in 1..Len(flat[i]) /\ pos[i] \in 1..Len(flat[n])
        <5> DEFINE x == Len(flat[i - 1])
                   y == Len(flat[i])
                   z == Len(seqs[i])
                   e == Len(flat[n])
        <5>1. /\ x \in Nat /\ z \in Nat /\ e \in Nat /\ y = x + z /\ y <= e
              /\ pos[i + 1] = y + 1 /\ pos[i] = x + 1
          BY <3>2, <3>3, <4>2, <4>3, <4>5, Zenon
        <5> HIDE DEF x, y, z, e
        <5>2. y + 1 = x + 1 + z /\ (z > 0 => x + 1 \in 1..y /\ x + 1 \in 1..e)
          BY <4>4, <5>1, Zenon
        <5>3. pos[i + 1] = pos[i] + z /\ (z > 0 => pos[i] \in 1..y /\ pos[i] \in 1..e)
          BY <5>1, <5>2, Zenon
        <5> QED
          BY <5>3, Zenon DEF y, z, e
      <4> QED
        BY <3>1, <4>2, <4>3, <4>6, Zenon
    <3> QED
      BY <3>4, <3>5
  <2>10. pos[n + 1] = Len(flat[n]) + 1
    BY <1>1, <1>3, <2>8
  <2>11. Starts(seqs, pos)
    BY <2>1, <2>8, <2>9, <2>10 DEF Starts
  <2> QED
    BY <1>1, <1>3, <2>1, <2>5, <2>11
<1> QED
  BY <1>1, <1>2, <1>3

\* The blocks of one entry: its header, and its data if there are any.
Piece(h) == <<h>> \o [j \in 1..DataBlocks(h.size) |-> [kind |-> "data"]]

\* The next header is behind the piece.
LEMMA PieceLength ==
    ASSUME NEW size \in Nat
    PROVE  DataBlocks(size) \in Nat /\ NextHeader(size) = 1 + DataBlocks(size)
<1>1. size \div BlockSize \in Nat
  BY BlockAssumption
<1>2. (size % BlockSize = 0) \in BOOLEAN
  OBVIOUS
<1> QED
  BY <1>1, <1>2 DEF DataBlocks, NextHeader

\* Where the headers of an archive are, and its end.
Places(entries, pos) ==
    /\ pos[1] = 1
    /\ \A i \in 1..Len(entries) :
          /\ pos[i] \in DOMAIN Blocks(entries)
          /\ Blocks(entries)[pos[i]] = entries[i]
          /\ pos[i + 1] = pos[i] + NextHeader(entries[i].size)
    /\ pos[Len(entries) + 1] \in DOMAIN Blocks(entries)
    /\ Blocks(entries)[pos[Len(entries) + 1]] = [kind |-> "end"]

IsArchive(entries) == entries \in Seq(Header)

\* Every archive has its headers at such places.
LEMMA ArchivePlaces ==
    ASSUME NEW entries, IsArchive(entries)
    PROVE  \E pos : Places(entries, pos)
<1> DEFINE data == [kind |-> "data"]
           end == [kind |-> "end"]
           B == Header \cup {data, end}
           seqs == [i \in DOMAIN entries |-> Piece(entries[i])]
           n == Len(entries)
           flat == FlattenSeq(seqs)
<1>1. n \in Nat /\ DOMAIN entries = 1..n /\ \A i \in 1..n : entries[i] \in Header
  BY DEF IsArchive
<1>2. \A h \in Header : h.size \in Nat
  BY DEF Header
<1> HIDE DEF data
<1>3. ASSUME NEW h \in Header
      PROVE  /\ Piece(h) \in Seq(B) /\ Len(Piece(h)) = NextHeader(h.size)
             /\ Len(Piece(h)) > 0 /\ Piece(h)[1] = h
  <2> DEFINE k == DataBlocks(h.size)
             tail == [j \in 1..k |-> data]
  <2>1. k \in Nat /\ NextHeader(h.size) = 1 + k
    BY <1>2, PieceLength
  <2> HIDE DEF k
  <2>2. tail \in Seq(B) /\ Len(tail) = k
    BY <2>1
  <2>3. Piece(h) = <<h>> \o tail
    BY DEF Piece, data, k
  <2> HIDE DEF tail
  <2>4. <<h>> \in Seq(B) /\ Len(<<h>>) = 1 /\ <<h>>[1] = h
    OBVIOUS
  <2> HIDE DEF B
  <2> QED
    BY <2>1, <2>2, <2>3, <2>4
<1>4. Blocks(entries) = Append(flat, end)
  BY DEF Blocks, Piece
<1>5. Pieces(seqs, B) /\ Len(seqs) = n /\ \A i \in 1..n : seqs[i] = Piece(entries[i])
  <2> HIDE DEF B
  <2>1. seqs \in [1..n -> Seq(B)]
    BY <1>1, <1>3
  <2> QED
    BY <1>1, <2>1 DEF Pieces
<1>6. end \in B
  OBVIOUS
<1> HIDE DEF B, seqs, end
<1>7. flat \in Seq(B) /\ \E pos : Starts(seqs, pos)
  BY <1>5, FlattenStarts, Zenon
<1>8. PICK pos : Starts(seqs, pos)
  BY <1>7
<1>9. /\ pos[1] = 1 /\ pos[n + 1] = Len(flat) + 1
      /\ \A i \in 1..n : /\ pos[i + 1] = pos[i] + Len(seqs[i])
                         /\ Len(seqs[i]) > 0 => /\ pos[i] \in 1..Len(flat)
                                                /\ flat[pos[i]] = seqs[i][1]
  BY <1>5, <1>8 DEF Starts
<1> HIDE DEF flat
<1>10. \A i \in 1..n : /\ pos[i + 1] = pos[i] + NextHeader(entries[i].size)
                       /\ pos[i] \in 1..Len(flat) /\ flat[pos[i]] = entries[i]
  BY <1>1, <1>3, <1>5, <1>9, Zenon
<1>11. /\ DOMAIN Append(flat, end) = 1..Len(flat) + 1 /\ Len(flat) \in Nat
       /\ \A k \in 1..Len(flat) : Append(flat, end)[k] = flat[k]
       /\ Append(flat, end)[Len(flat) + 1] = end
  BY <1>6, <1>7
<1>12. /\ \A k \in 1..Len(flat) : k \in 1..Len(flat) + 1
       /\ Len(flat) + 1 \in 1..Len(flat) + 1
  BY <1>11
<1>13. Places(entries, pos)
  BY <1>4, <1>9, <1>10, <1>11, <1>12, Zenon DEF Places, end
<1> QED
  BY <1>13

\* The path of a header is one that can be looked up; that of a directory is not
\* the root's.
LEMMA EntryPaths ==
    ASSUME NEW entries \in Archives, NEW i \in 1..Len(entries)
    PROVE  /\ IsPath(EntryPath(entries[i]))
           /\ entries[i].kind = "dir" => BelowRoot(EntryPath(entries[i]))
<1> DEFINE h == entries[i]
           p == h.path
<1>1. /\ h \in Header /\ p # <<>> /\ p[1] # "" /\ (h.kind = "dir" => p[Len(p)] = "")
  <2>1. entries \in Seq(Header)
    BY ArchiveAssumption
  <2>2. h \in Header /\ i \in DOMAIN entries
    BY <2>1
  <2> HIDE DEF h
  <2>3. entries[i].path # <<>> /\ entries[i].path[1] # ""
        /\ (entries[i].kind = "dir" => Last(entries[i].path) = "")
    BY <2>2, ArchiveAssumption, Zenon
  <2> QED
    BY <2>2, <2>3 DEF Last, h
<1>2. p \in Seq(STRING)
  BY <1>1 DEF Header
<1> HIDE DEF h, p
<1>3. p \in Seq(Text) /\ Len(p) \in Nat /\ Len(p) > 0
  <2>1. STRING \subseteq Text
    BY DEF Text
  <2>2. ASSUME NEW S, NEW s \in Seq(S), NEW R, S \subseteq R PROVE s \in Seq(R)
    BY <2>2
  <2>3. p \in Seq(Text)
    BY <1>2, <2>1, <2>2, Zenon
  <2>4. ASSUME NEW S, NEW s \in Seq(S), s # <<>> PROVE Len(s) \in Nat /\ Len(s) > 0
    BY <2>4
  <2> QED
    BY <1>1, <2>3, <2>4, Zenon
<1>4. "" \in Text
  BY DEF Text
<1>5. ASSUME NEW q \in Seq(Text)
      PROVE  /\ <<"">> \o q \in Seq(Text) /\ <<"">> \o q # <<>>
             /\ q # <<>> => (<<"">> \o q)[2] = q[1]
  <2>1. ASSUME NEW S, NEW s \in S, NEW x \in Seq(S)
        PROVE  <<s>> \o x \in Seq(S) /\ <<s>> \o x # <<>> /\ (x # <<>> => (<<s>> \o x)[2] = x[1])
    BY <2>1
  <2> QED
    BY <1>4, <2>1, Zenon
<1>6. CASE h.kind = "dir"
  <2> DEFINE q == SubSeq(p, 1, Len(p) - 1)
  <2>1. EntryPath(h) = <<"">> \o q
    BY <1>6 DEF EntryPath, Front, p
  <2>2. Len(p) >= 2
    <3>1. p[1] # p[Len(p)] /\ Len(p) \in Nat /\ Len(p) > 0
      BY <1>1, <1>3, <1>6, Zenon
    <3> QED
      BY <3>1
  <2>3. q \in Seq(Text) /\ q # <<>> /\ q[1] = p[1]
    <3>1. ASSUME NEW S, NEW s \in Seq(S), Len(s) >= 2
          PROVE  /\ SubSeq(s, 1, Len(s) - 1) \in Seq(S) /\ SubSeq(s, 1, Len(s) - 1) # <<>>
                 /\ SubSeq(s, 1, Len(s) - 1)[1] = s[1]
      BY <3>1
    <3> QED
      BY <1>3, <2>2, <3>1, Zenon
  <2> HIDE DEF q
  <2>4. /\ EntryPath(h) \in Seq(Text) /\ EntryPath(h) # <<>>
        /\ EntryPath(h)[2] = p[1]
    BY <1>5, <2>1, <2>3
  <2>5. EntryPath(h) # <<"", "">>
    <3>1. <<"", "">>[2] = ""
      OBVIOUS
    <3> QED
      BY <1>1, <2>4, <3>1
  <2> QED
    BY <2>4, <2>5 DEF IsPath, BelowRoot, h
<1>7. CASE h.kind # "dir"
  <2>1. EntryPath(h) = <<"">> \o p
    BY <1>7 DEF EntryPath, p
  <2> QED
    BY <1>3, <1>5, <1>7, <2>1 DEF IsPath, h
<1> QED
  BY <1>6, <1>7

\* The paths that devfs_init uses.
LEMMA DevicePaths == BelowRoot(<<"", "dev">>) /\ IsPath(<<"", "dev", "tty">>)
<1>1. {"", "dev", "tty"} \subseteq Text
  BY DEF Text
<1>2. ASSUME NEW S, NEW a \in S, NEW b \in S, NEW c \in S
      PROVE  /\ <<a, b>> \in Seq(S) /\ <<a, b, c>> \in Seq(S)
             /\ <<a, b>> # <<>> /\ <<a, b, c>> # <<>> /\ <<a, b>>[2] = b
  BY <1>2
<1>3. <<"", "dev">> \in Seq(Text) /\ <<"", "dev", "tty">> \in Seq(Text)
      /\ <<"", "dev">> # <<>> /\ <<"", "dev", "tty">> # <<>>
  BY <1>1, <1>2
<1>4. <<"", "dev">> # <<"", "">>
  OBVIOUS
<1> QED
  BY <1>3, <1>4 DEF BelowRoot, IsPath

-----------------------------------------------------------------------------
(* The file systems come up.                                               *)

\* While create_tmpfs_files runs it is at a header or at the end, and the tree
\* has all its links after every step.
BootInv ==
    /\ archive \in Archives
    /\ phase \in {"mount", "archive", "devfs", "up"}
    /\ errno \in {"none", "ENOENT", "EISDIR"}
    /\ halted \in {"no", "fault", "junk", "freed", "overrun", "splice"}
    /\ IsTree(tree) /\ WellLinked(tree)
    /\ phase = "mount" => tree = <<>>
    /\ phase # "mount" => Len(tree) > 0
    /\ \E pos : Places(archive, pos) /\ \E i \in 1..Len(archive) + 1 : address = pos[i]

\* Before the root is mounted.
LEMMA EmptyTree == IsTree(<<>>) /\ WellLinked(<<>>)
<1>1. <<>> \in Seq(Nodes(Len(<<>>))) /\ DOMAIN <<>> = {}
  OBVIOUS
<1> QED
  BY <1>1 DEF IsTree, WellLinked

\* The invariant of the boot holds at the start.
LEMMA BootStarts == BootInit => BootInv
<1> SUFFICES ASSUME BootInit PROVE BootInv
  OBVIOUS
<1> USE DEF BootInit
<1>1. IsArchive(archive)
  BY ArchiveAssumption DEF IsArchive
<1>2. PICK pos : Places(archive, pos)
  BY <1>1, ArchivePlaces
<1>3. 1 \in 1..Len(archive) + 1
  BY <1>1 DEF IsArchive
<1>4. address = pos[1]
  BY <1>2 DEF Places
<1> QED
  BY <1>2, <1>3, <1>4, EmptyTree DEF BootInv

\* What create_tmpfs_files finds at address.
LEMMA HeaderFound ==
    ASSUME BootInv
    PROVE  /\ address \in DOMAIN Blocks(archive)
           /\ \/ Blocks(archive)[address].kind = "end"
              \/ \E i \in 1..Len(archive) :
                    /\ Blocks(archive)[address] = archive[i]
                    /\ archive[i] \in Header
                    /\ \E pos : /\ Places(archive, pos)
                                /\ pos[i + 1] = address + NextHeader(archive[i].size)
<1>1. PICK pos : Places(archive, pos) /\ \E i \in 1..Len(archive) + 1 : address = pos[i]
  BY DEF BootInv
<1>2. PICK i \in 1..Len(archive) + 1 : address = pos[i]
  BY <1>1
<1>3. Len(archive) \in Nat /\ \A j \in 1..Len(archive) : archive[j] \in Header
  <2>1. archive \in Seq(Header)
    BY ArchiveAssumption DEF BootInv
  <2> QED
    BY <2>1
<1>4. CASE i \in 1..Len(archive)
  BY <1>1, <1>2, <1>3, <1>4, Zenon DEF Places
<1>5. CASE i = Len(archive) + 1
  <2>1. address \in DOMAIN Blocks(archive) /\ Blocks(archive)[address] = [kind |-> "end"]
    BY <1>1, <1>2, <1>5, Zenon DEF Places
  <2> QED
    BY <2>1
<1> QED
  BY <1>3, <1>4, <1>5

\* A name that runs on is a path like any other.
LEMMA PathsCopied ==
    ASSUME NEW h, IsPath(EntryPath(h)), h.kind = "dir" => BelowRoot(EntryPath(h)),
           NEW path \in CopiedPaths(h)
    PROVE  IsPath(path) /\ (h.kind = "dir" => BelowRoot(path))
<1> DEFINE e == EntryPath(h)
<1>1. path \in {e, Append(Front(e), "?"), Append(e, "?")}
  BY DEF CopiedPaths, Longer
<1>2. e \in Seq(Text) /\ e # <<>> /\ "?" \in Text
  BY DEF IsPath, Text
<1> HIDE DEF e
<1>3. ASSUME NEW S, NEW s \in Seq(S), NEW x \in S, s # <<>>
      PROVE  /\ Append(Front(s), x) \in Seq(S) /\ Append(Front(s), x) # <<>>
             /\ Append(s, x) \in Seq(S) /\ Append(s, x) # <<>>
             /\ x # "" => Append(Front(s), x) # <<"", "">> /\ Append(s, x) # <<"", "">>
  <2>1. Len(s) \in Nat \ {0} /\ Front(s) = SubSeq(s, 1, Len(s) - 1)
    BY <1>3 DEF Front
  <2>2. Front(s) \in Seq(S)
    BY <1>3, <2>1
  <2>3. \A q \in Seq(S) : /\ Append(q, x) \in Seq(S) /\ Append(q, x) # <<>>
                          /\ Append(q, x)[Len(q) + 1] = x
                          /\ Len(Append(q, x)) = Len(q) + 1
    BY <1>3
  <2>4. ASSUME NEW q \in Seq(S), x # "" PROVE Append(q, x) # <<"", "">>
    <3>1. Len(<<"", "">>) = 2 /\ <<"", "">>[2] = "" /\ Len(q) \in Nat
      OBVIOUS
    <3>2. Append(q, x) = <<"", "">> => Len(q) + 1 = 2
      BY <2>3, <3>1
    <3> QED
      BY <2>3, <2>4, <3>1, <3>2
  <2> QED
    BY <1>3, <2>2, <2>3, <2>4
<1>4. "?" # ""
  OBVIOUS
<1>5. CASE path = e
  BY <1>5 DEF e
<1>6. CASE path # e
  BY <1>1, <1>2, <1>3, <1>4, <1>6, Zenon DEF IsPath, BelowRoot
<1> QED
  BY <1>5, <1>6

\* What an operation on the tree leaves behind.
LEMMA OutcomeKept ==
    ASSUME NEW r, BootInv, Yields(tree, r), Outcome(r)
    PROVE  /\ Extends(tree, tree') /\ IsTree(tree') /\ WellLinked(tree')
           /\ Len(tree) <= Len(tree')
           /\ errno' \in {"none", "ENOENT", "EISDIR"}
           /\ halted' \in {"no", "fault", "junk", "freed", "overrun", "splice"}
<1>1. tree' = r.tree /\ halted' = StopOf(r.file)
      /\ errno' = IF r.error = "none" THEN errno ELSE r.error
  BY DEF Outcome
<1>2. Extends(tree, tree')
  BY <1>1 DEF Yields
<1>3. IsTree(tree') /\ WellLinked(tree') /\ Len(tree) <= Len(tree')
  BY <1>2 DEF Extends, LinksGrow, BootInv
<1>4. errno' \in {"none", "ENOENT", "EISDIR"}
  BY <1>1 DEF Yields, BootInv
<1>5. halted' \in {"no", "fault", "junk", "freed", "overrun", "splice"}
  BY <1>1 DEF StopOf
<1> QED
  BY <1>2, <1>3, <1>4, <1>5

\* Every step of the boot keeps its invariant and extends the tree.
LEMMA BootSteps ==
    ASSUME BootInv, BootNext
    PROVE  BootInv' /\ Extends(tree, tree')
<1>0. \A dirty \in Malloced : dirty \in BOOLEAN
  BY DEF Malloced
<1>1. ASSUME MountRoot
      PROVE  BootInv' /\ Extends(tree, tree')
  <2>1. PICK dirty \in Malloced : Outcome(vfs_mount(tree, <<"", "">>, "tmpfs", dirty))
    BY <1>1 DEF MountRoot
  <2>2. tree = <<>> /\ phase' = "archive" /\ archive' = archive /\ address' = address
    BY <1>1 DEF MountRoot, BootInv
  <2> DEFINE parent == vfs_get_parent(<<>>, Root, <<"", "">>)
             m == MkdirIn(<<>>, parent, <<"", "">>, dirty)
             r == MountOn(m, "tmpfs")
  <2>3. Outcome(r)
    BY <2>1, <2>2 DEF vfs_mount, vfs_mkdir
  <2> HIDE DEF parent
  <2>4. Yields(<<>>, m) /\ m.file = 1 /\ Len(m.tree) = 1
    BY <1>0, RootYields
  <2> HIDE DEF m
  <2>5. m.file \in 1..Len(m.tree) \ 1..Len(<<>>)
    <3>1. Len(<<>>) = 0 /\ 1 \in 1..1 \ 1..0
      OBVIOUS
    <3> QED
      BY <2>4, <3>1
  <2>6. Yields(<<>>, r) /\ Len(r.tree) = 1
    <3>1. "tmpfs" \in FsNames
      BY DEF FsNames
    <3> QED
      BY <2>4, <2>5, <3>1, EmptyTree, MountOnYields, Zenon
  <2> HIDE DEF r
  <2>7. /\ Extends(tree, tree') /\ IsTree(tree') /\ WellLinked(tree')
        /\ errno' \in {"none", "ENOENT", "EISDIR"}
        /\ halted' \in {"no", "fault", "junk", "freed", "overrun", "splice"}
    BY <2>2, <2>3, <2>6, OutcomeKept
  <2>8. tree' = r.tree
    BY <2>3 DEF Outcome
  <2>9. Len(tree') > 0
    BY <2>6, <2>8
  <2> QED
    BY <2>2, <2>7, <2>9 DEF BootInv
<1>2. ASSUME ReadHeader
      PROVE  BootInv' /\ Extends(tree, tree')
  <2> DEFINE h == Blocks(archive)[address]
  <2>1. phase = "archive" /\ Len(tree) > 0 /\ IsTree(tree) /\ archive \in Archives
    BY <1>2 DEF ReadHeader, BootInv
  <2>2. CASE h.kind = "end"
    <3>1. /\ phase' = "devfs" /\ archive' = archive /\ address' = address /\ tree' = tree
          /\ errno' = errno /\ halted' = halted
      BY <1>2, <2>2 DEF ReadHeader
    <3>2. Extends(tree, tree')
      BY <2>1, <3>1, ExtendsSame
    <3> QED
      BY <2>1, <3>1, <3>2 DEF BootInv
  <2>3. ASSUME NEW i \in 1..Len(archive), h = archive[i], archive[i] \in Header,
               \E pos : Places(archive, pos)
                        /\ pos[i + 1] = address + NextHeader(archive[i].size)
        PROVE  BootInv' /\ Extends(tree, tree')
    <3>1. h.kind \in {"dir", "file"} /\ h.size \in Nat
      BY <2>3 DEF Header
    <3> DEFINE Op(dirty, path) == IF h.kind = "dir" THEN vfs_mkdir(tree, path, dirty)
                                  ELSE tmpfs_create_file(tree, path, h.size, dirty)
    <3>2. /\ \E dirty \in Malloced, path \in CopiedPaths(h) : Outcome(Op(dirty, path))
          /\ address' = address + NextHeader(h.size)
          /\ archive' = archive /\ phase' = phase
      BY <1>2, <3>1, Zenon DEF ReadHeader
    <3>3. PICK dirty \in Malloced, path \in CopiedPaths(h) : Outcome(Op(dirty, path))
      BY <3>2
    <3>4. IsPath(path) /\ (h.kind = "dir" => BelowRoot(path))
      BY <2>1, <2>3, <3>3, EntryPaths, PathsCopied
    <3>5. Yields(tree, Op(dirty, path))
      <4>1. CASE h.kind = "dir"
        <5>1. Yields(tree, vfs_mkdir(tree, path, dirty))
          BY <1>0, <2>1, <3>4, <4>1, MkdirYields, Zenon
        <5> QED
          BY <4>1, <5>1, Zenon
      <4>2. CASE h.kind # "dir"
        <5>1. Yields(tree, tmpfs_create_file(tree, path, h.size, dirty))
          BY <1>0, <2>1, <3>1, <3>4, CreateYields, Zenon
        <5> QED
          BY <4>2, <5>1, Zenon
      <4> QED
        BY <4>1, <4>2
    <3> HIDE DEF Op
    <3>6. /\ Extends(tree, tree') /\ IsTree(tree') /\ WellLinked(tree')
          /\ Len(tree) <= Len(tree')
          /\ errno' \in {"none", "ENOENT", "EISDIR"}
          /\ halted' \in {"no", "fault", "junk", "freed", "overrun", "splice"}
      BY <3>3, <3>5, OutcomeKept
    <3>7. Len(tree') > 0
      BY <2>1, <3>6, TreeNodes
    <3>8. i + 1 \in 1..Len(archive) + 1 /\ address' = address + NextHeader(archive[i].size)
      <4>1. Len(archive) \in Nat
        <5>1. archive \in Seq(Header)
          BY <2>1, ArchiveAssumption
        <5> QED
          BY <5>1
      <4> QED
        BY <2>3, <3>2, <4>1
    <3>9. \E pos : Places(archive', pos) /\ \E k \in 1..Len(archive') + 1 : address' = pos[k]
      BY <2>3, <3>2, <3>8
    <3> QED
      BY <2>1, <3>2, <3>6, <3>7, <3>9 DEF BootInv
  <2> QED
    BY <2>2, <2>3, HeaderFound
<1>4. ASSUME devfs_init
      PROVE  BootInv' /\ Extends(tree, tree')
  <2>1. PICK d \in Malloced, e \in Malloced :
           \E m \in {vfs_mount(tree, <<"", "dev">>, "devfs", d)} :
              Outcome(IF m.file \in Stops THEN m
                      ELSE vfs_open(m.tree, Root, <<"", "dev", "tty">>, {"O_CREAT"}, e))
    BY <1>4 DEF devfs_init
  <2>2. /\ phase = "devfs" /\ phase' = "up" /\ archive' = archive /\ address' = address
        /\ Len(tree) > 0 /\ IsTree(tree)
    BY <1>4 DEF devfs_init, BootInv
  <2> DEFINE made == vfs_mkdir(tree, <<"", "dev">>, d)
             m == MountOn(made, "devfs")
             r == IF m.file \in Stops THEN m
                  ELSE vfs_open(m.tree, Root, <<"", "dev", "tty">>, {"O_CREAT"}, e)
  <2>3. Outcome(r)
    BY <2>1 DEF vfs_mount
  <2>4. /\ Yields(tree, made)
        /\ made.file \in {NULL, Fault, Wild} \/ made.file \in 1..Len(made.tree) \ 1..Len(tree)
    BY <1>0, <2>2, DevicePaths, MkdirYields, Zenon
  <2> HIDE DEF made
  <2>5. Yields(tree, m)
    <3>1. "devfs" \in FsNames
      BY DEF FsNames
    <3> QED
      BY <2>2, <2>4, <3>1, MountOnYields, Zenon
  <2> HIDE DEF m
  <2>6. Extends(tree, m.tree) /\ IsTree(m.tree) /\ Len(m.tree) > 0
    <3>1. Extends(tree, m.tree) /\ IsTree(m.tree) /\ Len(tree) <= Len(m.tree)
      BY <2>5 DEF Yields, Extends, LinksGrow
    <3> QED
      BY <2>2, <3>1, TreeNodes
  <2>7. Yields(m.tree, vfs_open(m.tree, Root, <<"", "dev", "tty">>, {"O_CREAT"}, e))
    BY <1>0, <2>6, DevicePaths, OpenYields, Zenon
  <2>8. ASSUME NEW o, Yields(m.tree, o) PROVE Yields(tree, o)
    <3>1. Extends(tree, o.tree)
      BY <2>2, <2>6, <2>8, ExtendsOn DEF Yields
    <3> QED
      BY <2>8, <3>1 DEF Yields
  <2>9. Yields(tree, r)
    BY <2>5, <2>7, <2>8, Zenon
  <2> HIDE DEF r
  <2>10. /\ Extends(tree, tree') /\ IsTree(tree') /\ WellLinked(tree')
         /\ Len(tree) <= Len(tree')
         /\ errno' \in {"none", "ENOENT", "EISDIR"}
         /\ halted' \in {"no", "fault", "junk", "freed", "overrun", "splice"}
    BY <2>3, <2>9, OutcomeKept
  <2>11. Len(tree') > 0
    BY <2>2, <2>10, TreeNodes
  <2> QED
    BY <2>2, <2>10, <2>11 DEF BootInv
<1> QED
  BY <1>1, <1>2, <1>4 DEF BootNext

\* create_tmpfs_files is never inside a file's data.
LEMMA BootAtHeader == BootInv => AtHeader
<1> SUFFICES ASSUME BootInv PROVE AtHeader
  OBVIOUS
<1>1. address \in DOMAIN Blocks(archive)
  BY HeaderFound
<1>2. \A h \in Header : h.kind # "data"
  BY DEF Header
<1>3. Blocks(archive)[address].kind # "data"
  BY <1>2, HeaderFound
<1> QED
  BY <1>1, <1>3 DEF AtHeader
=============================================================================
