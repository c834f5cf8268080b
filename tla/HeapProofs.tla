----------------------------- MODULE HeapProofs -----------------------------
(* Proofs about the kernel heap, for every size of a page and of a tag, every *)
(* set of request sizes and every number of pages.                            *)
EXTENDS Heap, FiniteSetTheorems, WellFoundedInduction, TLAPS

-----------------------------------------------------------------------------
(* Tags and heaps.                                                         *)

TagFields ==
    {"size", "real_size", "index", "split_left", "split_right", "next", "prev"}

\* The types of the fields of a tag one by one.
IsTag(r) ==
    /\ r = [x \in TagFields |-> r[x]]
    /\ r.size \in Nat /\ r.real_size \in Nat
    /\ r.index \in Exponents \cup {-1}
    /\ r.split_left \in Nat /\ r.split_right \in Nat
    /\ r.next \in Nat /\ r.prev \in Nat

\* Both say the same.
LEMMA TagTypes ==
    ASSUME NEW r
    PROVE  r \in Tag <=> IsTag(r)
<1>1. ASSUME IsTag(r) PROVE r \in Tag
  BY <1>1 DEF IsTag, Tag, TagFields
<1>2. ASSUME r \in Tag PROVE IsTag(r)
  BY <1>2 DEF IsTag, Tag, TagFields
<1> QED
  BY <1>1, <1>2

HeapFields == {"tags", "freePages", "completePages"}

IsHeap(h) ==
    /\ h = [x \in HeapFields |-> h[x]]
    /\ h.tags = [t \in DOMAIN h.tags |-> h.tags[t]]
    /\ \A t \in DOMAIN h.tags : IsTag(h.tags[t])
    /\ IsFiniteSet(DOMAIN h.tags)
    /\ DOMAIN h.tags \subseteq Nat \ {0}
    /\ h.freePages \in [Exponents -> Nat]
    /\ h.completePages \in [Exponents -> Nat]

\* Heaps that agree in every field are the same.
LEMMA SameHeap ==
    ASSUME NEW g, NEW h, IsHeap(g), IsHeap(h), DOMAIN g.tags = DOMAIN h.tags,
           g.freePages = h.freePages, g.completePages = h.completePages,
           \A u \in DOMAIN h.tags : \A x \in TagFields : g.tags[u][x] = h.tags[u][x]
    PROVE  g = h
<1>1. ASSUME NEW u \in DOMAIN h.tags PROVE g.tags[u] = h.tags[u]
  <2> DEFINE a == g.tags[u]
             b == h.tags[u]
  <2>1. a = [x \in TagFields |-> a[x]] /\ b = [x \in TagFields |-> b[x]]
    BY DEF IsHeap, IsTag
  <2>2. \A x \in TagFields : a[x] = b[x]
    OBVIOUS
  <2> HIDE DEF a, b
  <2>3. [x \in TagFields |-> a[x]] = [x \in TagFields |-> b[x]]
    BY <2>2
  <2>4. a = b
    BY <2>1, <2>3, Zenon
  <2> QED
    BY <2>4 DEF a, b
<1>2. g.tags = h.tags
  BY <1>1 DEF IsHeap
<1> QED
  BY <1>2 DEF IsHeap, HeapFields

\* The tag r with next and prev replaced.
Linked(r, n, p) == [r EXCEPT !.next = n, !.prev = p]

\* Its fields.
LEMMA LinkedTag ==
    ASSUME NEW r, IsTag(r), NEW n \in Nat, NEW p \in Nat
    PROVE  /\ IsTag(Linked(r, n, p))
           /\ Linked(r, n, p).next = n
           /\ Linked(r, n, p).prev = p
           /\ \A x \in TagFields \ {"next", "prev"} : Linked(r, n, p)[x] = r[x]
  BY DEF IsTag, TagFields, Linked

-----------------------------------------------------------------------------
(* What the functions of alloc.c do to the fields of the tags.             *)

\* The fields that say where a piece lies.
Places == {"size", "real_size", "split_left", "split_right"}

\* The heap g is h without t in the lists.
Removed(g, h, t) ==
    /\ DOMAIN g.tags = DOMAIN h.tags
    /\ g.completePages = h.completePages
    /\ \A e \in Exponents :
          g.freePages[e] = IF e = h.tags[t].index /\ h.freePages[e] = t
                           THEN h.tags[t].next ELSE h.freePages[e]
    /\ \A u \in DOMAIN h.tags :
          /\ \A x \in Places : g.tags[u][x] = h.tags[u][x]
          /\ g.tags[u].next = IF u = t THEN NULL
                              ELSE IF u = h.tags[t].prev THEN h.tags[t].next
                              ELSE h.tags[u].next
          /\ g.tags[u].prev = IF u = t THEN NULL
                              ELSE IF u = h.tags[t].next THEN h.tags[t].prev
                              ELSE h.tags[u].prev
          /\ g.tags[u].index = IF u = t THEN -1 ELSE h.tags[u].index

\* remove_tag.
LEMMA RemoveFields ==
    ASSUME NEW h, IsHeap(h), NEW t \in DOMAIN h.tags
    PROVE  IsHeap(remove_tag(h, t)) /\ Removed(remove_tag(h, t), h, t)
<1> DEFINE r == h.tags[t]
           n == [u \in DOMAIN h.tags |-> IF u = r.prev THEN r.next ELSE h.tags[u].next]
           p == [u \in DOMAIN h.tags |-> IF u = r.next THEN r.prev ELSE h.tags[u].prev]
           linked == [u \in DOMAIN h.tags |-> Linked(h.tags[u], n[u], p[u])]
           unlinked == [u \in DOMAIN h.tags |->
                          [h.tags[u] EXCEPT !.next = IF u = r.prev THEN r.next ELSE @,
                                            !.prev = IF u = r.next THEN r.prev ELSE @]]
           after == [unlinked EXCEPT ![t].next = NULL, ![t].prev = NULL, ![t].index = -1]
           front == [h.freePages EXCEPT ![r.index] = IF @ = t THEN r.next ELSE @]
           g == remove_tag(h, t)
<1>1. IsTag(r) /\ \A u \in DOMAIN h.tags : IsTag(h.tags[u])
  BY DEF IsHeap
<1>2. \A u \in DOMAIN h.tags : n[u] \in Nat /\ p[u] \in Nat
  BY <1>1 DEF IsTag
<1>3. unlinked = linked
  BY DEF Linked
<1>4. \A u \in DOMAIN h.tags :
         /\ IsTag(linked[u]) /\ linked[u].next = n[u] /\ linked[u].prev = p[u]
         /\ \A x \in TagFields \ {"next", "prev"} : linked[u][x] = h.tags[u][x]
  <2> HIDE DEF n, p
  <2> SUFFICES ASSUME NEW u \in DOMAIN h.tags
               PROVE  /\ IsTag(linked[u])
                      /\ linked[u].next = n[u] /\ linked[u].prev = p[u]
                      /\ \A x \in TagFields \ {"next", "prev"} :
                            linked[u][x] = h.tags[u][x]
    BY Zenon
  <2>1. IsTag(h.tags[u]) /\ n[u] \in Nat /\ p[u] \in Nat
    BY <1>1, <1>2, Zenon
  <2>2. linked[u] = Linked(h.tags[u], n[u], p[u])
    OBVIOUS
  <2> DEFINE a == h.tags[u]
             b == n[u]
             c == p[u]
  <2>3. IsTag(a) /\ b \in Nat /\ c \in Nat /\ linked[u] = Linked(a, b, c)
    BY <2>1, <2>2, Zenon
  <2> HIDE DEF linked, a, b, c
  <2>4. /\ IsTag(linked[u])
        /\ linked[u].next = b /\ linked[u].prev = c
        /\ \A x \in TagFields \ {"next", "prev"} : linked[u][x] = a[x]
    BY <2>3, LinkedTag
  <2> QED
    BY <2>4 DEF a, b, c
<1> DEFINE last == [linked[t] EXCEPT !.next = NULL, !.prev = NULL, !.index = -1]
<1>5. /\ IsTag(last) /\ last.next = NULL /\ last.prev = NULL /\ last.index = -1
      /\ \A x \in Places : last[x] = r[x]
  <2> DEFINE l == linked[t]
  <2>1. IsTag(l) /\ \A x \in Places : l[x] = r[x]
    <3>1. \A x \in Places : x \in TagFields \ {"next", "prev"}
      BY DEF TagFields, Places
    <3> QED
      BY <1>4, <3>1, Zenon
  <2> HIDE DEF l
  <2> QED
    BY <2>1, ZenonT(60) DEF IsTag, TagFields, Places, NULL, Exponents, l
<1>6. after = [u \in DOMAIN h.tags |-> IF u = t THEN last ELSE linked[u]]
  BY <1>3
<1>7. g = [h EXCEPT !.tags = after, !.freePages = front]
  BY DEF remove_tag
<1> HIDE DEF after, front, g
<1>8. /\ g = [x \in HeapFields |-> g[x]] /\ g.tags = after /\ g.freePages = front
      /\ g.completePages = h.completePages
  BY <1>7 DEF IsHeap, HeapFields
<1>9. /\ front \in [Exponents -> Nat]
      /\ \A e \in Exponents : front[e] = IF e = r.index /\ h.freePages[e] = t
                                         THEN r.next ELSE h.freePages[e]
  <2>1. h.freePages \in [Exponents -> Nat] /\ r.next \in Nat
    BY <1>1 DEF IsHeap, IsTag
  <2> QED
    BY <2>1 DEF front
<1> HIDE DEF linked, last, r
<1>10. IsHeap(g)
  <2>1. \A u \in DOMAIN h.tags : IsTag(after[u])
    BY <1>4, <1>5, <1>6
  <2>2. DOMAIN after = DOMAIN h.tags /\ after = [u \in DOMAIN after |-> after[u]]
    BY <1>6
  <2> QED
    BY <1>8, <1>9, <2>1, <2>2 DEF IsHeap
<1>11. Removed(g, h, t)
  <2>1. DOMAIN g.tags = DOMAIN h.tags
    BY <1>6, <1>8
  <2>2. ASSUME NEW u \in DOMAIN h.tags
        PROVE  /\ \A x \in Places : g.tags[u][x] = h.tags[u][x]
               /\ g.tags[u].next = IF u = t THEN NULL ELSE n[u]
               /\ g.tags[u].prev = IF u = t THEN NULL ELSE p[u]
               /\ g.tags[u].index = IF u = t THEN -1 ELSE h.tags[u].index
    <3>1. CASE u = t
      BY <1>5, <1>6, <1>8, <3>1 DEF r
    <3>2. CASE u # t
      <4>1. g.tags[u] = linked[u]
        BY <1>6, <1>8, <3>2
      <4>2. \A x \in Places \cup {"index"} : x \in TagFields \ {"next", "prev"}
        BY DEF Places, TagFields
      <4> HIDE DEF n, p
      <4> QED
        BY <1>4, <3>2, <4>1, <4>2
    <3> QED
      BY <3>1, <3>2
  <2> QED
    BY <1>8, <1>9, <2>1, <2>2 DEF Removed, r
<1> QED
  BY <1>10, <1>11 DEF g

\* The heap g is h with t in front of the list i.
Inserted(g, h, t, i) ==
    /\ DOMAIN g.tags = DOMAIN h.tags
    /\ g.completePages = h.completePages
    /\ \A e \in Exponents : g.freePages[e] = IF e = i THEN t ELSE h.freePages[e]
    /\ \A u \in DOMAIN h.tags :
          /\ \A x \in Places \ {"size"} : g.tags[u][x] = h.tags[u][x]
          /\ g.tags[u].next = IF u = t /\ h.freePages[i] # NULL THEN h.freePages[i]
                              ELSE h.tags[u].next
          /\ g.tags[u].prev = IF u = h.freePages[i] THEN t ELSE h.tags[u].prev
          /\ g.tags[u].index = IF u = t THEN i ELSE h.tags[u].index

\* The tag r at the front of the list i.
Fronted(r, i, n) == [r EXCEPT !.index = i, !.size = 0, !.next = n]

\* Its fields.
LEMMA FrontedTag ==
    ASSUME NEW r, IsTag(r), NEW i \in Exponents, NEW n \in Nat
    PROVE  /\ IsTag(Fronted(r, i, n))
           /\ Fronted(r, i, n).index = i /\ Fronted(r, i, n).next = n
           /\ Fronted(r, i, n).prev = r.prev
           /\ \A x \in Places \ {"size"} : Fronted(r, i, n)[x] = r[x]
  BY DEF IsTag, TagFields, Fronted, Places

\* insert_tag.
LEMMA InsertFields ==
    ASSUME NEW h, IsHeap(h), NEW t \in DOMAIN h.tags, NEW i \in Exponents
    PROVE  IsHeap(insert_tag(h, t, i)) /\ Inserted(insert_tag(h, t, i), h, t, i)
<1> DEFINE head == h.freePages[i]
           p == [u \in DOMAIN h.tags |-> IF u = head THEN t ELSE h.tags[u].prev]
           linked == [u \in DOMAIN h.tags |-> Linked(h.tags[u], h.tags[u].next, p[u])]
           behind == [u \in DOMAIN h.tags |->
                        [h.tags[u] EXCEPT !.prev = IF u = head THEN t ELSE @]]
           next == IF head # NULL THEN head ELSE h.tags[t].next
           last == Fronted(linked[t], i, next)
           after == [behind EXCEPT ![t].index = i, ![t].size = 0,
                                   ![t].next = IF head # NULL THEN head ELSE @]
           front == [h.freePages EXCEPT ![i] = t]
           g == insert_tag(h, t, i)
<1>1. \A u \in DOMAIN h.tags : IsTag(h.tags[u])
  BY DEF IsHeap
<1>2. head \in Nat /\ t \in Nat /\ DOMAIN h.tags \subseteq Nat
  BY DEF IsHeap
<1>3. \A u \in DOMAIN h.tags : p[u] \in Nat /\ h.tags[u].next \in Nat
  BY <1>1, <1>2 DEF IsTag
<1>4. ASSUME NEW u \in DOMAIN h.tags
      PROVE  /\ IsTag(linked[u])
             /\ linked[u].next = h.tags[u].next /\ linked[u].prev = p[u]
             /\ \A x \in TagFields \ {"next", "prev"} : linked[u][x] = h.tags[u][x]
             /\ linked[u] = [h.tags[u] EXCEPT !.prev = IF u = head THEN t ELSE @]
  <2> DEFINE a == h.tags[u]
             b == h.tags[u].next
             c == p[u]
  <2>1. IsTag(a) /\ b \in Nat /\ c \in Nat /\ linked[u] = Linked(a, b, c)
    BY <1>1, <1>3
  <2>2. /\ IsTag(linked[u])
        /\ linked[u].next = b /\ linked[u].prev = c
        /\ \A x \in TagFields \ {"next", "prev"} : linked[u][x] = a[x]
    <3> HIDE DEF linked, a, b, c
    <3> QED
      BY <2>1, LinkedTag
  <2>3. Linked(a, b, c) = [a EXCEPT !.prev = c]
    <3>1. b = a.next
      OBVIOUS
    <3> HIDE DEF a, b, c
    <3> QED
      BY <2>1, <3>1 DEF Linked, IsTag, TagFields
  <2> QED
    BY <2>1, <2>2, <2>3
<1>5. behind = linked
  <2> HIDE DEF p
  <2>1. \A u \in DOMAIN h.tags :
           linked[u] = [h.tags[u] EXCEPT !.prev = IF u = head THEN t ELSE @]
    BY <1>4, Zenon
  <2> QED
    BY <2>1
<1>5a. \A u \in DOMAIN h.tags :
          /\ linked[u].next = h.tags[u].next /\ linked[u].prev = p[u]
          /\ \A x \in TagFields \ {"next", "prev"} : linked[u][x] = h.tags[u][x]
  BY <1>4
<1>6. next \in Nat
  BY <1>2, <1>3
<1>7. /\ IsTag(last) /\ last.index = i /\ last.next = next
      /\ last.prev = p[t] /\ \A x \in Places \ {"size"} : last[x] = h.tags[t][x]
  <2> DEFINE l == linked[t]
  <2>1. IsTag(l) /\ l.prev = p[t] /\ \A x \in Places \ {"size"} : l[x] = h.tags[t][x]
    <3>1. \A x \in Places \ {"size"} : x \in TagFields \ {"next", "prev"}
      BY DEF TagFields, Places
    <3> QED
      BY <1>4, <3>1, ZenonT(60)
  <2>2. last = Fronted(l, i, next)
    OBVIOUS
  <2> HIDE DEF l, next, last
  <2> QED
    BY <1>6, <2>1, <2>2, FrontedTag
<1>8. after = [u \in DOMAIN h.tags |-> IF u = t THEN last ELSE linked[u]]
  <2>1. linked[t].next = h.tags[t].next
    BY <1>4
  <2> HIDE DEF linked
  <2> QED
    BY <1>5, <2>1 DEF Fronted
<1>9. g = [h EXCEPT !.tags = after, !.freePages = front]
  BY DEF insert_tag
<1> HIDE DEF after, front, g
<1>10. /\ g = [x \in HeapFields |-> g[x]] /\ g.tags = after /\ g.freePages = front
       /\ g.completePages = h.completePages
  BY <1>9 DEF IsHeap, HeapFields
<1>11. /\ front \in [Exponents -> Nat]
       /\ \A e \in Exponents : front[e] = IF e = i THEN t ELSE h.freePages[e]
  BY <1>2 DEF front, IsHeap
<1> HIDE DEF linked, last
<1>12. IsHeap(g)
  <2>1. \A u \in DOMAIN h.tags : IsTag(after[u])
    BY <1>4, <1>7, <1>8
  <2>2. DOMAIN after = DOMAIN h.tags /\ after = [u \in DOMAIN after |-> after[u]]
    BY <1>8
  <2> QED
    BY <1>10, <1>11, <2>1, <2>2 DEF IsHeap
<1>13. Inserted(g, h, t, i)
  <2>1. DOMAIN g.tags = DOMAIN h.tags
    BY <1>8, <1>10
  <2>2. ASSUME NEW u \in DOMAIN h.tags
        PROVE  /\ \A x \in Places \ {"size"} : g.tags[u][x] = h.tags[u][x]
               /\ g.tags[u].next = IF u = t THEN next ELSE h.tags[u].next
               /\ g.tags[u].prev = p[u]
               /\ g.tags[u].index = IF u = t THEN i ELSE h.tags[u].index
    <3> HIDE DEF p, next
    <3>1. CASE u = t
      BY <1>7, <1>8, <1>10, <3>1
    <3>2. CASE u # t
      <4>1. g.tags[u] = linked[u]
        BY <1>8, <1>10, <3>2
      <4>2. \A x \in (Places \ {"size"}) \cup {"index"} : x \in TagFields \ {"next", "prev"}
        BY DEF Places, TagFields
      <4>3. \A x \in TagFields \ {"next", "prev"} : g.tags[u][x] = h.tags[u][x]
        BY <1>5a, <4>1
      <4>4. \A x \in Places \ {"size"} : g.tags[u][x] = h.tags[u][x]
        BY <4>2, <4>3, Zenon
      <4>5. g.tags[u].index = h.tags[u].index
        BY <4>2, <4>3
      <4> QED
        BY <1>5a, <3>2, <4>1, <4>4, <4>5
    <3> QED
      BY <3>1, <3>2
  <2> QED
    BY <1>10, <1>11, <2>1, <2>2 DEF Inserted
<1> QED
  BY <1>12, <1>13 DEF g

\* The heap h with other tags.
WithTags(h, f) == [h EXCEPT !.tags = f]

\* It is a heap.
LEMMA WithTagsHeap ==
    ASSUME NEW h, IsHeap(h), NEW f, f = [u \in DOMAIN f |-> f[u]],
           IsFiniteSet(DOMAIN f), DOMAIN f \subseteq Nat \ {0},
           \A u \in DOMAIN f : IsTag(f[u])
    PROVE  /\ IsHeap(WithTags(h, f))
           /\ WithTags(h, f).tags = f
           /\ WithTags(h, f).freePages = h.freePages
           /\ WithTags(h, f).completePages = h.completePages
<1> DEFINE g == WithTags(h, f)
<1>1. /\ g = [x \in HeapFields |-> g[x]] /\ g.tags = f
      /\ g.freePages = h.freePages /\ g.completePages = h.completePages
  BY DEF IsHeap, HeapFields, WithTags
<1> HIDE DEF g
<1>2. IsHeap(g)
  BY <1>1 DEF IsHeap
<1> QED
  BY <1>1, <1>2 DEF g

\* The fields that say which list a tag is in, and its size.
Others == {"size", "index", "next", "prev"}

\* The tag r moved: another size and other neighbours.
Moved(r, n, left, right) ==
    [r EXCEPT !.real_size = n, !.split_right = right, !.split_left = left]

\* The fields of a tag y that is r with another size and other neighbours.
MovedFrom(y, r, n, left, right) ==
    /\ IsTag(y)
    /\ y.real_size = n
    /\ y.split_left = left
    /\ y.split_right = right
    /\ \A x \in Others : y[x] = r[x]

\* The moved tag has them.
LEMMA MovedTag ==
    ASSUME NEW r, IsTag(r), NEW n \in Nat, NEW left \in Nat, NEW right \in Nat
    PROVE  MovedFrom(Moved(r, n, left, right), r, n, left, right)
  <1> DEFINE y == Moved(r, n, left, right)
  <1>1. IsTag(y)
    BY DEF IsTag, TagFields, Moved
  <1>2. y.real_size = n /\ y.split_left = left /\ y.split_right = right
    BY DEF IsTag, TagFields, Moved
  <1>3. \A x \in Others : y[x] = r[x]
    BY DEF IsTag, TagFields, Moved, Others
  <1> HIDE DEF y
  <1> QED
    BY <1>1, <1>2, <1>3 DEF MovedFrom, y

\* The order of the assignments does not matter.
MovedBack(r, n, left, right) ==
    [r EXCEPT !.split_left = left, !.split_right = right, !.real_size = n]

\* Both are the same.
LEMMA MovedEither ==
    ASSUME NEW r, IsTag(r), NEW n \in Nat, NEW left \in Nat, NEW right \in Nat
    PROVE  Moved(r, n, left, right) = MovedBack(r, n, left, right)
  BY DEF IsTag, TagFields, Moved, MovedBack

\* The heap g is h where left has taken over the memory of t.
Swallowed(g, h, left, t) ==
    /\ DOMAIN g.tags = DOMAIN h.tags \ {t}
    /\ g.freePages = h.freePages /\ g.completePages = h.completePages
    /\ \A u \in DOMAIN h.tags \ {t} :
          /\ \A x \in Others : g.tags[u][x] = h.tags[u][x]
          /\ g.tags[u].real_size = IF u = left
                                   THEN h.tags[u].real_size + h.tags[t].real_size
                                   ELSE h.tags[u].real_size
          /\ g.tags[u].split_right = IF u = left THEN h.tags[t].split_right
                                     ELSE h.tags[u].split_right
          /\ g.tags[u].split_left = IF u = h.tags[t].split_right THEN left
                                    ELSE h.tags[u].split_left

\* Swallow.
LEMMA SwallowFields ==
    ASSUME NEW h, IsHeap(h), NEW left \in DOMAIN h.tags, NEW t \in DOMAIN h.tags
    PROVE  IsHeap(Swallow(h, left, t)) /\ Swallowed(Swallow(h, left, t), h, left, t)
<1> DEFINE D == DOMAIN h.tags \ {t}
           r == h.tags[t]
           n == [u \in D |-> IF u = left THEN h.tags[u].real_size + r.real_size
                             ELSE h.tags[u].real_size]
           sr == [u \in D |-> IF u = left THEN r.split_right ELSE h.tags[u].split_right]
           sl == [u \in D |-> IF u = r.split_right THEN left ELSE h.tags[u].split_left]
           f == [u \in D |-> Moved(h.tags[u], n[u], sl[u], sr[u])]
           g == Swallow(h, left, t)
<1>1. \A u \in DOMAIN h.tags : IsTag(h.tags[u])
  BY DEF IsHeap
<1>2. left \in Nat /\ IsFiniteSet(D) /\ D \subseteq Nat \ {0}
  BY FS_Subset DEF IsHeap
<1>3. \A u \in D : n[u] \in Nat /\ sr[u] \in Nat /\ sl[u] \in Nat
  <2>1. /\ r.real_size \in Nat /\ r.split_right \in Nat
        /\ \A u \in D : /\ h.tags[u].real_size \in Nat /\ h.tags[u].split_right \in Nat
                       /\ h.tags[u].split_left \in Nat
    BY <1>1 DEF IsTag
  <2> SUFFICES ASSUME NEW u \in D
               PROVE  n[u] \in Nat /\ sr[u] \in Nat /\ sl[u] \in Nat
    OBVIOUS
  <2>2. /\ n[u] = IF u = left THEN h.tags[u].real_size + r.real_size
                  ELSE h.tags[u].real_size
        /\ sr[u] = IF u = left THEN r.split_right ELSE h.tags[u].split_right
        /\ sl[u] = IF u = r.split_right THEN left ELSE h.tags[u].split_left
    OBVIOUS
  <2>3. /\ h.tags[u].real_size \in Nat /\ h.tags[u].split_right \in Nat
        /\ h.tags[u].split_left \in Nat
    BY <2>1
  <2> HIDE DEF D, r, n, sr, sl
  <2> QED
    BY <1>2, <2>1, <2>2, <2>3
<1>4. g = WithTags(h, f)
  BY DEF Swallow, WithTags, Moved
<1>5. ASSUME NEW u \in D
      PROVE  /\ IsTag(f[u]) /\ f[u].real_size = n[u]
             /\ f[u].split_left = sl[u] /\ f[u].split_right = sr[u]
             /\ \A x \in Others : f[u][x] = h.tags[u][x]
  <2> DEFINE a == h.tags[u]
             b == n[u]
             c == sl[u]
             d == sr[u]
  <2>1. IsTag(a) /\ b \in Nat /\ c \in Nat /\ d \in Nat /\ f[u] = Moved(a, b, c, d)
    <3>1. IsTag(a)
      BY <1>1
    <3> HIDE DEF n, sl, sr
    <3>2. b \in Nat /\ c \in Nat /\ d \in Nat
      BY <1>3
    <3>3. f[u] = Moved(a, b, c, d)
      OBVIOUS
    <3> QED
      BY <3>1, <3>2, <3>3
  <2>2. /\ IsTag(f[u]) /\ f[u].real_size = b
        /\ f[u].split_left = c /\ f[u].split_right = d
        /\ \A x \in Others : f[u][x] = a[x]
    <3> HIDE DEF f, a, b, c, d
    <3>1. MovedFrom(f[u], a, b, c, d)
      BY <2>1, MovedTag
    <3> QED
      BY <3>1 DEF MovedFrom
  <2> QED
    BY <2>2
<1>6. DOMAIN f = D /\ f = [u \in DOMAIN f |-> f[u]]
  OBVIOUS
<1> HIDE DEF f, g, D
<1>7. /\ IsHeap(g) /\ g.tags = f /\ g.freePages = h.freePages
      /\ g.completePages = h.completePages
  BY <1>2, <1>4, <1>5, <1>6, WithTagsHeap
<1>8. Swallowed(g, h, left, t)
  <2>1. ASSUME NEW u \in D
        PROVE  /\ \A x \in Others : g.tags[u][x] = h.tags[u][x]
               /\ g.tags[u].real_size = n[u]
               /\ g.tags[u].split_right = sr[u]
               /\ g.tags[u].split_left = sl[u]
    <3> HIDE DEF n, sl, sr
    <3> QED
      BY <1>5, <1>7
  <2> QED
    BY <1>6, <1>7, <2>1 DEF Swallowed, D
<1> QED
  BY <1>7, <1>8 DEF g

\* Where the rest of t begins, and its size.
NewTag(h, t) == t + TagSize + h.tags[t].size
Rest(h, t) == h.tags[t].real_size - TagSize - h.tags[t].size

\* The tag that split_tag writes there.
CutTag(h, t) ==
    [size |-> 0, real_size |-> Rest(h, t), index |-> -1, split_left |-> t,
     split_right |-> h.tags[t].split_right, next |-> NULL, prev |-> NULL]

\* The heap when split_tag calls insert_tag.
Cut(h, t) ==
    WithTags(h, [u \in DOMAIN h.tags \cup {NewTag(h, t)} |->
        IF u = NewTag(h, t) THEN CutTag(h, t)
        ELSE [h.tags[u] EXCEPT
                !.split_left = IF u = h.tags[t].split_right THEN NewTag(h, t) ELSE @,
                !.split_right = IF u = t THEN NewTag(h, t) ELSE @,
                !.real_size = IF u = t THEN @ - Rest(h, t) ELSE @]])

\* split_tag cuts and inserts.
LEMMA SplitInserts ==
    ASSUME NEW h, NEW t
    PROVE  split_tag(h, t) = insert_tag(Cut(h, t), NewTag(h, t), ListOf(Rest(h, t)))
  BY DEF split_tag, Cut, CutTag, NewTag, Rest, WithTags

\* The heap g is h where new is the part of t behind its payload.
WasCut(g, h, t, new) ==
    /\ DOMAIN g.tags = DOMAIN h.tags \cup {new}
    /\ g.freePages = h.freePages /\ g.completePages = h.completePages
    /\ g.tags[new].real_size = Rest(h, t) /\ g.tags[new].index = -1
    /\ g.tags[new].split_left = t
    /\ g.tags[new].split_right = h.tags[t].split_right
    /\ g.tags[new].next = NULL /\ g.tags[new].prev = NULL
    /\ \A u \in DOMAIN h.tags :
          /\ \A x \in Others : g.tags[u][x] = h.tags[u][x]
          /\ g.tags[u].real_size = IF u = t THEN h.tags[u].real_size - Rest(h, t)
                                   ELSE h.tags[u].real_size
          /\ g.tags[u].split_right = IF u = t THEN new ELSE h.tags[u].split_right
          /\ g.tags[u].split_left = IF u = h.tags[t].split_right THEN new
                                    ELSE h.tags[u].split_left

\* There is a rest, and no tag yet where it begins.
HasRest(h, t) == Rest(h, t) \in Nat /\ NewTag(h, t) \notin DOMAIN h.tags

\* Cut.
LEMMA CutFields ==
    ASSUME NEW h, IsHeap(h), NEW t \in DOMAIN h.tags, HasRest(h, t)
    PROVE  IsHeap(Cut(h, t)) /\ WasCut(Cut(h, t), h, t, NewTag(h, t))
<1> DEFINE E == DOMAIN h.tags
           r == h.tags[t]
           new == NewTag(h, t)
           rest == Rest(h, t)
           D == E \cup {new}
           n == [u \in E |-> IF u = t THEN h.tags[u].real_size - rest
                             ELSE h.tags[u].real_size]
           sr == [u \in E |-> IF u = t THEN new ELSE h.tags[u].split_right]
           sl == [u \in E |-> IF u = r.split_right THEN new ELSE h.tags[u].split_left]
           k == CutTag(h, t)
           f == [u \in D |-> IF u = new THEN k ELSE Moved(h.tags[u], n[u], sl[u], sr[u])]
           g == Cut(h, t)
<1>1. \A u \in E : IsTag(h.tags[u])
  BY DEF IsHeap
<1>2. /\ r.size \in Nat /\ r.real_size \in Nat /\ r.split_right \in Nat
      /\ \A u \in E : /\ h.tags[u].real_size \in Nat /\ h.tags[u].split_right \in Nat
                      /\ h.tags[u].split_left \in Nat
  BY <1>1 DEF IsTag
<1>3. t \in Nat \ {0} /\ TagSize \in Nat
  BY HeapAssumption DEF IsHeap
<1>4. new \in Nat \ {0}
  <2> HIDE DEF r
  <2>1. new = t + TagSize + r.size
    BY DEF NewTag, r
  <2> QED
    BY <1>2, <1>3, <2>1
<1>5. IsFiniteSet(D) /\ D \subseteq Nat \ {0}
  <2>1. IsFiniteSet(E) /\ E \subseteq Nat \ {0}
    BY DEF IsHeap
  <2> HIDE DEF E, new
  <2> QED
    BY <1>4, <2>1, FS_AddElement
<1>6. rest \in Nat /\ r.real_size - rest \in Nat
  <2> HIDE DEF r
  <2>1. rest = r.real_size - TagSize - r.size
    BY DEF Rest, r
  <2>2. rest \in Nat
    BY DEF HasRest
  <2> QED
    BY <1>2, <1>3, <2>1, <2>2
<1>7. \A u \in E : n[u] \in Nat /\ sr[u] \in Nat /\ sl[u] \in Nat
  <2> HIDE DEF E, new, rest
  <2> QED
    BY <1>2, <1>4, <1>6
<1>8. /\ IsTag(k) /\ k.real_size = rest /\ k.index = -1 /\ k.split_left = t
      /\ k.split_right = r.split_right /\ k.next = NULL /\ k.prev = NULL
  <2> HIDE DEF r
  <2>1. k = [size |-> 0, real_size |-> rest, index |-> -1, split_left |-> t,
             split_right |-> r.split_right, next |-> NULL, prev |-> NULL]
    BY DEF CutTag, r
  <2>2. NULL = 0
    BY DEF NULL
  <2> HIDE DEF k, rest
  <2> QED
    BY <1>2, <1>3, <1>6, <2>1, <2>2 DEF IsTag, TagFields
<1>9. ASSUME NEW u \in E
      PROVE  /\ u # new /\ f[u] = Moved(h.tags[u], n[u], sl[u], sr[u])
             /\ f[u] = [h.tags[u] EXCEPT !.split_left = sl[u], !.split_right = sr[u],
                                         !.real_size = n[u]]
             /\ IsTag(f[u]) /\ f[u].real_size = n[u]
             /\ f[u].split_left = sl[u] /\ f[u].split_right = sr[u]
             /\ \A x \in Others : f[u][x] = h.tags[u][x]
  <2> DEFINE a == h.tags[u]
             b == n[u]
             c == sl[u]
             d == sr[u]
  <2>1. u # new
    BY DEF HasRest
  <2>2. IsTag(a) /\ b \in Nat /\ c \in Nat /\ d \in Nat /\ f[u] = Moved(a, b, c, d)
    <3> HIDE DEF n, sl, sr, new
    <3> QED
      BY <1>1, <1>7, <2>1
  <2> DEFINE y == Moved(a, b, c, d)
  <2> HIDE DEF f, a, b, c, d
  <2>3. MovedFrom(y, a, b, c, d)
    BY <2>2, MovedTag
  <2>4. y = MovedBack(a, b, c, d)
    BY <2>2, MovedEither
  <2> HIDE DEF y
  <2> QED
    BY <2>1, <2>2, <2>3, <2>4 DEF a, b, c, d, y, MovedBack, MovedFrom
<1>10. g = WithTags(h, f)
  <2> DEFINE e == [u \in D |->
        IF u = new THEN k
        ELSE [h.tags[u] EXCEPT
                !.split_left = IF u = r.split_right THEN new ELSE @,
                !.split_right = IF u = t THEN new ELSE @,
                !.real_size = IF u = t THEN @ - rest ELSE @]]
  <2>1. g = WithTags(h, e)
    BY DEF Cut
  <2>2. ASSUME NEW u \in D PROVE e[u] = f[u]
    <3>1. CASE u = new
      BY <3>1
    <3>2. CASE u # new
      <4>1. u \in E
        BY <3>2
      <4>2. f[u] = [h.tags[u] EXCEPT !.split_left = sl[u], !.split_right = sr[u],
                                     !.real_size = n[u]]
        BY <1>9, <4>1
      <4>3. /\ sl[u] = IF u = r.split_right THEN new ELSE h.tags[u].split_left
            /\ sr[u] = IF u = t THEN new ELSE h.tags[u].split_right
            /\ n[u] = IF u = t THEN h.tags[u].real_size - rest ELSE h.tags[u].real_size
        BY <4>1
      <4> HIDE DEF f, n, sl, sr, new, rest, r
      <4> QED
        BY <3>2, <4>1, <4>2, <4>3
    <3> QED
      BY <3>1, <3>2
  <2>3. e = f
    <3>1. e = [u \in D |-> e[u]] /\ f = [u \in D |-> f[u]]
      OBVIOUS
    <3> HIDE DEF e, f
    <3> QED
      BY <2>2, <3>1
  <2> QED
    BY <2>1, <2>3
<1>11. DOMAIN f = D /\ f = [u \in DOMAIN f |-> f[u]] /\ f[new] = k
  OBVIOUS
<1>12. \A u \in D : IsTag(f[u])
  BY <1>8, <1>9, <1>11
<1> HIDE DEF f, g, D
<1>13. /\ IsHeap(g) /\ g.tags = f /\ g.freePages = h.freePages
       /\ g.completePages = h.completePages
  BY <1>5, <1>10, <1>11, <1>12, WithTagsHeap
<1>14. WasCut(g, h, t, new)
  <2>1. ASSUME NEW u \in E
        PROVE  /\ \A x \in Others : g.tags[u][x] = h.tags[u][x]
               /\ g.tags[u].real_size = n[u]
               /\ g.tags[u].split_right = sr[u]
               /\ g.tags[u].split_left = sl[u]
    <3> HIDE DEF n, sl, sr
    <3> QED
      BY <1>9, <1>13
  <2>2. g.tags[new] = k
    BY <1>11, <1>13
  <2> HIDE DEF k
  <2> QED
    BY <1>8, <1>11, <1>13, <2>1, <2>2 DEF WasCut, D
<1> QED
  BY <1>13, <1>14 DEF g

\* The tag of a new block of n bytes.
BlockTag(size, n) ==
    [size |-> size, real_size |-> n, index |-> -1, split_left |-> NULL,
     split_right |-> NULL, next |-> NULL, prev |-> NULL]

\* Its type and its fields.
LEMMA BlockTagFields ==
    ASSUME NEW size \in Nat, NEW n \in Nat
    PROVE  /\ IsTag(BlockTag(size, n))
           /\ BlockTag(size, n).real_size = n /\ BlockTag(size, n).index = -1
           /\ BlockTag(size, n).split_left = NULL /\ BlockTag(size, n).split_right = NULL
           /\ BlockTag(size, n).next = NULL /\ BlockTag(size, n).prev = NULL
  BY DEF BlockTag, IsTag, TagFields, NULL

\* The heap g is h with a block of n bytes at t.
Enlarged(g, h, t, n) ==
    /\ DOMAIN g.tags = DOMAIN h.tags \cup {t}
    /\ g.freePages = h.freePages /\ g.completePages = h.completePages
    /\ \A u \in DOMAIN h.tags : g.tags[u] = h.tags[u]
    /\ g.tags[t].real_size = n /\ g.tags[t].index = -1
    /\ g.tags[t].split_left = NULL /\ g.tags[t].split_right = NULL
    /\ g.tags[t].next = NULL /\ g.tags[t].prev = NULL

\* allocate_new_tag, where neither number wraps.
LEMMA AllocateFields ==
    ASSUME NEW h, IsHeap(h), NEW t \in Nat \ {0}, t \notin DOMAIN h.tags,
           NEW size, UInt(size) \in Nat, NEW n \in Nat, UInt(PagesFor(size) * PageSize) = n
    PROVE  /\ IsHeap(allocate_new_tag(h, t, size))
           /\ Enlarged(allocate_new_tag(h, t, size), h, t, n)
<1> DEFINE g == allocate_new_tag(h, t, size)
           k == BlockTag(UInt(size), n)
           f == [u \in DOMAIN h.tags \cup {t} |-> IF u # t THEN h.tags[u] ELSE k]
<1>1. g = WithTags(h, f)
  BY DEF allocate_new_tag, WithTags, BlockTag
<1>2. IsFiniteSet(DOMAIN f) /\ DOMAIN f \subseteq Nat \ {0}
  BY FS_AddElement DEF IsHeap
<1>3. /\ IsTag(k) /\ k.real_size = n /\ k.index = -1
      /\ k.split_left = NULL /\ k.split_right = NULL
      /\ k.next = NULL /\ k.prev = NULL
  BY BlockTagFields
<1> HIDE DEF k
<1>4. /\ \A u \in DOMAIN f : IsTag(f[u])
      /\ \A u \in DOMAIN h.tags : f[u] = h.tags[u]
      /\ DOMAIN f = DOMAIN h.tags \cup {t}
      /\ f[t] = k /\ f = [u \in DOMAIN f |-> f[u]]
  BY <1>3 DEF IsHeap
<1> HIDE DEF f, g
<1>5. /\ IsHeap(g) /\ g.tags = f /\ g.freePages = h.freePages
      /\ g.completePages = h.completePages
  BY <1>1, <1>2, <1>4, WithTagsHeap
<1>6. Enlarged(g, h, t, n)
  BY <1>3, <1>4, <1>5 DEF Enlarged
<1> QED
  BY <1>5, <1>6 DEF g

\* The heap h without the tag t, after its pages went back.
Dropped(h, t) == [h EXCEPT !.tags = [v \in DOMAIN h.tags \ {t} |-> h.tags[v]]]

\* Its fields.
LEMMA DroppedFields ==
    ASSUME NEW h, IsHeap(h), NEW t
    PROVE  /\ IsHeap(Dropped(h, t))
           /\ DOMAIN Dropped(h, t).tags = DOMAIN h.tags \ {t}
           /\ \A u \in DOMAIN h.tags \ {t} : Dropped(h, t).tags[u] = h.tags[u]
           /\ Dropped(h, t).freePages = h.freePages
           /\ Dropped(h, t).completePages = h.completePages
<1> DEFINE g == Dropped(h, t)
           f == [v \in DOMAIN h.tags \ {t} |-> h.tags[v]]
<1>1. g = WithTags(h, f)
  BY DEF WithTags, Dropped
<1>2. IsFiniteSet(DOMAIN f) /\ DOMAIN f \subseteq Nat \ {0}
  BY FS_Subset DEF IsHeap
<1>3. /\ \A u \in DOMAIN f : IsTag(f[u])
      /\ \A u \in DOMAIN h.tags \ {t} : f[u] = h.tags[u]
      /\ DOMAIN f = DOMAIN h.tags \ {t} /\ f = [u \in DOMAIN f |-> f[u]]
  BY DEF IsHeap
<1> HIDE DEF f, g
<1>4. /\ IsHeap(g) /\ g.tags = f /\ g.freePages = h.freePages
      /\ g.completePages = h.completePages
  BY <1>1, <1>2, <1>3, WithTagsHeap
<1> QED
  BY <1>3, <1>4 DEF g

\* The heap h with another size in t.
Sized(h, t, n) == [h EXCEPT !.tags[t].size = n]

\* The tag r with another size.
SizedTag(r, n) == [r EXCEPT !.size = n]

\* Its fields.
LEMMA SizedTagFields ==
    ASSUME NEW r, IsTag(r), NEW n \in Nat
    PROVE  /\ IsTag(SizedTag(r, n)) /\ SizedTag(r, n).size = n
           /\ \A x \in TagFields \ {"size"} : SizedTag(r, n)[x] = r[x]
  BY DEF IsTag, TagFields, SizedTag

\* The fields of the heap.
LEMMA SizedFields ==
    ASSUME NEW h, IsHeap(h), NEW t \in DOMAIN h.tags, NEW n \in Nat
    PROVE  /\ IsHeap(Sized(h, t, n))
           /\ DOMAIN Sized(h, t, n).tags = DOMAIN h.tags
           /\ Sized(h, t, n).tags[t].size = n
           /\ \A u \in DOMAIN h.tags : \A x \in TagFields \ {"size"} :
                 Sized(h, t, n).tags[u][x] = h.tags[u][x]
           /\ Sized(h, t, n).freePages = h.freePages
           /\ Sized(h, t, n).completePages = h.completePages
<1> DEFINE g == Sized(h, t, n)
           k == SizedTag(h.tags[t], n)
           f == [u \in DOMAIN h.tags |-> IF u = t THEN k ELSE h.tags[u]]
<1>1. \A u \in DOMAIN h.tags : IsTag(h.tags[u])
  BY DEF IsHeap
<1>2. /\ IsTag(k) /\ k.size = n
      /\ \A x \in TagFields \ {"size"} : k[x] = h.tags[t][x]
  <2> DEFINE a == h.tags[t]
  <2>1. IsTag(a)
    BY <1>1
  <2> HIDE DEF a
  <2>2. /\ IsTag(SizedTag(a, n)) /\ SizedTag(a, n).size = n
        /\ \A x \in TagFields \ {"size"} : SizedTag(a, n)[x] = a[x]
    BY <2>1, SizedTagFields
  <2> QED
    BY <2>2 DEF a
<1>3. g = WithTags(h, f)
  <2>1. h.tags = [u \in DOMAIN h.tags |-> h.tags[u]]
    BY DEF IsHeap
  <2>2. f = [h.tags EXCEPT ![t].size = n]
    BY <2>1 DEF SizedTag
  <2> QED
    BY <2>2 DEF Sized, WithTags
<1> HIDE DEF k
<1>4. /\ \A u \in DOMAIN f : IsTag(f[u])
      /\ \A u \in DOMAIN h.tags : u # t => f[u] = h.tags[u]
      /\ DOMAIN f = DOMAIN h.tags
      /\ f[t] = k /\ f = [u \in DOMAIN f |-> f[u]]
  BY <1>1, <1>2
<1>5. IsFiniteSet(DOMAIN f) /\ DOMAIN f \subseteq Nat \ {0}
  BY DEF IsHeap
<1> HIDE DEF f, g
<1>6. /\ IsHeap(g) /\ g.tags = f /\ g.freePages = h.freePages
      /\ g.completePages = h.completePages
  BY <1>3, <1>4, <1>5, WithTagsHeap
<1>7. ASSUME NEW u \in DOMAIN h.tags, NEW x \in TagFields \ {"size"}
      PROVE  g.tags[u][x] = h.tags[u][x]
  BY <1>2, <1>4, <1>6
<1> QED
  BY <1>2, <1>4, <1>6, <1>7 DEF g

\* The heap h with another count of whole blocks.
Counted(h, e, n) == [h EXCEPT !.completePages[e] = n]

\* Its fields.
LEMMA CountedFields ==
    ASSUME NEW h, IsHeap(h), NEW e \in Exponents, NEW n \in Nat
    PROVE  /\ IsHeap(Counted(h, e, n))
           /\ Counted(h, e, n).tags = h.tags
           /\ Counted(h, e, n).freePages = h.freePages
           /\ \A d \in Exponents : Counted(h, e, n).completePages[d] =
                                      IF d = e THEN n ELSE h.completePages[d]
<1> DEFINE g == Counted(h, e, n)
           c == [h.completePages EXCEPT ![e] = n]
<1>1. /\ g = [x \in HeapFields |-> g[x]] /\ g.tags = h.tags
      /\ g.freePages = h.freePages /\ g.completePages = c
  BY DEF IsHeap, HeapFields, Counted
<1>2. /\ c \in [Exponents -> Nat]
      /\ \A d \in Exponents : c[d] = IF d = e THEN n ELSE h.completePages[d]
  BY DEF IsHeap
<1> HIDE DEF g, c
<1>3. IsHeap(g)
  BY <1>1, <1>2 DEF IsHeap
<1> QED
  BY <1>1, <1>2, <1>3 DEF g

-----------------------------------------------------------------------------
(* Where the pieces lie.                                                   *)

EndOf(h, t) == t + h.tags[t].real_size

\* Every piece has room for more than its header, and no two overlap.
Separate(h) ==
    /\ \A t \in DOMAIN h.tags : h.tags[t].real_size >= TagSize
    /\ \A t, u \in DOMAIN h.tags : t < u => EndOf(h, t) <= u

\* The byte b lies in one of the pages.
InPages(pg, b) == \E p \in pg : p * PageSize <= b /\ b < p * PageSize + PageSize

\* The bytes of the pages are the bytes of the pieces.
Covers(h, pg) ==
    \A b \in Nat :
        InPages(pg, b) <=> \E t \in DOMAIN h.tags : t <= b /\ b < EndOf(h, t)

\* split_left and split_right are inverse and lead to the piece next door.
Neighbours(h) ==
    \A t \in DOMAIN h.tags :
        /\ h.tags[t].split_right # NULL =>
              /\ h.tags[t].split_right \in DOMAIN h.tags
              /\ h.tags[t].split_right = EndOf(h, t)
              /\ h.tags[h.tags[t].split_right].split_left = t
        /\ h.tags[t].split_left # NULL =>
              /\ h.tags[t].split_left \in DOMAIN h.tags
              /\ h.tags[h.tags[t].split_left].split_right = t

\* The bytes from lo to hi are what the hook gives at a time.
IsBlock(lo, hi) ==
    \E a, n \in Nat : /\ lo = a * PageSize /\ hi = (a + n) * PageSize
                      /\ n >= PageCount /\ hi - lo < 2^MaxExp

\* The blocks that the pieces belong to: a chain of neighbours has one block,
\* and ends where the block ends.
InBlocks(h, lo, hi) ==
    \A t \in DOMAIN h.tags :
        /\ IsBlock(lo[t], hi[t]) /\ lo[t] <= t /\ EndOf(h, t) <= hi[t]
        /\ h.tags[t].split_left = NULL => t = lo[t]
        /\ h.tags[t].split_right = NULL => EndOf(h, t) = hi[t]
        /\ h.tags[t].split_right # NULL =>
              /\ lo[h.tags[t].split_right] = lo[t]
              /\ hi[h.tags[t].split_right] = hi[t]

Blocks(h) == \E lo, hi \in [DOMAIN h.tags -> Nat] : InBlocks(h, lo, hi)

Geometry(h, pg) == Separate(h) /\ Covers(h, pg) /\ Neighbours(h) /\ Blocks(h)

\* The types that geometry needs.
LEMMA PlaceTypes ==
    ASSUME NEW h, IsHeap(h)
    PROVE  /\ DOMAIN h.tags \subseteq Nat \ {0}
           /\ \A t \in DOMAIN h.tags :
                 /\ h.tags[t].real_size \in Nat /\ EndOf(h, t) \in Nat
                 /\ h.tags[t].split_left \in Nat /\ h.tags[t].split_right \in Nat
           /\ TagSize \in Nat \ {0} /\ NULL = 0
<1>1. /\ DOMAIN h.tags \subseteq Nat \ {0}
      /\ \A t \in DOMAIN h.tags :
            /\ h.tags[t].real_size \in Nat
            /\ h.tags[t].split_left \in Nat /\ h.tags[t].split_right \in Nat
  BY DEF IsHeap, IsTag
<1>2. \A t \in DOMAIN h.tags : EndOf(h, t) \in Nat
  BY <1>1 DEF EndOf
<1>3. TagSize \in Nat \ {0} /\ NULL = 0
  BY HeapAssumption DEF NULL
<1> QED
  BY <1>1, <1>2, <1>3

\* Heaps whose tags agree in their places have the same geometry.
LEMMA SameGeometry ==
    ASSUME NEW h, NEW g, NEW pg, Geometry(h, pg), DOMAIN g.tags = DOMAIN h.tags,
           \A u \in DOMAIN h.tags :
              /\ g.tags[u].real_size = h.tags[u].real_size
              /\ g.tags[u].split_left = h.tags[u].split_left
              /\ g.tags[u].split_right = h.tags[u].split_right
    PROVE  Geometry(g, pg)
<1>1. \A u \in DOMAIN h.tags : EndOf(g, u) = EndOf(h, u)
  BY DEF EndOf
<1>2. Separate(g)
  BY <1>1 DEF Separate, Geometry
<1>3. Covers(g, pg)
  BY <1>1 DEF Covers, Geometry
<1>4. Neighbours(g)
  BY <1>1 DEF Neighbours, Geometry
<1>5. Blocks(g)
  <2>1. PICK lo, hi \in [DOMAIN h.tags -> Nat] : InBlocks(h, lo, hi)
    BY DEF Geometry, Blocks
  <2>2. InBlocks(g, lo, hi)
    BY <1>1, <2>1 DEF InBlocks
  <2> QED
    BY <2>1, <2>2 DEF Blocks
<1> QED
  BY <1>2, <1>3, <1>4, <1>5 DEF Geometry

\* So it stays when a piece takes over its neighbour.
LEMMA SwallowGeometry ==
    ASSUME NEW h, NEW g, NEW pg, IsHeap(h), Geometry(h, pg),
           NEW left \in DOMAIN h.tags, NEW t \in DOMAIN h.tags,
           h.tags[left].split_right = t, Swallowed(g, h, left, t)
    PROVE  Geometry(g, pg)
<1>1. /\ DOMAIN h.tags \subseteq Nat \ {0}
      /\ \A u \in DOMAIN h.tags :
            /\ h.tags[u].real_size \in Nat /\ EndOf(h, u) \in Nat
            /\ h.tags[u].split_left \in Nat /\ h.tags[u].split_right \in Nat
      /\ TagSize \in Nat \ {0} /\ NULL = 0
  BY PlaceTypes
<1>2. Separate(h) /\ Covers(h, pg) /\ Neighbours(h)
  BY DEF Geometry
<1>3. t = EndOf(h, left) /\ h.tags[t].split_left = left /\ left < t
  BY <1>1, <1>2 DEF Neighbours, Separate, EndOf
<1>4. /\ EndOf(g, left) = EndOf(h, t)
      /\ \A u \in DOMAIN h.tags \ {left, t} : EndOf(g, u) = EndOf(h, u)
  BY <1>1, <1>3 DEF EndOf, Swallowed
<1>5. DOMAIN g.tags = DOMAIN h.tags \ {t}
  BY DEF Swallowed
<1>6. Separate(g)
  <2>1. \A u \in DOMAIN g.tags : g.tags[u].real_size >= TagSize
    BY <1>1, <1>2, <1>5 DEF Separate, Swallowed
  <2>2. ASSUME NEW u \in DOMAIN g.tags, NEW v \in DOMAIN g.tags, u < v
        PROVE  EndOf(g, u) <= v
    <3>1. CASE u = left
      <4>1. t < v
        BY <1>1, <1>2, <1>3, <1>5, <2>2, <3>1 DEF Separate
      <4> QED
        BY <1>2, <1>3, <1>4, <1>5, <3>1, <4>1 DEF Separate
    <3>2. CASE u # left
      BY <1>2, <1>4, <1>5, <2>2, <3>2 DEF Separate
    <3> QED
      BY <3>1, <3>2
  <2> QED
    BY <2>1, <2>2 DEF Separate
<1>7. Covers(g, pg)
  <2>1. ASSUME NEW b \in Nat
        PROVE  (\E u \in DOMAIN h.tags : u <= b /\ b < EndOf(h, u)) <=>
                  \E u \in DOMAIN g.tags : u <= b /\ b < EndOf(g, u)
    <3>1. ASSUME NEW u \in DOMAIN h.tags, u <= b, b < EndOf(h, u)
          PROVE  \E v \in DOMAIN g.tags : v <= b /\ b < EndOf(g, v)
      <4>1. CASE u = t
        BY <1>1, <1>3, <1>4, <1>5, <3>1, <4>1
      <4>2. CASE u = left
        <5>1. EndOf(h, left) <= EndOf(h, t)
          BY <1>1, <1>3 DEF EndOf
        <5> QED
          BY <1>1, <1>3, <1>4, <1>5, <3>1, <4>2, <5>1
      <4>3. CASE u \notin {t, left}
        BY <1>4, <1>5, <3>1, <4>3
      <4> QED
        BY <4>1, <4>2, <4>3
    <3>2. ASSUME NEW u \in DOMAIN g.tags, u <= b, b < EndOf(g, u)
          PROVE  \E v \in DOMAIN h.tags : v <= b /\ b < EndOf(h, v)
      <4>1. CASE u = left
        BY <1>1, <1>3, <1>4, <3>2, <4>1
      <4>2. CASE u # left
        BY <1>4, <1>5, <3>2, <4>2
      <4> QED
        BY <4>1, <4>2
    <3> QED
      BY <3>1, <3>2
  <2> QED
    BY <1>2, <2>1 DEF Covers
<1>8. Neighbours(g)
  <2>1. ASSUME NEW u \in DOMAIN g.tags, g.tags[u].split_right # NULL
        PROVE  /\ g.tags[u].split_right \in DOMAIN g.tags
               /\ g.tags[u].split_right = EndOf(g, u)
               /\ g.tags[g.tags[u].split_right].split_left = u
    <3>1. CASE u = left
      <4>1. g.tags[u].split_right = h.tags[t].split_right
        BY <1>5, <3>1 DEF Swallowed
      <4>2. /\ h.tags[t].split_right \in DOMAIN h.tags
            /\ h.tags[t].split_right = EndOf(h, t)
        BY <1>2, <2>1, <4>1 DEF Neighbours
      <4>3. h.tags[t].split_right # t
        BY <1>1, <1>2, <4>2 DEF EndOf, Separate
      <4> QED
        BY <1>4, <1>5, <3>1, <4>1, <4>2, <4>3 DEF Swallowed
    <3>2. CASE u # left
      <4>1. g.tags[u].split_right = h.tags[u].split_right
        BY <1>5, <3>2 DEF Swallowed
      <4>2. /\ h.tags[u].split_right \in DOMAIN h.tags
            /\ h.tags[u].split_right = EndOf(h, u)
            /\ h.tags[h.tags[u].split_right].split_left = u
        BY <1>2, <1>5, <2>1, <4>1 DEF Neighbours
      <4>3. h.tags[u].split_right # t
        BY <1>3, <3>2, <4>2
      <4>4. h.tags[u].split_right # h.tags[t].split_right
        BY <1>2, <1>5, <4>1, <4>2, <2>1 DEF Neighbours
      <4> QED
        BY <1>4, <1>5, <3>2, <4>1, <4>2, <4>3, <4>4 DEF Swallowed
    <3> QED
      BY <3>1, <3>2
  <2>2. ASSUME NEW u \in DOMAIN g.tags, g.tags[u].split_left # NULL
        PROVE  /\ g.tags[u].split_left \in DOMAIN g.tags
               /\ g.tags[g.tags[u].split_left].split_right = u
    <3>1. CASE u = h.tags[t].split_right
      BY <1>1, <1>3, <1>5, <3>1 DEF Swallowed
    <3>2. CASE u # h.tags[t].split_right
      <4>1. g.tags[u].split_left = h.tags[u].split_left
        BY <1>5, <3>2 DEF Swallowed
      <4>2. /\ h.tags[u].split_left \in DOMAIN h.tags
            /\ h.tags[h.tags[u].split_left].split_right = u
        BY <1>2, <1>5, <2>2, <4>1 DEF Neighbours
      <4>3. h.tags[u].split_left \notin {t, left}
        BY <1>5, <3>2, <4>2
      <4> QED
        BY <1>5, <4>1, <4>2, <4>3 DEF Swallowed
    <3> QED
      BY <3>1, <3>2
  <2> QED
    BY <2>1, <2>2 DEF Neighbours
<1>9. Blocks(g)
  <2>1. PICK lo, hi \in [DOMAIN h.tags -> Nat] : InBlocks(h, lo, hi)
    BY DEF Geometry, Blocks
  <2> DEFINE lo2 == [u \in DOMAIN g.tags |-> lo[u]]
             hi2 == [u \in DOMAIN g.tags |-> hi[u]]
  <2>2. lo2 \in [DOMAIN g.tags -> Nat] /\ hi2 \in [DOMAIN g.tags -> Nat]
    BY <1>5
  <2>3. lo[t] = lo[left] /\ hi[t] = hi[left]
    BY <1>1, <2>1 DEF InBlocks
  <2>4. ASSUME NEW u \in DOMAIN g.tags
        PROVE  /\ IsBlock(lo[u], hi[u]) /\ lo[u] <= u /\ EndOf(g, u) <= hi[u]
               /\ g.tags[u].split_left = NULL => u = lo[u]
               /\ g.tags[u].split_right = NULL => EndOf(g, u) = hi[u]
               /\ g.tags[u].split_right # NULL =>
                     /\ lo[g.tags[u].split_right] = lo[u]
                     /\ hi[g.tags[u].split_right] = hi[u]
    <3>1. CASE u = left
      <4>1. g.tags[u].split_right = h.tags[t].split_right
        BY <1>5, <3>1 DEF Swallowed
      <4>2. u # h.tags[t].split_right
        <5>1. h.tags[t].split_right # NULL => h.tags[t].split_right = EndOf(h, t)
          BY <1>2 DEF Neighbours
        <5> QED
          BY <1>1, <1>3, <3>1, <5>1 DEF EndOf
      <4>3. g.tags[u].split_left = h.tags[u].split_left
        BY <1>5, <4>2 DEF Swallowed
      <4> QED
        BY <1>4, <1>5, <2>1, <2>3, <3>1, <4>1, <4>3 DEF InBlocks
    <3>2. CASE u # left
      <4>1. /\ EndOf(g, u) = EndOf(h, u) /\ u \in DOMAIN h.tags
            /\ g.tags[u].split_right = h.tags[u].split_right
        BY <1>4, <1>5, <3>2 DEF Swallowed
      <4>2. g.tags[u].split_left = NULL => h.tags[u].split_left = NULL
        BY <1>1, <1>5 DEF Swallowed
      <4> QED
        BY <2>1, <4>1, <4>2 DEF InBlocks
    <3> QED
      BY <3>1, <3>2
  <2>5. InBlocks(g, lo2, hi2)
    <3>1. \A u \in DOMAIN g.tags : lo2[u] = lo[u] /\ hi2[u] = hi[u]
      OBVIOUS
    <3> HIDE DEF lo2, hi2
    <3> QED
      BY <1>8, <2>4, <3>1 DEF InBlocks, Neighbours
  <2> QED
    BY <2>2, <2>5 DEF Blocks
<1> QED
  BY <1>6, <1>7, <1>8, <1>9 DEF Geometry

\* A piece that is large enough has a rest to cut off.
LEMMA RestIsThere ==
    ASSUME NEW h, NEW pg, IsHeap(h), Geometry(h, pg), NEW t \in DOMAIN h.tags,
           Rest(h, t) > TagSize
    PROVE  /\ HasRest(h, t) /\ Rest(h, t) \in Nat /\ NewTag(h, t) \in Nat \ {0}
           /\ t + TagSize <= NewTag(h, t)
           /\ NewTag(h, t) + Rest(h, t) = EndOf(h, t)
<1>1. /\ DOMAIN h.tags \subseteq Nat \ {0}
      /\ \A u \in DOMAIN h.tags : h.tags[u].real_size \in Nat /\ h.tags[u].size \in Nat
      /\ TagSize \in Nat \ {0}
  BY PlaceTypes DEF IsHeap, IsTag
<1>2. /\ Rest(h, t) \in Nat /\ NewTag(h, t) \in Nat \ {0}
      /\ t + TagSize <= NewTag(h, t) /\ NewTag(h, t) + Rest(h, t) = EndOf(h, t)
  <2> DEFINE s == h.tags[t].size
             n == h.tags[t].real_size
  <2>1. /\ s \in Nat /\ n \in Nat /\ n - TagSize - s > TagSize
        /\ Rest(h, t) = n - TagSize - s
        /\ NewTag(h, t) = t + TagSize + s /\ EndOf(h, t) = t + n
    BY <1>1 DEF Rest, NewTag, EndOf
  <2> HIDE DEF s, n
  <2> QED
    BY <1>1, <2>1
<1>3. NewTag(h, t) \notin DOMAIN h.tags
  <2>1. t < NewTag(h, t) /\ NewTag(h, t) < EndOf(h, t)
    BY <1>1, <1>2
  <2>2. \A u \in DOMAIN h.tags : t < u => EndOf(h, t) <= u
    BY DEF Geometry, Separate
  <2> QED
    BY <1>1, <1>2, <2>1, <2>2 DEF EndOf
<1> QED
  BY <1>2, <1>3 DEF HasRest

\* So it stays when the rest is cut off.
LEMMA CutGeometry ==
    ASSUME NEW h, NEW g, NEW pg, NEW new, IsHeap(h), Geometry(h, pg),
           NEW t \in DOMAIN h.tags,
           Rest(h, t) > TagSize, new = NewTag(h, t),
           WasCut(g, h, t, new)
    PROVE  Geometry(g, pg)
<1>1. /\ DOMAIN h.tags \subseteq Nat \ {0}
      /\ \A u \in DOMAIN h.tags :
            /\ h.tags[u].real_size \in Nat /\ EndOf(h, u) \in Nat
            /\ h.tags[u].split_left \in Nat /\ h.tags[u].split_right \in Nat
      /\ TagSize \in Nat \ {0} /\ NULL = 0
  BY PlaceTypes
<1>2. Separate(h) /\ Covers(h, pg) /\ Neighbours(h)
  BY DEF Geometry
<1>3. /\ new \notin DOMAIN h.tags /\ Rest(h, t) \in Nat /\ new \in Nat \ {0}
      /\ t + TagSize <= new /\ new + Rest(h, t) = EndOf(h, t)
  BY RestIsThere DEF HasRest
<1>4. DOMAIN g.tags = DOMAIN h.tags \cup {new}
  BY DEF WasCut
<1>5. /\ EndOf(g, t) = new /\ EndOf(g, new) = EndOf(h, t)
      /\ \A u \in DOMAIN h.tags \ {t} : EndOf(g, u) = EndOf(h, u)
  <2>1. EndOf(g, new) = EndOf(h, t)
    BY <1>3 DEF EndOf, WasCut
  <2>2. EndOf(g, t) = new
    <3>1. g.tags[t].real_size = h.tags[t].real_size - Rest(h, t)
      BY DEF WasCut
    <3>2. h.tags[t].real_size \in Nat /\ t \in Nat
      BY <1>1
    <3> QED
      BY <1>3, <3>1, <3>2 DEF EndOf
  <2>3. \A u \in DOMAIN h.tags \ {t} : EndOf(g, u) = EndOf(h, u)
    BY DEF EndOf, WasCut
  <2> QED
    BY <2>1, <2>2, <2>3
<1>6. Separate(g)
  <2>1. ASSUME NEW u \in DOMAIN g.tags PROVE g.tags[u].real_size >= TagSize
    <3>1. CASE u = new
      <4>1. g.tags[u].real_size = Rest(h, t)
        BY <3>1 DEF WasCut
      <4> QED
        BY <1>1, <1>3, <4>1
    <3>2. CASE u = t
      <4>1. g.tags[t].real_size = h.tags[t].real_size - Rest(h, t)
        BY DEF WasCut
      <4>2. h.tags[t].real_size \in Nat /\ t \in Nat
        BY <1>1
      <4> QED
        BY <1>1, <1>3, <3>2, <4>1, <4>2 DEF EndOf
    <3>3. CASE u \in DOMAIN h.tags \ {t}
      BY <1>2, <3>3 DEF WasCut, Separate
    <3> QED
      BY <1>4, <3>1, <3>2, <3>3
  <2>2. ASSUME NEW u \in DOMAIN g.tags, NEW v \in DOMAIN g.tags, u < v
        PROVE  EndOf(g, u) <= v
    <3>1. CASE u = new
      <4>1. v \in DOMAIN h.tags /\ t < v
        BY <1>1, <1>3, <1>4, <2>2, <3>1
      <4> QED
        BY <1>2, <1>5, <3>1, <4>1 DEF Separate
    <3>2. CASE u = t
      <4>1. CASE v = new
        BY <1>3, <1>5, <3>2, <4>1
      <4>2. CASE v # new
        <5>1. v \in DOMAIN h.tags /\ EndOf(h, t) <= v
          BY <1>2, <1>4, <2>2, <3>2, <4>2 DEF Separate
        <5> QED
          BY <1>1, <1>3, <1>5, <3>2, <5>1
      <4> QED
        BY <4>1, <4>2
    <3>3. CASE u \in DOMAIN h.tags \ {t}
      <4>1. CASE v = new
        <5>1. u < t
          <6>1. ~(t < u)
            BY <1>1, <1>2, <1>3, <2>2, <3>3, <4>1 DEF Separate
          <6> QED
            BY <1>1, <3>3, <6>1
        <5> QED
          BY <1>1, <1>2, <1>3, <1>5, <3>3, <4>1, <5>1 DEF Separate
      <4>2. CASE v # new
        BY <1>2, <1>4, <1>5, <2>2, <3>3, <4>2 DEF Separate
      <4> QED
        BY <4>1, <4>2
    <3> QED
      BY <1>4, <3>1, <3>2, <3>3
  <2> QED
    BY <2>1, <2>2 DEF Separate
<1>7. Covers(g, pg)
  <2>1. ASSUME NEW b \in Nat
        PROVE  (\E u \in DOMAIN h.tags : u <= b /\ b < EndOf(h, u)) <=>
                  \E u \in DOMAIN g.tags : u <= b /\ b < EndOf(g, u)
    <3>1. ASSUME NEW u \in DOMAIN h.tags, u <= b, b < EndOf(h, u)
          PROVE  \E v \in DOMAIN g.tags : v <= b /\ b < EndOf(g, v)
      <4>1. CASE u = t /\ b < new
        BY <1>4, <1>5, <3>1, <4>1
      <4>2. CASE u = t /\ b >= new
        BY <1>4, <1>5, <3>1, <4>2
      <4>3. CASE u # t
        BY <1>4, <1>5, <3>1, <4>3
      <4> QED
        BY <1>3, <4>1, <4>2, <4>3
    <3>2. ASSUME NEW u \in DOMAIN g.tags, u <= b, b < EndOf(g, u)
          PROVE  \E v \in DOMAIN h.tags : v <= b /\ b < EndOf(h, v)
      <4>1. CASE u \in {t, new}
        <5>1. t <= b
          BY <1>1, <1>3, <3>2, <4>1
        <5>2. b < EndOf(h, t)
          BY <1>1, <1>3, <1>5, <3>2, <4>1
        <5> QED
          BY <5>1, <5>2
      <4>2. CASE u \notin {t, new}
        BY <1>4, <1>5, <3>2, <4>2
      <4> QED
        BY <4>1, <4>2
    <3> QED
      BY <3>1, <3>2
  <2> QED
    BY <1>2, <2>1 DEF Covers
<1> DEFINE right == h.tags[t].split_right
<1>8. /\ g.tags[t].split_right = new /\ g.tags[new].split_right = right
      /\ g.tags[new].split_left = t
      /\ \A u \in DOMAIN h.tags :
            /\ u # t => g.tags[u].split_right = h.tags[u].split_right
            /\ g.tags[u].split_left = IF u = right THEN new ELSE h.tags[u].split_left
  BY DEF WasCut
<1>9. Neighbours(g)
  <2>1. ASSUME NEW u \in DOMAIN g.tags, g.tags[u].split_right # NULL
        PROVE  /\ g.tags[u].split_right \in DOMAIN g.tags
               /\ g.tags[u].split_right = EndOf(g, u)
               /\ g.tags[g.tags[u].split_right].split_left = u
    <3>1. CASE u = t
      BY <1>4, <1>5, <1>8, <3>1
    <3>2. CASE u = new
      <4>1. right \in DOMAIN h.tags /\ right = EndOf(h, t)
        BY <1>2, <1>8, <2>1, <3>2 DEF Neighbours
      <4> QED
        BY <1>4, <1>5, <1>8, <3>2, <4>1
    <3>3. CASE u \in DOMAIN h.tags \ {t}
      <4>1. /\ h.tags[u].split_right \in DOMAIN h.tags
            /\ h.tags[u].split_right = EndOf(h, u)
            /\ h.tags[h.tags[u].split_right].split_left = u
        BY <1>2, <1>8, <2>1, <3>3 DEF Neighbours
      <4>2. h.tags[u].split_right # right
        <5>1. right # NULL => h.tags[right].split_left = t
          BY <1>2 DEF Neighbours
        <5> QED
          BY <1>1, <3>3, <4>1, <5>1
      <4> QED
        BY <1>4, <1>5, <1>8, <3>3, <4>1, <4>2
    <3> QED
      BY <1>4, <3>1, <3>2, <3>3
  <2>2. ASSUME NEW u \in DOMAIN g.tags, g.tags[u].split_left # NULL
        PROVE  /\ g.tags[u].split_left \in DOMAIN g.tags
               /\ g.tags[g.tags[u].split_left].split_right = u
    <3>1. CASE u = new
      BY <1>4, <1>8, <3>1
    <3>2. CASE u # new /\ u = right
      BY <1>4, <1>8, <3>2
    <3>3. CASE u # new /\ u # right
      <4>1. /\ h.tags[u].split_left \in DOMAIN h.tags
            /\ h.tags[h.tags[u].split_left].split_right = u
            /\ g.tags[u].split_left = h.tags[u].split_left
        BY <1>2, <1>4, <1>8, <2>2, <3>3 DEF Neighbours
      <4>2. h.tags[u].split_left # t
        BY <3>3, <4>1
      <4> QED
        BY <1>4, <1>8, <4>1, <4>2
    <3> QED
      BY <3>1, <3>2, <3>3
  <2> QED
    BY <2>1, <2>2 DEF Neighbours
<1>10. Blocks(g)
  <2>1. PICK lo, hi \in [DOMAIN h.tags -> Nat] : InBlocks(h, lo, hi)
    BY DEF Geometry, Blocks
  <2> DEFINE lo2 == [u \in DOMAIN g.tags |-> IF u = new THEN lo[t] ELSE lo[u]]
             hi2 == [u \in DOMAIN g.tags |-> IF u = new THEN hi[t] ELSE hi[u]]
  <2>2. lo2 \in [DOMAIN g.tags -> Nat] /\ hi2 \in [DOMAIN g.tags -> Nat]
    BY <1>4
  <2>3. /\ lo2[new] = lo[t] /\ hi2[new] = hi[t]
        /\ \A u \in DOMAIN h.tags : lo2[u] = lo[u] /\ hi2[u] = hi[u]
    BY <1>3, <1>4
  <2> HIDE DEF lo2, hi2
  <2>4. ASSUME NEW u \in DOMAIN g.tags
        PROVE  /\ IsBlock(lo2[u], hi2[u]) /\ lo2[u] <= u /\ EndOf(g, u) <= hi2[u]
               /\ g.tags[u].split_left = NULL => u = lo2[u]
               /\ g.tags[u].split_right = NULL => EndOf(g, u) = hi2[u]
               /\ g.tags[u].split_right # NULL =>
                     /\ lo2[g.tags[u].split_right] = lo2[u]
                     /\ hi2[g.tags[u].split_right] = hi2[u]
    <3>1. /\ IsBlock(lo[t], hi[t]) /\ lo[t] <= t /\ EndOf(h, t) <= hi[t]
          /\ h.tags[t].split_left = NULL => t = lo[t]
          /\ right = NULL => EndOf(h, t) = hi[t]
          /\ right # NULL => lo[right] = lo[t] /\ hi[right] = hi[t]
      BY <2>1 DEF InBlocks
    <3>2. right # NULL => right \in DOMAIN h.tags /\ right = EndOf(h, t)
      BY <1>2 DEF Neighbours
    <3>3. lo[t] \in Nat /\ hi[t] \in Nat /\ t \in Nat /\ EndOf(h, t) \in Nat
      BY <1>1, <2>1
    <3>4. CASE u = t
      <4>1. t # right
        BY <1>1, <1>3, <3>2
      <4>2. g.tags[t].split_left = h.tags[t].split_left
        BY <1>8, <4>1
      <4> QED
        BY <1>1, <1>3, <1>5, <1>8, <2>3, <3>1, <3>3, <3>4, <4>2
    <3>5. CASE u = new
      BY <1>1, <1>3, <1>5, <1>8, <2>3, <3>1, <3>2, <3>3, <3>5
    <3>6. CASE u \in DOMAIN h.tags \ {t}
      <4>1. /\ EndOf(g, u) = EndOf(h, u)
            /\ g.tags[u].split_right = h.tags[u].split_right
            /\ g.tags[u].split_left = NULL => h.tags[u].split_left = NULL
        BY <1>1, <1>3, <1>5, <1>8, <3>6
      <4>2. h.tags[u].split_right # NULL => h.tags[u].split_right \in DOMAIN h.tags
        BY <1>2, <3>6 DEF Neighbours
      <4> QED
        BY <2>1, <2>3, <3>6, <4>1, <4>2 DEF InBlocks
    <3> QED
      BY <1>4, <3>4, <3>5, <3>6
  <2>5. InBlocks(g, lo2, hi2)
    BY <2>4 DEF InBlocks
  <2> QED
    BY <2>2, <2>5 DEF Blocks
<1> QED
  BY <1>6, <1>7, <1>9, <1>10 DEF Geometry

\* What division means, for a positive divisor.
LEMMA Quotient ==
    ASSUME NEW a \in Int, NEW b \in Nat \ {0}
    PROVE  /\ a \div b \in Int
           /\ (a \div b) * b <= a
           /\ a < (a \div b) * b + b
  OBVIOUS

\* A positive factor can be cancelled.
LEMMA Cancel ==
    ASSUME NEW k \in Int, NEW m \in Int, NEW b \in Nat \ {0}, k * b < m * b
    PROVE  k < m
  OBVIOUS

\* Multiples are ordered as the factors are.
LEMMA Multiply ==
    ASSUME NEW k \in Int, NEW m \in Int, NEW b \in Nat \ {0}, k <= m
    PROVE  k * b <= m * b /\ k * b \in Int /\ m * b \in Int /\ (k + 1) * b = k * b + b
  OBVIOUS

\* The pages of a run hold the bytes from its first page to its end.
LEMMA RunBytes ==
    ASSUME NEW a \in Nat, NEW n \in Nat, NEW b \in Nat
    PROVE  InPages(a..a + n - 1, b) <=> a * PageSize <= b /\ b < (a + n) * PageSize
<1>1. PageSize \in Nat \ {0}
  BY HeapAssumption
<1>2. ASSUME NEW p \in a..a + n - 1, p * PageSize <= b, b < p * PageSize + PageSize
      PROVE  a * PageSize <= b /\ b < (a + n) * PageSize
  <2>1. /\ a * PageSize <= p * PageSize /\ a * PageSize \in Int /\ p * PageSize \in Int
        /\ (p + 1) * PageSize = p * PageSize + PageSize
    BY <1>1, Multiply
  <2>2. (p + 1) * PageSize <= (a + n) * PageSize /\ (a + n) * PageSize \in Int
    BY <1>1, Multiply
  <2> QED
    BY <1>1, <1>2, <2>1, <2>2
<1>3. ASSUME a * PageSize <= b, b < (a + n) * PageSize
      PROVE  InPages(a..a + n - 1, b)
  <2> DEFINE p == b \div PageSize
  <2>1. p \in Int /\ p * PageSize <= b /\ b < p * PageSize + PageSize
    BY <1>1, Quotient
  <2> HIDE DEF p
  <2>2. (p + 1) * PageSize = p * PageSize + PageSize
    BY <1>1, <2>1, Multiply
  <2>3. a * PageSize < (p + 1) * PageSize /\ p * PageSize < (a + n) * PageSize
    BY <1>1, <1>3, <2>1, <2>2
  <2>4. a < p + 1 /\ p < a + n
    BY <1>1, <2>1, <2>3, Cancel
  <2> QED
    BY <2>1, <2>4 DEF InPages
<1> QED
  BY <1>2, <1>3 DEF InPages

\* A byte lies in one page.
LEMMA OnePage ==
    ASSUME NEW p \in Nat, NEW q \in Nat, NEW b \in Nat,
           p * PageSize <= b, b < p * PageSize + PageSize,
           q * PageSize <= b, b < q * PageSize + PageSize
    PROVE  p = q
<1>1. PageSize \in Nat \ {0}
  BY HeapAssumption
<1>2. /\ (p + 1) * PageSize = p * PageSize + PageSize /\ p * PageSize \in Int
      /\ (q + 1) * PageSize = q * PageSize + PageSize /\ q * PageSize \in Int
  BY <1>1, Multiply
<1>3. p * PageSize < (q + 1) * PageSize /\ q * PageSize < (p + 1) * PageSize
  BY <1>1, <1>2
<1>4. p < q + 1 /\ q < p + 1
  BY <1>1, <1>3, Cancel
<1> QED
  BY <1>4

\* Where the hook finds n pages, no piece lies.
LEMMA RunIsFree ==
    ASSUME NEW h, NEW pg, IsHeap(h), Geometry(h, pg), pg \subseteq Nat,
           NEW a \in Nat, NEW n \in Nat, (a..a + n - 1) \cap pg = {},
           NEW u \in DOMAIN h.tags
    PROVE  EndOf(h, u) <= a * PageSize \/ (a + n) * PageSize <= u \/ n = 0
<1>1. /\ u \in Nat /\ EndOf(h, u) \in Nat /\ u < EndOf(h, u) /\ TagSize \in Nat
  <2>1. u \in Nat /\ EndOf(h, u) \in Nat /\ TagSize \in Nat /\ h.tags[u].real_size \in Nat
    BY PlaceTypes
  <2>2. h.tags[u].real_size >= TagSize /\ TagSize # 0
    BY HeapAssumption DEF Geometry, Separate
  <2> QED
    BY <2>1, <2>2 DEF EndOf
<1>2. PageSize \in Nat \ {0} /\ a * PageSize \in Nat /\ (a + n) * PageSize \in Nat
  <2>1. PageSize \in Nat \ {0}
    BY HeapAssumption
  <2> QED
    BY <2>1
<1>3. SUFFICES ASSUME a * PageSize < EndOf(h, u), u < (a + n) * PageSize, n # 0
               PROVE  FALSE
  BY <1>1, <1>2
<1>4. \E b \in Nat : /\ u <= b /\ b < EndOf(h, u)
                     /\ a * PageSize <= b /\ b < (a + n) * PageSize
  <2>1. CASE u >= a * PageSize
    BY <1>1, <1>3, <2>1
  <2>2. CASE u < a * PageSize
    <3>1. a * PageSize < (a + n) * PageSize
      <4>1. (a + 1) * PageSize = a * PageSize + PageSize
        BY <1>2, Multiply
      <4>2. (a + 1) * PageSize <= (a + n) * PageSize
        BY <1>2, <1>3, Multiply
      <4> QED
        BY <1>2, <4>1, <4>2
    <3> QED
      BY <1>1, <1>2, <1>3, <2>2, <3>1
  <2> QED
    BY <1>1, <1>2, <2>1, <2>2
<1>5. PICK b \in Nat : /\ u <= b /\ b < EndOf(h, u)
                       /\ a * PageSize <= b /\ b < (a + n) * PageSize
  BY <1>4
<1>6. InPages(pg, b) /\ InPages(a..a + n - 1, b)
  BY <1>5, RunBytes DEF Geometry, Covers
<1>7. PICK p \in pg, q \in a..a + n - 1 :
         /\ p * PageSize <= b /\ b < p * PageSize + PageSize
         /\ q * PageSize <= b /\ b < q * PageSize + PageSize
  BY <1>6 DEF InPages
<1>8. p = q
  BY <1>7, OnePage
<1> QED
  BY <1>7, <1>8

\* So it stays when the hook gives a block.
LEMMA AllocateGeometry ==
    ASSUME NEW h, NEW g, NEW pg, IsHeap(h), Geometry(h, pg), pg \subseteq Nat,
           NEW a \in Nat \ {0}, NEW n \in Nat, n >= PageCount, n * PageSize < 2^MaxExp,
           n * PageSize >= TagSize, (a..a + n - 1) \cap pg = {},
           Enlarged(g, h, a * PageSize, n * PageSize)
    PROVE  Geometry(g, pg \cup (a..a + n - 1))
<1> DEFINE t == a * PageSize
           top == (a + n) * PageSize
<1>1. /\ DOMAIN h.tags \subseteq Nat \ {0}
      /\ \A u \in DOMAIN h.tags :
            /\ h.tags[u].real_size \in Nat /\ EndOf(h, u) \in Nat
            /\ h.tags[u].split_left \in Nat /\ h.tags[u].split_right \in Nat
      /\ TagSize \in Nat \ {0} /\ NULL = 0
  BY PlaceTypes
<1>2. Separate(h) /\ Covers(h, pg) /\ Neighbours(h)
  BY DEF Geometry
<1>3. /\ t \in Nat \ {0} /\ top \in Nat /\ top = t + n * PageSize
      /\ n * PageSize \in Nat /\ n # 0
  <2>1. PageSize \in Nat \ {0} /\ PageCount \in Nat \ {0}
    BY HeapAssumption
  <2> QED
    BY <2>1
<1>4. DOMAIN g.tags = DOMAIN h.tags \cup {t}
  BY DEF Enlarged
<1>5. \A u \in DOMAIN h.tags : EndOf(h, u) <= t \/ top <= u
  BY <1>3, RunIsFree
<1>6. t \notin DOMAIN h.tags
  <2>1. ASSUME t \in DOMAIN h.tags PROVE FALSE
    <3>1. t < EndOf(h, t) /\ t < top
      <4>1. h.tags[t].real_size >= TagSize /\ h.tags[t].real_size \in Nat
        BY <1>1, <1>2, <2>1 DEF Separate
      <4> HIDE DEF t
      <4> QED
        BY <1>1, <1>3, <4>1 DEF EndOf
    <3> HIDE DEF t, top
    <3> QED
      BY <1>1, <1>3, <1>5, <2>1, <3>1
  <2> QED
    BY <2>1
<1>7. /\ EndOf(g, t) = top
      /\ \A u \in DOMAIN h.tags : EndOf(g, u) = EndOf(h, u) /\ g.tags[u] = h.tags[u]
      /\ g.tags[t].real_size = n * PageSize
      /\ g.tags[t].split_left = NULL /\ g.tags[t].split_right = NULL
  BY <1>3 DEF EndOf, Enlarged
<1>8. IsBlock(t, top)
  BY <1>3 DEF IsBlock
<1>9. \A b \in Nat : InPages(a..a + n - 1, b) <=> t <= b /\ b < top
  BY RunBytes
<1> HIDE DEF t, top
<1>10. Separate(g)
  <2>1. \A u \in DOMAIN g.tags : g.tags[u].real_size >= TagSize
    BY <1>2, <1>4, <1>7 DEF Separate
  <2>2. ASSUME NEW u \in DOMAIN g.tags, NEW v \in DOMAIN g.tags, u < v
        PROVE  EndOf(g, u) <= v
    <3>1. CASE u = t
      <4>1. v \in DOMAIN h.tags /\ v \in Nat
        BY <1>1, <1>3, <1>4, <2>2, <3>1
      <4>2. ~(EndOf(h, v) <= t)
        BY <1>1, <1>2, <1>3, <2>2, <3>1, <4>1 DEF EndOf, Separate
      <4> QED
        BY <1>5, <1>7, <3>1, <4>1, <4>2
    <3>2. CASE u # t /\ v = t
      <4>1. u \in DOMAIN h.tags /\ u \in Nat /\ ~(top <= u)
        BY <1>1, <1>3, <1>4, <2>2, <3>2
      <4> QED
        BY <1>5, <1>7, <3>2, <4>1
    <3>3. CASE u # t /\ v # t
      BY <1>2, <1>4, <1>7, <2>2, <3>3 DEF Separate
    <3> QED
      BY <3>1, <3>2, <3>3
  <2> QED
    BY <2>1, <2>2 DEF Separate
<1>11. Covers(g, pg \cup (a..a + n - 1))
  <2>1. ASSUME NEW b \in Nat
        PROVE  InPages(pg \cup (a..a + n - 1), b) <=>
                  \E u \in DOMAIN g.tags : u <= b /\ b < EndOf(g, u)
    <3>1. InPages(pg \cup (a..a + n - 1), b) <=>
             InPages(pg, b) \/ InPages(a..a + n - 1, b)
      BY DEF InPages
    <3>2. InPages(pg, b) <=> \E u \in DOMAIN h.tags : u <= b /\ b < EndOf(h, u)
      BY <1>2 DEF Covers
    <3> QED
      BY <1>4, <1>7, <1>9, <3>1, <3>2
  <2> QED
    BY <2>1 DEF Covers
<1>12. Neighbours(g)
  <2>1. ASSUME NEW u \in DOMAIN g.tags
        PROVE  /\ g.tags[u].split_right # NULL =>
                     /\ g.tags[u].split_right \in DOMAIN g.tags
                     /\ g.tags[u].split_right = EndOf(g, u)
                     /\ g.tags[g.tags[u].split_right].split_left = u
               /\ g.tags[u].split_left # NULL =>
                     /\ g.tags[u].split_left \in DOMAIN g.tags
                     /\ g.tags[g.tags[u].split_left].split_right = u
    <3>1. CASE u = t
      BY <1>7, <3>1
    <3>2. CASE u # t
      BY <1>2, <1>4, <1>7, <3>2 DEF Neighbours
    <3> QED
      BY <3>1, <3>2
  <2> QED
    BY <2>1 DEF Neighbours
<1>13. Blocks(g)
  <2>1. PICK lo, hi \in [DOMAIN h.tags -> Nat] : InBlocks(h, lo, hi)
    BY DEF Geometry, Blocks
  <2> DEFINE lo2 == [u \in DOMAIN g.tags |-> IF u = t THEN t ELSE lo[u]]
             hi2 == [u \in DOMAIN g.tags |-> IF u = t THEN top ELSE hi[u]]
  <2>2. lo2 \in [DOMAIN g.tags -> Nat] /\ hi2 \in [DOMAIN g.tags -> Nat]
    BY <1>3, <1>4
  <2>3. /\ lo2[t] = t /\ hi2[t] = top
        /\ \A u \in DOMAIN h.tags : lo2[u] = lo[u] /\ hi2[u] = hi[u]
    BY <1>4, <1>6
  <2> HIDE DEF lo2, hi2
  <2>4. ASSUME NEW u \in DOMAIN g.tags
        PROVE  /\ IsBlock(lo2[u], hi2[u]) /\ lo2[u] <= u /\ EndOf(g, u) <= hi2[u]
               /\ g.tags[u].split_left = NULL => u = lo2[u]
               /\ g.tags[u].split_right = NULL => EndOf(g, u) = hi2[u]
               /\ g.tags[u].split_right # NULL =>
                     /\ lo2[g.tags[u].split_right] = lo2[u]
                     /\ hi2[g.tags[u].split_right] = hi2[u]
    <3>1. CASE u = t
      BY <1>3, <1>7, <1>8, <2>3, <3>1
    <3>2. CASE u # t
      <4>1. u \in DOMAIN h.tags /\ g.tags[u] = h.tags[u] /\ EndOf(g, u) = EndOf(h, u)
        BY <1>4, <1>7, <3>2
      <4>2. h.tags[u].split_right # NULL => h.tags[u].split_right \in DOMAIN h.tags
        BY <1>2, <4>1 DEF Neighbours
      <4> QED
        BY <2>1, <2>3, <4>1, <4>2 DEF InBlocks
    <3> QED
      BY <3>1, <3>2
  <2>5. InBlocks(g, lo2, hi2)
    BY <2>4 DEF InBlocks
  <2> QED
    BY <2>2, <2>5 DEF Blocks
<1> QED
  BY <1>10, <1>11, <1>12, <1>13 DEF Geometry

\* A piece without neighbours is a block, and free gives back its pages.
LEMMA WholeBlock ==
    ASSUME NEW h, NEW pg, IsHeap(h), Geometry(h, pg), NEW t \in DOMAIN h.tags,
           h.tags[t].split_left = NULL, h.tags[t].split_right = NULL
    PROVE  \E a, n \in Nat : /\ t = a * PageSize /\ EndOf(h, t) = (a + n) * PageSize
                             /\ t \div PageSize = a /\ PagesBack(h.tags[t]) = n
<1>1. PICK lo, hi \in [DOMAIN h.tags -> Nat] : InBlocks(h, lo, hi)
  BY DEF Geometry, Blocks
<1>2. t = lo[t] /\ EndOf(h, t) = hi[t] /\ IsBlock(lo[t], hi[t])
  BY <1>1 DEF InBlocks
<1>3. PICK a, n \in Nat : /\ t = a * PageSize /\ EndOf(h, t) = (a + n) * PageSize
                          /\ n >= PageCount
  BY <1>2 DEF IsBlock
<1>4. PageSize \in Nat \ {0} /\ PageCount \in Nat \ {0} /\ h.tags[t].real_size \in Nat
  BY HeapAssumption, PlaceTypes
<1>5. h.tags[t].real_size = n * PageSize
  <2> DEFINE m == h.tags[t].real_size
  <2>1. t + m = (a + n) * PageSize /\ m \in Nat
    BY <1>3, <1>4 DEF EndOf
  <2> HIDE DEF m
  <2>2. m = n * PageSize
    BY <1>3, <1>4, <2>1
  <2> QED
    BY <2>2 DEF m
<1>6. \A k \in Nat : (k * PageSize) \div PageSize = k /\ (k * PageSize) % PageSize = 0
  BY <1>4
<1>7. PagesBack(h.tags[t]) = n
  <2> DEFINE m == h.tags[t].real_size
  <2>1. m \div PageSize = n /\ m % PageSize = 0
    BY <1>5, <1>6
  <2> HIDE DEF m
  <2> QED
    BY <1>3, <1>4, <2>1 DEF PagesBack, m
<1> QED
  BY <1>3, <1>6, <1>7

\* So it stays when a block goes back.
LEMMA DropGeometry ==
    ASSUME NEW h, NEW g, NEW pg, IsHeap(h), Geometry(h, pg), pg \subseteq Nat,
           NEW t \in DOMAIN h.tags, NEW a \in Nat, NEW n \in Nat,
           h.tags[t].split_left = NULL, h.tags[t].split_right = NULL,
           t = a * PageSize, EndOf(h, t) = (a + n) * PageSize,
           DOMAIN g.tags = DOMAIN h.tags \ {t},
           \A u \in DOMAIN h.tags \ {t} : g.tags[u] = h.tags[u]
    PROVE  Geometry(g, pg \ (a..a + n - 1))
<1>1. /\ DOMAIN h.tags \subseteq Nat \ {0}
      /\ \A u \in DOMAIN h.tags :
            /\ h.tags[u].real_size \in Nat /\ EndOf(h, u) \in Nat
            /\ h.tags[u].split_left \in Nat /\ h.tags[u].split_right \in Nat
      /\ TagSize \in Nat \ {0} /\ NULL = 0
  BY PlaceTypes
<1>2. Separate(h) /\ Covers(h, pg) /\ Neighbours(h)
  BY DEF Geometry
<1>3. \A u \in DOMAIN g.tags : EndOf(g, u) = EndOf(h, u)
  BY DEF EndOf
<1>4. Separate(g)
  BY <1>2, <1>3 DEF Separate
<1>5. \A b \in Nat : InPages(a..a + n - 1, b) <=> t <= b /\ b < EndOf(h, t)
  BY RunBytes
<1>6. Covers(g, pg \ (a..a + n - 1))
  <2>1. ASSUME NEW b \in Nat
        PROVE  InPages(pg \ (a..a + n - 1), b) <=>
                  \E u \in DOMAIN g.tags : u <= b /\ b < EndOf(g, u)
    <3>1. InPages(pg \ (a..a + n - 1), b) <=>
             InPages(pg, b) /\ ~InPages(a..a + n - 1, b)
      <4>1. ASSUME InPages(pg \ (a..a + n - 1), b)
            PROVE  InPages(pg, b) /\ ~InPages(a..a + n - 1, b)
        <5>1. PICK p \in pg \ (a..a + n - 1) :
                 p * PageSize <= b /\ b < p * PageSize + PageSize
          BY <4>1 DEF InPages
        <5>2. ASSUME NEW q \in a..a + n - 1,
                     q * PageSize <= b, b < q * PageSize + PageSize
              PROVE  FALSE
          <6>1. p = q
            BY <5>1, <5>2, OnePage
          <6> QED
            BY <5>1, <6>1
        <5> QED
          BY <5>1, <5>2 DEF InPages
      <4>2. ASSUME InPages(pg, b), ~InPages(a..a + n - 1, b)
            PROVE  InPages(pg \ (a..a + n - 1), b)
        BY <4>2 DEF InPages
      <4> QED
        BY <4>1, <4>2
    <3>2. InPages(pg, b) <=> \E u \in DOMAIN h.tags : u <= b /\ b < EndOf(h, u)
      BY <1>2 DEF Covers
    <3>3. ASSUME NEW u \in DOMAIN g.tags, u <= b, b < EndOf(g, u), t <= b, b < EndOf(h, t)
          PROVE  FALSE
      <4>1. u \in DOMAIN h.tags /\ u # t /\ EndOf(g, u) = EndOf(h, u)
        BY <1>3
      <4>2. u < t \/ t < u
        BY <1>1, <4>1
      <4>3. EndOf(h, u) <= t \/ EndOf(h, t) <= u
        BY <1>2, <4>1, <4>2 DEF Separate
      <4>4. u \in Nat /\ t \in Nat /\ EndOf(h, u) \in Nat /\ EndOf(h, t) \in Nat
        BY <1>1, <4>1
      <4> HIDE DEF EndOf
      <4> QED
        BY <3>3, <4>1, <4>3, <4>4
    <3>4. (\E u \in DOMAIN g.tags : u <= b /\ b < EndOf(g, u)) <=>
             /\ \E u \in DOMAIN h.tags : u <= b /\ b < EndOf(h, u)
             /\ ~(t <= b /\ b < EndOf(h, t))
      BY <1>3, <3>3
    <3> QED
      BY <1>5, <3>1, <3>2, <3>4
  <2> QED
    BY <2>1 DEF Covers
<1>7. \A u \in DOMAIN g.tags : g.tags[u].split_right # t /\ g.tags[u].split_left # t
  BY <1>1, <1>2 DEF Neighbours
<1>8. Neighbours(g)
  BY <1>2, <1>3, <1>7 DEF Neighbours
<1>9. Blocks(g)
  <2>1. PICK lo, hi \in [DOMAIN h.tags -> Nat] : InBlocks(h, lo, hi)
    BY DEF Geometry, Blocks
  <2> DEFINE lo2 == [u \in DOMAIN g.tags |-> lo[u]]
             hi2 == [u \in DOMAIN g.tags |-> hi[u]]
  <2>2. lo2 \in [DOMAIN g.tags -> Nat] /\ hi2 \in [DOMAIN g.tags -> Nat]
    OBVIOUS
  <2>3. \A u \in DOMAIN g.tags : lo2[u] = lo[u] /\ hi2[u] = hi[u]
    OBVIOUS
  <2> HIDE DEF lo2, hi2
  <2>4. InBlocks(g, lo2, hi2)
    BY <1>3, <1>8, <2>1, <2>3 DEF InBlocks, Neighbours
  <2> QED
    BY <2>2, <2>4 DEF Blocks
<1> QED
  BY <1>4, <1>6, <1>8, <1>9 DEF Geometry

-----------------------------------------------------------------------------
(* The free lists.  B is the set of tags that are in none: callers have     *)
(* them, or a call is at work on them.                                      *)

Linking(h, B) ==
    /\ \A t \in B : h.tags[t].index = -1 /\ h.tags[t].next = NULL /\ h.tags[t].prev = NULL
    /\ \A t \in DOMAIN h.tags \ B :
          /\ h.tags[t].index \in Exponents
          /\ h.tags[t].next # NULL =>
                /\ h.tags[t].next \in DOMAIN h.tags \ B
                /\ h.tags[h.tags[t].next].index = h.tags[t].index
                /\ h.tags[h.tags[t].next].prev = t
          /\ h.tags[t].prev # NULL =>
                /\ h.tags[t].prev \in DOMAIN h.tags \ B
                /\ h.tags[h.tags[t].prev].next = t
          /\ h.tags[t].prev = NULL => h.freePages[h.tags[t].index] = t
    /\ \A e \in Exponents :
          h.freePages[e] # NULL =>
             /\ h.freePages[e] \in DOMAIN h.tags \ B
             /\ h.tags[h.freePages[e]].index = e
             /\ h.tags[h.freePages[e]].prev = NULL

\* Following next leads to lower and lower ranks, so it comes to an end.
Descends(h, B, rank) ==
    \A t \in DOMAIN h.tags \ B :
        h.tags[t].next # NULL => rank[h.tags[t].next] < rank[t]

Ranked(h, B) == \E rank \in [DOMAIN h.tags -> Nat] : Descends(h, B, rank)

Lists(h, B) == Linking(h, B) /\ Ranked(h, B)

\* Heaps that agree in the tags of their lists.
LEMMA SameLists ==
    ASSUME NEW h, NEW g, NEW B, NEW C, Lists(h, B),
           DOMAIN g.tags \ C = DOMAIN h.tags \ B, g.freePages = h.freePages,
           \A u \in DOMAIN h.tags \ B :
              /\ g.tags[u].index = h.tags[u].index
              /\ g.tags[u].next = h.tags[u].next /\ g.tags[u].prev = h.tags[u].prev,
           \A u \in C :
              g.tags[u].index = -1 /\ g.tags[u].next = NULL /\ g.tags[u].prev = NULL
    PROVE  Lists(g, C)
<1>1. Linking(g, C)
  BY DEF Lists, Linking
<1>2. Ranked(g, C)
  <2>1. PICK rank \in [DOMAIN h.tags -> Nat] : Descends(h, B, rank)
    BY DEF Lists, Ranked
  <2> DEFINE r2 == [u \in DOMAIN g.tags |-> IF u \in DOMAIN h.tags THEN rank[u] ELSE 0]
  <2>2. r2 \in [DOMAIN g.tags -> Nat]
    OBVIOUS
  <2>3. \A u \in DOMAIN h.tags \ B : r2[u] = rank[u]
    OBVIOUS
  <2> HIDE DEF r2
  <2>4. Descends(g, C, r2)
    BY <2>1, <2>3 DEF Descends, Lists, Linking
  <2> QED
    BY <2>2, <2>4 DEF Ranked
<1> QED
  BY <1>1, <1>2 DEF Lists

\* remove_tag takes a tag out of its list.
LEMMA RemoveLists ==
    ASSUME NEW h, NEW g, NEW B \in SUBSET DOMAIN h.tags, IsHeap(h), Lists(h, B),
           NEW t \in DOMAIN h.tags \ B, Removed(g, h, t)
    PROVE  Lists(g, B \cup {t})
<1> DEFINE F == DOMAIN h.tags \ B
           n == h.tags[t].next
           p == h.tags[t].prev
           C == B \cup {t}
<1>1. /\ DOMAIN h.tags \subseteq Nat \ {0} /\ NULL = 0
      /\ n \in Nat /\ p \in Nat
  BY DEF IsHeap, IsTag, NULL
<1>2. /\ DOMAIN g.tags = DOMAIN h.tags
      /\ g.tags[t].next = NULL /\ g.tags[t].prev = NULL /\ g.tags[t].index = -1
      /\ \A u \in DOMAIN h.tags \ {t} :
            /\ g.tags[u].next = IF u = p THEN n ELSE h.tags[u].next
            /\ g.tags[u].prev = IF u = n THEN p ELSE h.tags[u].prev
            /\ g.tags[u].index = h.tags[u].index
      /\ \A e \in Exponents :
            g.freePages[e] = IF e = h.tags[t].index /\ h.freePages[e] = t
                             THEN n ELSE h.freePages[e]
  BY DEF Removed
<1>3. PICK rank \in [DOMAIN h.tags -> Nat] : Descends(h, B, rank)
  BY DEF Lists, Ranked
<1>4. /\ h.tags[t].index \in Exponents
      /\ n # NULL => n \in F /\ h.tags[n].index = h.tags[t].index /\ h.tags[n].prev = t
      /\ p # NULL => p \in F /\ h.tags[p].next = t
      /\ p = NULL => h.freePages[h.tags[t].index] = t
  BY DEF Lists, Linking
<1>5. p # NULL => h.tags[p].index = h.tags[t].index
  BY <1>1, <1>4 DEF Lists, Linking
<1>6. n # t /\ p # t
  <2>1. n # NULL => rank[n] < rank[t]
    BY <1>3 DEF Descends
  <2>2. rank[t] \in Nat
    BY <1>3
  <2>3. n # t
    BY <1>1, <2>1, <2>2
  <2> QED
    BY <1>1, <1>4, <2>3
<1>7. n = p => n = NULL
  <2>1. ASSUME n = p, n # NULL PROVE FALSE
    <3>1. rank[n] < rank[t] /\ rank[t] < rank[p]
      BY <1>3, <1>4, <1>1, <2>1 DEF Descends
    <3>2. rank[t] \in Nat /\ rank[n] \in Nat
      BY <1>3, <1>4, <2>1
    <3> QED
      BY <2>1, <3>1, <3>2
  <2> QED
    BY <2>1
<1>8. \A u \in B : g.tags[u].index = -1 /\ g.tags[u].next = NULL /\ g.tags[u].prev = NULL
  <2>1. \A u \in B : u \in DOMAIN h.tags \ {t} /\ u # p /\ u # n
    BY <1>1, <1>4
  <2> QED
    BY <1>2, <2>1 DEF Lists, Linking
<1>9. \A u \in C : g.tags[u].index = -1 /\ g.tags[u].next = NULL /\ g.tags[u].prev = NULL
  BY <1>2, <1>8
<1>10. ASSUME NEW u \in DOMAIN g.tags \ C
       PROVE  /\ g.tags[u].index \in Exponents
              /\ g.tags[u].next # NULL =>
                    /\ g.tags[u].next \in DOMAIN g.tags \ C
                    /\ g.tags[g.tags[u].next].index = g.tags[u].index
                    /\ g.tags[g.tags[u].next].prev = u
              /\ g.tags[u].prev # NULL =>
                    /\ g.tags[u].prev \in DOMAIN g.tags \ C
                    /\ g.tags[g.tags[u].prev].next = u
              /\ g.tags[u].prev = NULL => g.freePages[g.tags[u].index] = u
  <2> DEFINE m == h.tags[u].next
             q == h.tags[u].prev
  <2>1. /\ u \in F /\ u # t /\ u \in Nat \ {0}
        /\ h.tags[u].index \in Exponents /\ g.tags[u].index = h.tags[u].index
        /\ m # NULL => m \in F /\ h.tags[m].index = h.tags[u].index /\ h.tags[m].prev = u
        /\ q # NULL => q \in F /\ h.tags[q].next = u
        /\ q = NULL => h.freePages[h.tags[u].index] = u
        /\ g.tags[u].next = IF u = p THEN n ELSE m
        /\ g.tags[u].prev = IF u = n THEN p ELSE q
    BY <1>1, <1>2 DEF Lists, Linking
  <2>2. m = t <=> u = p
    BY <1>1, <1>4, <2>1
  <2>3. q = t <=> u = n
    BY <1>1, <1>4, <2>1
  <2>4. \A v \in F : v # t => v \in DOMAIN g.tags \ C /\ v \in DOMAIN h.tags \ {t}
    BY <1>2
  <2> HIDE DEF n, p, m, q, C, F
  <2>5. ASSUME g.tags[u].next # NULL
        PROVE  /\ g.tags[u].next \in DOMAIN g.tags \ C
               /\ g.tags[g.tags[u].next].index = g.tags[u].index
               /\ g.tags[g.tags[u].next].prev = u
    <3>1. CASE u = p
      <4>1. g.tags[u].next = n /\ n \in F /\ n # t
        BY <1>4, <1>6, <2>1, <2>5, <3>1
      <4>2. g.tags[n].prev = p /\ g.tags[n].index = h.tags[n].index
        BY <1>2, <2>4, <4>1
      <4> QED
        BY <1>1, <1>4, <1>5, <2>1, <2>4, <2>5, <3>1, <4>1, <4>2
    <3>2. CASE u # p
      <4>1. g.tags[u].next = m /\ m \in F /\ m # t /\ h.tags[m].prev = u
        BY <2>1, <2>2, <2>5, <3>2
      <4>2. m # n
        BY <1>4, <2>1, <4>1, <2>5
      <4>3. g.tags[m].prev = h.tags[m].prev /\ g.tags[m].index = h.tags[m].index
        BY <1>2, <2>4, <4>1, <4>2
      <4> QED
        BY <2>1, <2>4, <2>5, <4>1, <4>3
    <3> QED
      BY <3>1, <3>2
  <2>6. ASSUME g.tags[u].prev # NULL
        PROVE  g.tags[u].prev \in DOMAIN g.tags \ C /\ g.tags[g.tags[u].prev].next = u
    <3>1. CASE u = n
      <4>1. g.tags[u].prev = p /\ p \in F /\ p # t
        BY <1>4, <1>6, <2>1, <2>6, <3>1
      <4>2. g.tags[p].next = n
        BY <1>2, <2>4, <4>1
      <4> QED
        BY <2>4, <3>1, <4>1, <4>2
    <3>2. CASE u # n
      <4>1. g.tags[u].prev = q /\ q \in F /\ q # t /\ h.tags[q].next = u
        BY <2>1, <2>3, <2>6, <3>2
      <4>2. q # p
        BY <1>4, <2>1, <2>6, <4>1
      <4>3. g.tags[q].next = h.tags[q].next
        BY <1>2, <2>4, <4>1, <4>2
      <4> QED
        BY <2>4, <4>1, <4>3
    <3> QED
      BY <3>1, <3>2
  <2>7. ASSUME g.tags[u].prev = NULL
        PROVE  g.freePages[g.tags[u].index] = u
    <3>1. CASE u = n
      BY <1>1, <1>2, <1>4, <2>1, <2>7, <3>1
    <3>2. CASE u # n
      BY <1>2, <2>1, <2>7, <3>2
    <3> QED
      BY <3>1, <3>2
  <2> QED
    BY <2>1, <2>5, <2>6, <2>7
<1>11. ASSUME NEW e \in Exponents, g.freePages[e] # NULL
       PROVE  /\ g.freePages[e] \in DOMAIN g.tags \ C
              /\ g.tags[g.freePages[e]].index = e
              /\ g.tags[g.freePages[e]].prev = NULL
  <2> DEFINE f == h.freePages[e]
  <2>1. f # NULL => f \in F /\ h.tags[f].index = e /\ h.tags[f].prev = NULL
    BY DEF Lists, Linking
  <2>2. \A v \in F : v # t => v \in DOMAIN g.tags \ C /\ v \in DOMAIN h.tags \ {t}
    BY <1>2
  <2>3. g.freePages[e] = IF e = h.tags[t].index /\ f = t THEN n ELSE f
    BY <1>2
  <2> HIDE DEF n, p, f, C, F
  <2>4. CASE f = t
    <3>1. e = h.tags[t].index /\ p = NULL
      BY <1>1, <2>1, <2>4 DEF F, p
    <3>2. g.freePages[e] = n /\ n \in F /\ n # t
      BY <1>4, <1>6, <1>11, <2>3, <2>4, <3>1
    <3>3. g.tags[n].prev = p /\ g.tags[n].index = h.tags[n].index
      BY <1>2, <2>2, <3>2
    <3> QED
      BY <1>4, <1>11, <2>2, <3>1, <3>2, <3>3
  <2>5. CASE f # t
    <3>1. g.freePages[e] = f /\ f \in F
      BY <1>11, <2>1, <2>3, <2>5
    <3>2. f # n
      BY <1>1, <1>4, <1>11, <2>1, <3>1 DEF F
    <3>3. g.tags[f].prev = h.tags[f].prev /\ g.tags[f].index = h.tags[f].index
      BY <1>2, <2>2, <2>5, <3>1, <3>2
    <3> QED
      BY <1>11, <2>1, <2>2, <2>5, <3>1, <3>3
  <2> QED
    BY <2>4, <2>5
<1>12. Linking(g, C)
  BY <1>9, <1>10, <1>11 DEF Linking
<1>13. Descends(g, C, rank)
  <2>1. ASSUME NEW u \in DOMAIN g.tags \ C, g.tags[u].next # NULL
        PROVE  rank[g.tags[u].next] < rank[u]
    <3>1. CASE u = p
      <4>1. rank[n] < rank[t] /\ rank[t] < rank[p] /\ g.tags[u].next = n
        BY <1>1, <1>2, <1>3, <1>4, <2>1, <3>1 DEF Descends
      <4>2. rank[n] \in Nat /\ rank[t] \in Nat /\ rank[p] \in Nat
        BY <1>2, <1>3, <1>4, <2>1, <3>1, <4>1
      <4> QED
        BY <3>1, <4>1, <4>2
    <3>2. CASE u # p
      BY <1>2, <1>3, <2>1, <3>2 DEF Descends
    <3> QED
      BY <3>1, <3>2
  <2> QED
    BY <2>1 DEF Descends
<1> QED
  BY <1>2, <1>3, <1>12, <1>13 DEF Lists, Ranked

\* insert_tag puts a tag in front of a list.
LEMMA InsertLists ==
    ASSUME NEW h, NEW g, NEW B \in SUBSET DOMAIN h.tags, IsHeap(h), Lists(h, B),
           NEW t \in B, NEW i \in Exponents, Inserted(g, h, t, i)
    PROVE  Lists(g, B \ {t})
<1> DEFINE F == DOMAIN h.tags \ B
           f == h.freePages[i]
           C == B \ {t}
<1>1. /\ DOMAIN h.tags \subseteq Nat \ {0} /\ NULL = 0 /\ f \in Nat
      /\ t \in DOMAIN h.tags /\ t \notin F
  BY DEF IsHeap, NULL
<1>2. /\ DOMAIN g.tags = DOMAIN h.tags
      /\ \A u \in DOMAIN h.tags :
            /\ g.tags[u].next = IF u = t /\ f # NULL THEN f ELSE h.tags[u].next
            /\ g.tags[u].prev = IF u = f THEN t ELSE h.tags[u].prev
            /\ g.tags[u].index = IF u = t THEN i ELSE h.tags[u].index
      /\ \A e \in Exponents : g.freePages[e] = IF e = i THEN t ELSE h.freePages[e]
  BY DEF Inserted
<1>3. h.tags[t].index = -1 /\ h.tags[t].next = NULL /\ h.tags[t].prev = NULL
  BY DEF Lists, Linking
<1>4. f # NULL => f \in F /\ h.tags[f].index = i /\ h.tags[f].prev = NULL
  BY DEF Lists, Linking
<1>5. f # t /\ f \notin B
  BY <1>1, <1>4
<1>6. g.tags[t].next = f /\ g.tags[t].prev = NULL /\ g.tags[t].index = i
  BY <1>1, <1>2, <1>3, <1>5
<1>7. DOMAIN g.tags \ C = F \cup {t}
  BY <1>1, <1>2
<1>8. \A u \in C : g.tags[u].index = -1 /\ g.tags[u].next = NULL /\ g.tags[u].prev = NULL
  BY <1>2, <1>5 DEF Lists, Linking
<1>9. ASSUME NEW u \in DOMAIN g.tags \ C
      PROVE  /\ g.tags[u].index \in Exponents
             /\ g.tags[u].next # NULL =>
                   /\ g.tags[u].next \in DOMAIN g.tags \ C
                   /\ g.tags[g.tags[u].next].index = g.tags[u].index
                   /\ g.tags[g.tags[u].next].prev = u
             /\ g.tags[u].prev # NULL =>
                   /\ g.tags[u].prev \in DOMAIN g.tags \ C
                   /\ g.tags[g.tags[u].prev].next = u
             /\ g.tags[u].prev = NULL => g.freePages[g.tags[u].index] = u
  <2>1. CASE u = t
    <3>1. f # NULL => g.tags[f].prev = t /\ g.tags[f].index = i
      BY <1>2, <1>4, <1>5
    <3> QED
      BY <1>2, <1>4, <1>6, <1>7, <2>1, <3>1
  <2>2. CASE u # t
    <3> DEFINE m == h.tags[u].next
               q == h.tags[u].prev
    <3>1. /\ u \in F /\ u \in DOMAIN h.tags /\ u # NULL
          /\ h.tags[u].index \in Exponents
          /\ m # NULL => m \in F /\ h.tags[m].index = h.tags[u].index /\ h.tags[m].prev = u
          /\ q # NULL => q \in F /\ h.tags[q].next = u
          /\ q = NULL => h.freePages[h.tags[u].index] = u
      BY <1>1, <1>7, <2>2 DEF Lists, Linking
    <3>2. /\ g.tags[u].index = h.tags[u].index /\ g.tags[u].next = m
          /\ g.tags[u].prev = IF u = f THEN t ELSE q
      BY <1>2, <2>2, <3>1
    <3>3. F \subseteq DOMAIN h.tags /\ t \in DOMAIN g.tags \ C
      BY <1>1, <1>7
    <3> HIDE DEF f, m, q, F, C
    <3>4. ASSUME m # NULL
          PROVE  /\ m \in DOMAIN g.tags \ C
                 /\ g.tags[m].index = g.tags[u].index /\ g.tags[m].prev = u
      <4>1. m # f /\ m # t
        BY <1>1, <1>4, <3>1, <3>4
      <4> QED
        BY <1>2, <1>7, <3>1, <3>2, <3>3, <3>4, <4>1
    <3>5. ASSUME g.tags[u].prev # NULL
          PROVE  /\ g.tags[u].prev \in DOMAIN g.tags \ C
                 /\ g.tags[g.tags[u].prev].next = u
      <4>1. CASE u = f
        BY <1>6, <3>2, <3>3, <4>1
      <4>2. CASE u # f
        <5>1. g.tags[u].prev = q /\ q \in F /\ q # t
          BY <1>1, <3>1, <3>2, <3>5, <4>2
        <5> QED
          BY <1>2, <1>7, <3>1, <3>3, <3>5, <5>1
      <4> QED
        BY <4>1, <4>2
    <3>6. ASSUME g.tags[u].prev = NULL
          PROVE  g.freePages[g.tags[u].index] = u
      <4>1. u # f /\ q = NULL
        BY <1>1, <3>2, <3>6
      <4>2. h.tags[u].index # i
        BY <3>1, <4>1 DEF f
      <4> QED
        BY <1>2, <3>1, <3>2, <4>1, <4>2
    <3> QED
      BY <3>1, <3>2, <3>4, <3>5, <3>6
  <2> QED
    BY <2>1, <2>2
<1>10. ASSUME NEW e \in Exponents, g.freePages[e] # NULL
       PROVE  /\ g.freePages[e] \in DOMAIN g.tags \ C
              /\ g.tags[g.freePages[e]].index = e
              /\ g.tags[g.freePages[e]].prev = NULL
  <2>1. CASE e = i
    BY <1>2, <1>6, <1>7, <2>1
  <2>2. CASE e # i
    <3> DEFINE d == h.freePages[e]
    <3>1. g.freePages[e] = d /\ d \in F /\ h.tags[d].index = e /\ h.tags[d].prev = NULL
      BY <1>2, <1>10, <2>2 DEF Lists, Linking
    <3>2. d # f /\ d # t /\ d \in DOMAIN h.tags
      BY <1>1, <1>4, <2>2, <3>1
    <3> HIDE DEF d, f
    <3> QED
      BY <1>2, <1>7, <3>1, <3>2
  <2> QED
    BY <2>1, <2>2
<1>11. Linking(g, C)
  BY <1>8, <1>9, <1>10 DEF Linking
<1>12. PICK rank \in [DOMAIN h.tags -> Nat] : Descends(h, B, rank)
  BY DEF Lists, Ranked
<1> DEFINE high == IF f = NULL THEN 0 ELSE rank[f] + 1
           r2 == [u \in DOMAIN g.tags |-> IF u = t THEN high ELSE rank[u]]
<1>13. high \in Nat /\ (f # NULL => rank[f] < high)
  BY <1>4, <1>12
<1>14. r2 \in [DOMAIN g.tags -> Nat]
  BY <1>2, <1>12, <1>13
<1>15. r2[t] = high /\ \A u \in F : r2[u] = rank[u]
  BY <1>1, <1>2
<1> HIDE DEF high, r2
<1>16. Descends(g, C, r2)
  <2>1. ASSUME NEW u \in DOMAIN g.tags \ C, g.tags[u].next # NULL
        PROVE  r2[g.tags[u].next] < r2[u]
    <3>1. CASE u = t
      BY <1>4, <1>6, <1>13, <1>15, <2>1, <3>1
    <3>2. CASE u # t
      <4>1. u \in F /\ g.tags[u].next = h.tags[u].next
        BY <1>2, <1>7, <2>1, <3>2
      <4>2. h.tags[u].next \in F
        BY <2>1, <4>1 DEF Lists, Linking
      <4> QED
        BY <1>12, <1>15, <2>1, <4>1, <4>2 DEF Descends
    <3> QED
      BY <3>1, <3>2
  <2> QED
    BY <2>1 DEF Descends
<1> QED
  BY <1>11, <1>14, <1>16 DEF Lists, Ranked

-----------------------------------------------------------------------------
(* Numbers and loops.                                                      *)

\* A set of natural numbers that is not empty has a least element.
LEMMA LeastNumber ==
    ASSUME NEW T \in SUBSET Nat, T # {}
    PROVE  \E x \in T : \A y \in T : x <= y
<1>1. \E x \in T : \A y \in T : <<y, x>> \notin OpToRel(<, Nat)
  BY NatLessThanWellFounded, WFMin
<1>2. \A x, y \in Nat : <<y, x>> \notin OpToRel(<, Nat) => x <= y
  BY DEF OpToRel
<1> QED
  BY <1>1, <1>2, Zenon

\* The function f is what the first m rounds of a loop do.
Rounds(S, start, step, m, f) ==
    /\ f \in [0..m -> S] /\ f[0] = start
    /\ \A i \in 1..m : f[i] = step[f[i - 1]]

\* There is one for every number of rounds.
LEMMA RoundsExist ==
    ASSUME NEW S, NEW start \in S, NEW step \in [S -> S], NEW n \in Nat
    PROVE  \E f : Rounds(S, start, step, n, f)
<1> DEFINE T == {m \in Nat : ~\E f : Rounds(S, start, step, m, f)}
<1>1. 0 \notin T
  <2>1. Rounds(S, start, step, 0, [i \in 0..0 |-> start])
    BY DEF Rounds
  <2> QED
    BY <2>1
<1>2. ASSUME NEW m \in Nat, m # 0, NEW f, Rounds(S, start, step, m - 1, f)
      PROVE  m \notin T
  <2> DEFINE x == step[f[m - 1]]
             g == [i \in 0..m |-> IF i < m THEN f[i] ELSE x]
  <2>1. /\ f \in [0..m - 1 -> S] /\ f[0] = start
        /\ \A i \in 1..m - 1 : f[i] = step[f[i - 1]]
    BY <1>2 DEF Rounds
  <2>2. x \in S
    BY <1>2, <2>1
  <2> HIDE DEF x
  <2>3. g \in [0..m -> S] /\ g[0] = start
    BY <1>2, <2>1, <2>2
  <2>4. ASSUME NEW i \in 1..m
        PROVE  g[i] = step[g[i - 1]]
    <3>1. CASE i < m
      BY <2>1, <3>1
    <3>2. CASE i = m
      BY <2>1, <3>2 DEF x
    <3> QED
      BY <3>1, <3>2
  <2> HIDE DEF g
  <2>5. Rounds(S, start, step, m, g)
    BY <2>3, <2>4 DEF Rounds
  <2> QED
    BY <2>5
<1>3. T = {}
  <2> SUFFICES ASSUME T # {} PROVE FALSE
    OBVIOUS
  <2>1. T \in SUBSET Nat
    OBVIOUS
  <2>2. PICK m \in T : \A y \in T : m <= y
    BY <2>1, LeastNumber
  <2>3. m \in Nat /\ m # 0
    BY <1>1, <2>2
  <2>4. m - 1 \notin T /\ m - 1 \in Nat
    BY <2>2, <2>3
  <2> QED
    BY <1>2, <2>2, <2>3, <2>4
<1> QED
  BY <1>3

\* They agree.
LEMMA RoundsAgree ==
    ASSUME NEW S, NEW start, NEW step, NEW m \in Nat, NEW k \in Nat, NEW f, NEW g,
           Rounds(S, start, step, m, f), Rounds(S, start, step, k, g),
           NEW n \in Nat, n <= m, n <= k
    PROVE  f[n] = g[n]
<1> DEFINE T == {i \in 0..n : f[i] # g[i]}
<1>1. T = {}
  <2> SUFFICES ASSUME T # {} PROVE FALSE
    OBVIOUS
  <2>1. T \in SUBSET Nat
    OBVIOUS
  <2>2. PICK i \in T : \A y \in T : i <= y
    BY <2>1, LeastNumber
  <2>3. i \in 0..n /\ i # 0
    BY <2>2 DEF Rounds
  <2>4. f[i - 1] = g[i - 1]
    BY <2>2, <2>3
  <2>5. f[i] = step[f[i - 1]] /\ g[i] = step[g[i - 1]]
    BY <2>3 DEF Rounds
  <2> QED
    BY <2>2, <2>4, <2>5
<1> QED
  BY <1>1

\* A loop that goes on for ever is a function of the number of rounds.
LEMMA Loop ==
    ASSUME NEW S, NEW start \in S, NEW step \in [S -> S]
    PROVE  \E f \in [Nat -> S] :
              f[0] = start /\ \A n \in Nat \ {0} : f[n] = step[f[n - 1]]
<1> DEFINE G == [m \in Nat |-> CHOOSE f : Rounds(S, start, step, m, f)]
           F == [n \in Nat |-> G[n][n]]
<1>1. \A m \in Nat : Rounds(S, start, step, m, G[m])
  BY RoundsExist
<1> HIDE DEF G
<1>2. ASSUME NEW n \in Nat
      PROVE  F[n] \in S
  BY <1>1 DEF Rounds
<1>3. F[0] = start
  BY <1>1 DEF Rounds
<1>4. ASSUME NEW n \in Nat \ {0}
      PROVE  F[n] = step[F[n - 1]]
  <2>1. G[n][n] = step[G[n][n - 1]]
    BY <1>1 DEF Rounds
  <2>2. G[n][n - 1] = G[n - 1][n - 1]
    <3> DEFINE k == n - 1
               f == G[n]
               g == G[k]
    <3>1. /\ k \in Nat /\ n \in Nat /\ k <= n /\ k <= k
          /\ Rounds(S, start, step, n, f) /\ Rounds(S, start, step, k, g)
      BY <1>1
    <3> HIDE DEF k, f, g
    <3>2. f[k] = g[k]
      BY <3>1, RoundsAgree
    <3> QED
      BY <3>2 DEF k, f, g
  <2> QED
    BY <2>1, <2>2
<1>5. F \in [Nat -> S]
  BY <1>2
<1> QED
  BY <1>3, <1>4, <1>5

-----------------------------------------------------------------------------
(* Walking along a list.                                                   *)

\* A walk through a finite set, always to a lower rank, ends within as many
\* steps as the set has elements.
LEMMA WalkEnds ==
    ASSUME NEW D, IsFiniteSet(D), NULL \notin D, NEW rank \in [D -> Int],
           NEW f \in [Nat -> D \cup {NULL}],
           \A n \in Nat : f[n] = NULL => f[n + 1] = NULL,
           \A n \in Nat : f[n + 1] # NULL => rank[f[n + 1]] < rank[f[n]]
    PROVE  f[Cardinality(D)] = NULL
<1> DEFINE c == Cardinality(D)
<1>1. c \in Nat
  BY FS_CardinalityType
<1> HIDE DEF c
<1> SUFFICES ASSUME f[c] # NULL
             PROVE  FALSE
  BY DEF c
<1>2. \A i \in 0..c : f[i] \in D
  <2> DEFINE T == {n \in Nat : n <= c /\ f[c - n] = NULL}
  <2>1. T = {}
    <3> SUFFICES ASSUME T # {} PROVE FALSE
      OBVIOUS
    <3>1. T \in SUBSET Nat
      OBVIOUS
    <3>2. PICK n \in T : \A y \in T : n <= y
      BY <3>1, LeastNumber
    <3>3. n \in Nat /\ n # 0 /\ n <= c /\ f[c - n] = NULL
      BY <1>1, <3>2
    <3>4. f[(c - n) + 1] = NULL /\ (c - n) + 1 = c - (n - 1)
      BY <1>1, <3>3
    <3>5. n - 1 \in T
      BY <1>1, <3>3, <3>4
    <3> QED
      BY <3>2, <3>3, <3>5
  <2>2. ASSUME NEW i \in 0..c
        PROVE  f[i] \in D
    <3>1. c - i \in Nat /\ c - i <= c /\ c - (c - i) = i
      BY <1>1
    <3>2. f[i] # NULL
      BY <2>1, <3>1
    <3> QED
      BY <3>2
  <2> QED
    BY <2>2
<1>3. ASSUME NEW i \in 0..c, NEW j \in 0..c, i < j
      PROVE  rank[f[j]] < rank[f[i]]
  <2> DEFINE T == {k \in 0..c : i < k /\ ~(rank[f[k]] < rank[f[i]])}
  <2>1. T = {}
    <3> SUFFICES ASSUME T # {} PROVE FALSE
      OBVIOUS
    <3>1. T \in SUBSET Nat
      OBVIOUS
    <3>2. PICK k \in T : \A y \in T : k <= y
      BY <3>1, LeastNumber
    <3> DEFINE m == k - 1
    <3>3. m \in 0..c /\ m \in Nat /\ k = m + 1 /\ i <= m /\ k \in 0..c
      <4>1. k \in 0..c /\ i < k
        BY <3>2
      <4> QED
        BY <1>1, <4>1
    <3>4. rank[f[k]] < rank[f[m]]
      BY <1>2, <3>3
    <3>5. i = m \/ rank[f[m]] < rank[f[i]]
      BY <3>2, <3>3
    <3>6. rank[f[k]] \in Int /\ rank[f[m]] \in Int /\ rank[f[i]] \in Int
      BY <1>2, <3>3
    <3> HIDE DEF m
    <3>7. rank[f[k]] < rank[f[i]]
      BY <3>4, <3>5, <3>6
    <3> QED
      BY <3>2, <3>7
  <2> QED
    BY <1>3, <2>1
<1> DEFINE g == [i \in 0..c |-> f[i]]
<1>4. g \in [0..c -> D]
  BY <1>2
<1>5. IsFiniteSet(0..c) /\ Cardinality(0..c) = c + 1
  BY <1>1, FS_Interval
<1>6. \E x, y \in 0..c : x # y /\ g[x] = g[y]
  <2> DEFINE J == 0..c
  <2>1. IsFiniteSet(J) /\ Cardinality(D) < Cardinality(J) /\ g \in [J -> D]
    BY <1>1, <1>4, <1>5 DEF c
  <2> HIDE DEF g, J
  <2>2. \E x, y \in J : x # y /\ g[x] = g[y]
    BY <2>1, FS_PigeonHole
  <2> QED
    BY <2>2 DEF J
<1>7. PICK x, y \in 0..c : x # y /\ f[x] = f[y]
  BY <1>6
<1>8. rank[f[x]] \in Int
  BY <1>2
<1>9. x < y \/ y < x
  BY <1>7
<1> QED
  BY <1>3, <1>7, <1>8, <1>9

\* The tags that belong to the list e.
InList(h, B, e) == {t \in DOMAIN h.tags \ B : h.tags[t].index = e}

\* Where next and prev lead from a tag of the list.
LEMMA ListLinks ==
    ASSUME NEW h, IsHeap(h), NEW B, Lists(h, B), NEW e \in Exponents
    PROVE  /\ h.freePages[e] \in InList(h, B, e) \cup {NULL}
           /\ \A t \in InList(h, B, e) :
                 /\ t # NULL /\ h.tags[t].next \in InList(h, B, e) \cup {NULL}
                 /\ h.tags[t].prev \in InList(h, B, e) \cup {NULL}
                 /\ h.tags[t].next # NULL => h.tags[h.tags[t].next].prev = t
                 /\ h.tags[t].prev # NULL => h.tags[h.tags[t].prev].next = t
                 /\ h.tags[t].prev = NULL => h.freePages[e] = t
           /\ NULL \notin InList(h, B, e) /\ IsFiniteSet(InList(h, B, e))
           /\ Cardinality(InList(h, B, e)) <= Cardinality(DOMAIN h.tags)
<1>1. Linking(h, B)
  BY DEF Lists
<1>2. DOMAIN h.tags \subseteq Nat \ {0} /\ NULL = 0 /\ IsFiniteSet(DOMAIN h.tags)
  BY DEF IsHeap, NULL
<1>3. h.freePages[e] \in InList(h, B, e) \cup {NULL}
  BY <1>1 DEF Linking, InList
<1>4. ASSUME NEW t \in InList(h, B, e)
      PROVE  /\ t # NULL /\ h.tags[t].next \in InList(h, B, e) \cup {NULL}
             /\ h.tags[t].prev \in InList(h, B, e) \cup {NULL}
             /\ h.tags[t].next # NULL => h.tags[h.tags[t].next].prev = t
             /\ h.tags[t].prev # NULL => h.tags[h.tags[t].prev].next = t
             /\ h.tags[t].prev = NULL => h.freePages[e] = t
  <2>1. t \in DOMAIN h.tags \ B /\ h.tags[t].index = e
    BY DEF InList
  <2>2. t # NULL
    BY <1>2, <2>1
  <2>3. /\ h.tags[t].next # NULL =>
              /\ h.tags[t].next \in DOMAIN h.tags \ B
              /\ h.tags[h.tags[t].next].index = e
              /\ h.tags[h.tags[t].next].prev = t
        /\ h.tags[t].prev # NULL =>
              /\ h.tags[t].prev \in DOMAIN h.tags \ B
              /\ h.tags[h.tags[t].prev].next = t
        /\ h.tags[t].prev = NULL => h.freePages[e] = t
    BY <1>1, <2>1 DEF Linking
  <2>4. h.tags[t].prev # NULL => h.tags[h.tags[t].prev].index = e
    BY <1>1, <2>1, <2>2, <2>3 DEF Linking
  <2> QED
    BY <2>2, <2>3, <2>4 DEF InList
<1>5. InList(h, B, e) \in SUBSET DOMAIN h.tags /\ NULL \notin InList(h, B, e)
  BY <1>2 DEF InList
<1> QED
  BY <1>2, <1>3, <1>4, <1>5, FS_Subset

\* Nth walks along next.
LEMMA NthSteps ==
    ASSUME NEW h, IsHeap(h), NEW B, Lists(h, B), NEW e \in Exponents
    PROVE  /\ Nth(h, e) \in [Nat -> InList(h, B, e) \cup {NULL}]
           /\ Nth(h, e)[0] = h.freePages[e]
           /\ \A n \in Nat : Nth(h, e)[n + 1] = IF Nth(h, e)[n] = NULL THEN NULL
                                                ELSE h.tags[Nth(h, e)[n]].next
<1> DEFINE S == InList(h, B, e) \cup {NULL}
           step == [t \in S |-> IF t = NULL THEN NULL ELSE h.tags[t].next]
           Walk(f) == [n \in Nat |->
                         IF n = 0 THEN h.freePages[e]
                         ELSE IF f[n - 1] = NULL THEN NULL ELSE h.tags[f[n - 1]].next]
           at == CHOOSE f : f = Walk(f)
<1>1. h.freePages[e] \in S /\ step \in [S -> S]
  BY ListLinks
<1>2. Nth(h, e) = at
  BY DEF Nth
<1>3. \E f : f = Walk(f)
  <2>1. PICK f \in [Nat -> S] :
           f[0] = h.freePages[e] /\ \A n \in Nat \ {0} : f[n] = step[f[n - 1]]
    <3> DEFINE start == h.freePages[e]
    <3>1. start \in S
      BY <1>1
    <3> HIDE DEF S, step, start
    <3>2. \E f \in [Nat -> S] : f[0] = start /\ \A n \in Nat \ {0} : f[n] = step[f[n - 1]]
      BY <1>1, <3>1, Loop
    <3> QED
      BY <3>2 DEF start
  <2>2. ASSUME NEW n \in Nat
        PROVE  f[n] = Walk(f)[n]
    <3>1. CASE n = 0
      BY <2>1, <3>1
    <3>2. CASE n # 0
      <4>1. n - 1 \in Nat /\ f[n - 1] \in S
        BY <2>1, <3>2
      <4> QED
        BY <2>1, <3>2, <4>1 DEF step
    <3> QED
      BY <3>1, <3>2
  <2>3. f = Walk(f)
    BY <2>1, <2>2
  <2> QED
    BY <2>3
<1>4. at = Walk(at)
  BY <1>3
<1> HIDE DEF at
<1>5. /\ at[0] = h.freePages[e]
      /\ \A n \in Nat : at[n + 1] = IF at[n] = NULL THEN NULL ELSE h.tags[at[n]].next
  <2>1. at[0] = h.freePages[e]
    BY <1>4
  <2>2. ASSUME NEW n \in Nat
        PROVE  at[n + 1] = IF at[n] = NULL THEN NULL ELSE h.tags[at[n]].next
    <3>1. n + 1 \in Nat /\ n + 1 # 0 /\ (n + 1) - 1 = n
      OBVIOUS
    <3> QED
      BY <1>4, <3>1
  <2> QED
    BY <2>1, <2>2
<1>6. \A n \in Nat : at[n] \in S
  <2> DEFINE T == {n \in Nat : at[n] \notin S}
  <2>1. T = {}
    <3> SUFFICES ASSUME T # {} PROVE FALSE
      OBVIOUS
    <3>1. T \in SUBSET Nat
      OBVIOUS
    <3>2. PICK n \in T : \A y \in T : n <= y
      BY <3>1, LeastNumber
    <3>3. n \in Nat /\ n # 0
      BY <1>1, <1>5, <3>2
    <3> DEFINE m == n - 1
    <3>4. m \in Nat /\ n = m + 1 /\ at[m] \in S
      BY <3>2, <3>3
    <3> HIDE DEF m
    <3>5. at[n] \in S
      BY <1>5, <3>4, ListLinks
    <3> QED
      BY <3>2, <3>5
  <2> QED
    BY <2>1
<1>7. at = [n \in Nat |-> at[n]]
  BY <1>4
<1>8. at \in [Nat -> S]
  BY <1>6, <1>7
<1> QED
  BY <1>2, <1>5, <1>8

\* The walk along next ends.
LEMMA NthEnds ==
    ASSUME NEW h, IsHeap(h), NEW B, Lists(h, B), NEW e \in Exponents
    PROVE  Nth(h, e)[Cardinality(DOMAIN h.tags)] = NULL
<1> DEFINE D == DOMAIN h.tags
           at == Nth(h, e)
<1>1. PICK rank \in [D -> Nat] : Descends(h, B, rank)
  BY DEF Lists, Ranked
<1>2. /\ at \in [Nat -> InList(h, B, e) \cup {NULL}]
      /\ \A n \in Nat : at[n + 1] = IF at[n] = NULL THEN NULL ELSE h.tags[at[n]].next
  BY NthSteps
<1> HIDE DEF at
<1>3. InList(h, B, e) \subseteq D \ B
  BY DEF InList
<1>4. at \in [Nat -> D \cup {NULL}] /\ rank \in [D -> Int]
  BY <1>1, <1>2, <1>3
<1>5. \A n \in Nat : at[n] = NULL => at[n + 1] = NULL
  BY <1>2
<1>6. ASSUME NEW n \in Nat, at[n + 1] # NULL
      PROVE  rank[at[n + 1]] < rank[at[n]]
  <2>1. at[n] # NULL /\ at[n + 1] = h.tags[at[n]].next
    BY <1>2, <1>6
  <2>2. at[n] \in D \ B
    BY <1>2, <1>3, <2>1
  <2> QED
    BY <1>1, <1>6, <2>1, <2>2 DEF Descends
<1>7. IsFiniteSet(D) /\ NULL \notin D
  BY DEF IsHeap, NULL
<1> HIDE DEF D
<1>8. at[Cardinality(D)] = NULL
  BY <1>4, <1>5, <1>6, <1>7, WalkEnds
<1> QED
  BY <1>8 DEF D, at

\* The walk along prev.
LEMMA BackSteps ==
    ASSUME NEW h, IsHeap(h), NEW B, Lists(h, B), NEW e \in Exponents,
           NEW t \in InList(h, B, e)
    PROVE  \E b \in [Nat -> InList(h, B, e) \cup {NULL}] :
              /\ b[0] = t
              /\ \A n \in Nat :
                    b[n + 1] = IF b[n] = NULL THEN NULL ELSE h.tags[b[n]].prev
<1> DEFINE S == InList(h, B, e) \cup {NULL}
           start == t
           step == [u \in S |-> IF u = NULL THEN NULL ELSE h.tags[u].prev]
<1>1. start \in S
  OBVIOUS
<1>2. step \in [S -> S]
  BY ListLinks
<1>3. PICK b \in [Nat -> S] : b[0] = start /\ \A n \in Nat \ {0} : b[n] = step[b[n - 1]]
  <2> HIDE DEF S, start, step
  <2> QED
    BY <1>1, <1>2, Loop
<1>4. ASSUME NEW n \in Nat
      PROVE  b[n + 1] = IF b[n] = NULL THEN NULL ELSE h.tags[b[n]].prev
  <2>1. n + 1 \in Nat \ {0} /\ (n + 1) - 1 = n /\ b[n] \in S
    BY <1>3
  <2> QED
    BY <1>3, <2>1
<1> QED
  BY <1>3, <1>4

\* Every tag of the list is met on the walk: going back along prev from it leads
\* to the front.
LEMMA NthReaches ==
    ASSUME NEW h, IsHeap(h), NEW B, Lists(h, B), NEW e \in Exponents,
           NEW t \in InList(h, B, e)
    PROVE  \E n \in 0..Cardinality(DOMAIN h.tags) : Nth(h, e)[n] = t
<1> DEFINE D == DOMAIN h.tags
           S == InList(h, B, e) \cup {NULL}
           c == Cardinality(D)
           at == Nth(h, e)
<1>1. PICK rank \in [D -> Nat] : Descends(h, B, rank)
  BY DEF Lists, Ranked
<1>2. /\ at \in [Nat -> S] /\ at[0] = h.freePages[e]
      /\ \A n \in Nat : at[n + 1] = IF at[n] = NULL THEN NULL ELSE h.tags[at[n]].next
  BY NthSteps
<1>3. /\ h.freePages[e] \in S
      /\ \A u \in InList(h, B, e) :
            /\ u # NULL /\ h.tags[u].next \in S /\ h.tags[u].prev \in S
            /\ h.tags[u].prev # NULL => h.tags[h.tags[u].prev].next = u
            /\ h.tags[u].prev = NULL => h.freePages[e] = u
  BY ListLinks
<1>4. InList(h, B, e) \subseteq D \ B /\ NULL \notin InList(h, B, e)
  <2>1. InList(h, B, e) \subseteq D \ B
    BY DEF InList
  <2> QED
    BY <2>1, ListLinks
<1>5. IsFiniteSet(D) /\ NULL \notin D
  BY DEF IsHeap, NULL
<1>6. c \in Nat
  BY <1>5, FS_CardinalityType
<1>7. PICK b \in [Nat -> S] :
         /\ b[0] = t
         /\ \A n \in Nat : b[n + 1] = IF b[n] = NULL THEN NULL ELSE h.tags[b[n]].prev
  BY BackSteps
<1>8. \A n \in Nat : b[n + 1] = IF b[n] = NULL THEN NULL ELSE h.tags[b[n]].prev
  BY <1>7
<1> HIDE DEF at
<1>9. b[c] = NULL
  <2> DEFINE back == [u \in D |-> 0 - rank[u]]
  <2>1. back \in [D -> Int] /\ b \in [Nat -> D \cup {NULL}]
    BY <1>1, <1>4, <1>7
  <2>2. \A n \in Nat : b[n] = NULL => b[n + 1] = NULL
    BY <1>8
  <2>3. ASSUME NEW n \in Nat, b[n + 1] # NULL
        PROVE  back[b[n + 1]] < back[b[n]]
    <3> DEFINE u == b[n]
               v == b[n + 1]
    <3>1. u # NULL /\ v = h.tags[u].prev
      BY <1>8, <2>3
    <3>2. u \in InList(h, B, e) /\ v \in InList(h, B, e)
      BY <1>7, <2>3, <3>1
    <3>3. h.tags[v].next = u /\ u \in D /\ v \in D \ B
      BY <1>3, <1>4, <2>3, <3>1, <3>2
    <3> HIDE DEF u, v
    <3>4. rank[u] < rank[v] /\ rank[u] \in Nat /\ rank[v] \in Nat
      BY <1>1, <3>1, <3>3 DEF Descends
    <3>5. back[v] < back[u]
      BY <3>3, <3>4
    <3> QED
      BY <3>5 DEF u, v
  <2> HIDE DEF back, D
  <2>4. b[Cardinality(D)] = NULL
    BY <1>5, <2>1, <2>2, <2>3, WalkEnds
  <2> QED
    BY <2>4
<1>10. PICK k \in Nat : /\ k # 0 /\ k <= c /\ b[k] = NULL
                        /\ \A n \in Nat : b[n] = NULL => k <= n
  <2> DEFINE T == {n \in Nat : b[n] = NULL}
  <2>1. T \in SUBSET Nat /\ c \in T
    BY <1>6, <1>9
  <2>2. PICK n \in T : \A y \in T : n <= y
    BY <2>1, LeastNumber
  <2>3. n # 0
    BY <1>4, <1>7, <2>2
  <2> QED
    BY <2>1, <2>2, <2>3
<1> DEFINE m == k - 1
<1>11. m \in Nat /\ m < c /\ k = m + 1 /\ b[m] # NULL
  BY <1>6, <1>10
<1> HIDE DEF m
<1>12. b[m] \in InList(h, B, e) /\ h.freePages[e] = b[m]
  <2>1. h.tags[b[m]].prev = NULL /\ b[m] \in InList(h, B, e)
    BY <1>7, <1>8, <1>10, <1>11
  <2> QED
    BY <1>3, <2>1
<1>13. ASSUME NEW i \in Nat, i < m, at[i] = b[m - i]
       PROVE  at[i + 1] = b[m - (i + 1)]
  <2> DEFINE j == m - (i + 1)
             u == b[j]
             v == b[j + 1]
  <2>1. j \in Nat /\ j + 1 = m - i /\ j < k /\ j + 1 < k
    BY <1>11, <1>13
  <2>2. u # NULL /\ v # NULL /\ v = h.tags[u].prev
    BY <1>8, <1>10, <2>1
  <2>3. u \in InList(h, B, e) /\ at[i] = v
    BY <1>7, <1>13, <2>1, <2>2
  <2> HIDE DEF u, v
  <2>4. h.tags[v].next = u
    BY <1>3, <2>2, <2>3
  <2>5. at[i + 1] = u
    BY <1>2, <2>2, <2>3, <2>4
  <2> QED
    BY <2>5 DEF u
<1>14. at[m] = t
  <2> DEFINE T == {i \in Nat : i <= m /\ at[i] # b[m - i]}
  <2>1. T = {}
    <3> SUFFICES ASSUME T # {} PROVE FALSE
      OBVIOUS
    <3>1. T \in SUBSET Nat
      OBVIOUS
    <3>2. PICK i \in T : \A y \in T : i <= y
      BY <3>1, LeastNumber
    <3>3. i \in Nat /\ i <= m /\ at[i] # b[m - i]
      BY <3>2
    <3>4. i # 0
      BY <1>2, <1>11, <1>12, <3>3
    <3> DEFINE l == i - 1
    <3>5. l \in Nat /\ l < m /\ i = l + 1 /\ at[l] = b[m - l]
      BY <1>11, <3>2, <3>3, <3>4
    <3> HIDE DEF l
    <3> QED
      BY <1>13, <3>3, <3>5
  <2>2. m <= m /\ m - m = 0
    BY <1>11
  <2>3. at[m] = b[m - m]
    BY <1>11, <2>1, <2>2
  <2> QED
    BY <1>7, <2>2, <2>3
<1>15. m \in 0..c
  BY <1>6, <1>11
<1> QED
  BY <1>14, <1>15 DEF at

\* So a list consists of the tags with its index.
LEMMA ReachExact ==
    ASSUME NEW h, IsHeap(h), NEW B, Lists(h, B), NEW e \in Exponents
    PROVE  {Nth(h, e)[n] : n \in 0..Cardinality(DOMAIN h.tags)} \ {NULL} = InList(h, B, e)
<1> DEFINE at == Nth(h, e)
           c == Cardinality(DOMAIN h.tags)
<1>1. at \in [Nat -> InList(h, B, e) \cup {NULL}]
  BY NthSteps
<1>2. \A t \in InList(h, B, e) : \E n \in 0..c : at[n] = t
  BY NthReaches
<1>3. NULL \notin InList(h, B, e)
  BY ListLinks
<1>4. 0..c \subseteq Nat
  OBVIOUS
<1> HIDE DEF at, c
<1>5. {at[n] : n \in 0..c} \ {NULL} = InList(h, B, e)
  BY <1>1, <1>2, <1>3, <1>4
<1> QED
  BY <1>5 DEF at, c

-----------------------------------------------------------------------------
(* Sizes.                                                                  *)

\* The sizes of the types.
LEMMA Widths ==
    /\ TagSize \in Nat \ {0} /\ PageSize \in Nat \ {0} /\ PageCount \in Nat \ {0}
    /\ MinExp \in Nat \ {0} /\ MaxExp \in Nat /\ MinExp < MaxExp - 1
    /\ MaxComplete \in Nat \ {0}
    /\ 2^MinExp \in Nat \ {0} /\ 2^MaxExp \in Nat \ {0} /\ 2^(MaxExp - 1) \in Nat \ {0}
    /\ TagSize + 2^(MaxExp - 1) <= 2^MaxExp
    /\ PageCount * PageSize < 2^MaxExp
<1>1. /\ MinExp \in Nat \ {0} /\ MaxExp \in Nat /\ MinExp < MaxExp - 1
  BY HeapAssumption
<1>2. /\ MinExp \in MinExp..MaxExp /\ MaxExp \in MinExp..MaxExp
      /\ MaxExp - 1 \in MinExp..MaxExp
  BY <1>1
<1>3. /\ 2^MinExp \in Nat \ {0} /\ 2^MaxExp \in Nat \ {0} /\ 2^(MaxExp - 1) \in Nat \ {0}
  BY <1>2, WidthAssumption
<1> QED
  BY <1>1, <1>3, HeapAssumption, WidthAssumption

\* getexp yields -1 for what is too small, and an exponent for the rest.
LEMMA ExponentYields ==
    ASSUME NEW size \in Int
    PROVE  /\ size < 2^MinExp => getexp(size) = -1
           /\ size >= 2^MinExp => getexp(size) \in MinExp..MaxExp - 2
<1> DEFINE IsExp(e) == /\ 2^e <= size
                       /\ e = MaxExp - 2 \/ size < 2^(e + 1)
<1>1. CASE size < 2^MinExp
  BY <1>1, Widths DEF getexp
<1>2. CASE size >= 2^MinExp
  <2> DEFINE p == [e \in MinExp..MaxExp |-> 2^e]
             top == MaxExp - 2
             T == {k \in Nat : k <= top - MinExp /\ p[top - k] <= size}
  <2>1. /\ \A e \in MinExp..MaxExp : p[e] \in Nat
        /\ p[MinExp] = 2^MinExp
    BY Widths, WidthAssumption
  <2>2. top \in Nat /\ MinExp \in Nat /\ MinExp <= top /\ top < MaxExp - 1 /\ MaxExp \in Nat
    BY Widths
  <2>3. \A e \in MinExp..top : 2^e = p[e] /\ 2^(e + 1) = p[e + 1]
    BY <2>2
  <2>4. p[MinExp] <= size
    BY <1>2, <2>1, Widths
  <2> HIDE DEF p, top
  <2>5. T \in SUBSET Nat /\ T # {}
    <3>1. top - MinExp \in Nat /\ top - (top - MinExp) = MinExp
      BY <2>2
    <3>2. top - MinExp \in T
      BY <2>4, <3>1
    <3> QED
      BY <3>2
  <2>6. PICK k \in T : \A y \in T : k <= y
    BY <2>5, LeastNumber
  <2> DEFINE e == top - k
  <2>7. e \in MinExp..top /\ p[e] <= size
    BY <2>2, <2>6
  <2>8. e = top \/ size < p[e + 1]
    <3> SUFFICES ASSUME e # top
                 PROVE  size < p[e + 1]
      OBVIOUS
    <3>1. k - 1 \in Nat /\ k - 1 <= top - MinExp /\ top - (k - 1) = e + 1
      BY <2>2, <2>6
    <3>2. k - 1 \notin T
      BY <2>6
    <3>3. ~(p[e + 1] <= size) /\ p[e + 1] \in Nat
      BY <2>1, <2>2, <2>7, <3>1, <3>2
    <3> QED
      BY <3>3
  <2> HIDE DEF e
  <2>9. e \in MinExp..MaxExp - 2 /\ IsExp(e)
    BY <2>3, <2>7, <2>8 DEF top
  <2>10. getexp(size) = CHOOSE d \in MinExp..MaxExp - 2 : IsExp(d)
    <3>1. ~(size < 2^MinExp)
      BY <1>2, Widths
    <3> QED
      BY <3>1, Zenon DEF getexp
  <2> HIDE DEF IsExp
  <2> QED
    BY <1>2, <2>9, <2>10, Widths
<1> QED
  BY <1>1, <1>2, Widths

\* So every size has a list.
LEMMA ListExists ==
    ASSUME NEW n \in Int
    PROVE  ListOf(n) \in Exponents
<1> DEFINE e == getexp(n - TagSize)
<1>1. n - TagSize \in Int
  BY Widths
<1>2. e = -1 \/ e \in MinExp..MaxExp - 2
  BY <1>1, ExponentYields, Widths
<1>3. ListOf(n) = IF e < MinExp THEN MinExp ELSE e
  BY DEF ListOf
<1> HIDE DEF e
<1>4. MinExp \in Exponents /\ MinExp..MaxExp - 2 \subseteq Exponents
  BY Widths DEF Exponents
<1>5. CASE e = -1
  BY <1>3, <1>4, <1>5, Widths
<1>6. CASE e \in MinExp..MaxExp - 2
  BY <1>3, <1>4, <1>6, Widths
<1> QED
  BY <1>2, <1>5, <1>6

\* Where malloc searches.
Start(size) == IF getexp(size) < MinExp THEN MinExp ELSE getexp(size)

\* There is such a list.
LEMMA StartExists ==
    ASSUME NEW size \in Int
    PROVE  Start(size) \in Exponents
<1> DEFINE e == getexp(size)
<1>1. e = -1 \/ e \in MinExp..MaxExp - 2
  BY ExponentYields, Widths
<1>2. Start(size) = IF e < MinExp THEN MinExp ELSE e
  BY DEF Start
<1> HIDE DEF e
<1>3. MinExp \in Exponents /\ MinExp..MaxExp - 2 \subseteq Exponents
  BY Widths DEF Exponents
<1>4. CASE e = -1
  BY <1>2, <1>3, <1>4, Widths
<1>5. CASE e \in MinExp..MaxExp - 2
  BY <1>2, <1>3, <1>5, Widths
<1> QED
  BY <1>1, <1>4, <1>5

\* malloc finds a free tag that is large enough, or none.
LEMMA FirstFitYields ==
    ASSUME NEW h, IsHeap(h), NEW B, Lists(h, B), NEW size \in Int
    PROVE  LET t == FirstFit(h, size)
           IN  t # NULL => t \in DOMAIN h.tags \ B /\ Fits(h.tags[t], size)
<1> DEFINE e == Start(size)
           S == InList(h, B, e) \cup {NULL}
           Stays(t) == t = NULL \/ Fits(h.tags[t], size)
           step == [t \in S |-> IF Stays(t) THEN t ELSE h.tags[t].next]
           Walk(f) == [n \in Nat |->
                         IF n = 0 THEN h.freePages[e]
                         ELSE IF Stays(f[n - 1]) THEN f[n - 1] ELSE h.tags[f[n - 1]].next]
           search == CHOOSE f : f = Walk(f)
           at == Nth(h, e)
           c == Cardinality(DOMAIN h.tags)
<1>1. e \in Exponents
  BY StartExists
<1> HIDE DEF e
<1>2. h.freePages[e] \in S /\ step \in [S -> S]
  BY <1>1, ListLinks
<1>3. FirstFit(h, size) = search[c]
  BY DEF FirstFit, Start, e
<1> HIDE DEF Stays
<1>4. \E f : f = Walk(f)
  <2>1. PICK f \in [Nat -> S] :
           f[0] = h.freePages[e] /\ \A n \in Nat \ {0} : f[n] = step[f[n - 1]]
    <3> DEFINE start == h.freePages[e]
    <3>1. start \in S
      BY <1>2
    <3> HIDE DEF S, step, start
    <3>2. \E f \in [Nat -> S] : f[0] = start /\ \A n \in Nat \ {0} : f[n] = step[f[n - 1]]
      BY <1>2, <3>1, Loop
    <3> QED
      BY <3>2 DEF start
  <2>2. ASSUME NEW n \in Nat
        PROVE  f[n] = Walk(f)[n]
    <3>1. CASE n = 0
      BY <2>1, <3>1
    <3>2. CASE n # 0
      <4>1. n - 1 \in Nat /\ f[n - 1] \in S
        BY <2>1, <3>2
      <4> QED
        BY <2>1, <3>2, <4>1
    <3> QED
      BY <3>1, <3>2
  <2>3. f = Walk(f)
    BY <2>1, <2>2
  <2> QED
    BY <2>3
<1>5. search = Walk(search)
  BY <1>4
<1> HIDE DEF search
<1>6. /\ search[0] = h.freePages[e]
      /\ \A n \in Nat : search[n + 1] = IF Stays(search[n]) THEN search[n]
                                        ELSE h.tags[search[n]].next
  <2>1. search[0] = h.freePages[e]
    BY <1>5
  <2>2. ASSUME NEW n \in Nat
        PROVE  search[n + 1] = IF Stays(search[n]) THEN search[n]
                               ELSE h.tags[search[n]].next
    <3>1. n + 1 \in Nat /\ n + 1 # 0 /\ (n + 1) - 1 = n
      OBVIOUS
    <3> QED
      BY <1>5, <3>1
  <2> QED
    BY <2>1, <2>2
<1>7. /\ at \in [Nat -> S] /\ at[0] = h.freePages[e]
      /\ \A n \in Nat : at[n + 1] = IF at[n] = NULL THEN NULL ELSE h.tags[at[n]].next
  BY <1>1, NthSteps
<1>8. at[c] = NULL /\ c \in Nat
  BY <1>1, NthEnds, FS_CardinalityType DEF IsHeap
<1> HIDE DEF at, c
<1>9. \A n \in Nat : search[n] \in S /\ (Stays(search[n]) \/ search[n] = at[n])
  <2> DEFINE Good(n) == search[n] \in S /\ (Stays(search[n]) \/ search[n] = at[n])
             T == {n \in Nat : ~Good(n)}
  <2>1. Good(0)
    BY <1>2, <1>6, <1>7
  <2>2. ASSUME NEW n \in Nat, Good(n)
        PROVE  Good(n + 1)
    <3>1. CASE Stays(search[n])
      BY <1>6, <2>2, <3>1
    <3>2. CASE ~Stays(search[n])
      <4>1. search[n] # NULL /\ search[n] = at[n] /\ search[n] \in InList(h, B, e)
        BY <2>2, <3>2 DEF Stays
      <4>2. search[n + 1] = h.tags[search[n]].next /\ search[n + 1] = at[n + 1]
        BY <1>6, <1>7, <3>2, <4>1
      <4> QED
        BY <1>1, <4>1, <4>2, ListLinks, ZenonT(60)
    <3> QED
      BY <3>1, <3>2
  <2> HIDE DEF Good
  <2>3. T = {}
    <3> SUFFICES ASSUME T # {} PROVE FALSE
      OBVIOUS
    <3>1. T \in SUBSET Nat
      OBVIOUS
    <3>2. PICK n \in T : \A y \in T : n <= y
      BY <3>1, LeastNumber
    <3> DEFINE m == n - 1
    <3>3. m \in Nat /\ n = m + 1 /\ m \notin T
      BY <2>1, <3>2
    <3> HIDE DEF m
    <3> QED
      BY <2>2, <3>2, <3>3
  <2> QED
    BY <2>3 DEF Good
<1>10. search[c] \in S /\ Stays(search[c])
  BY <1>8, <1>9 DEF Stays
<1> QED
  BY <1>3, <1>10 DEF Stays, InList

\* A number that fits stays as it is in an unsigned int.
LEMMA NoWrap ==
    ASSUME NEW n \in Nat, n < 2^MaxExp
    PROVE  UInt(n) = n
<1> DEFINE w == 2^MaxExp
<1>1. w \in Nat \ {0} /\ n < w
  BY Widths
<1>2. UInt(n) = n % w
  BY DEF UInt
<1> HIDE DEF w
<1> QED
  BY <1>1, <1>2

\* An unsigned int is a number.
LEMMA UIntNat ==
    ASSUME NEW n \in Nat
    PROVE  UInt(n) \in Nat
<1> DEFINE w == 2^MaxExp
<1>1. w \in Nat \ {0} /\ UInt(n) = n % w
  BY Widths DEF UInt
<1> HIDE DEF w
<1> QED
  BY <1>1

\* allocate_new_tag asks for enough.
LEMMA PagesAreEnough ==
    ASSUME NEW size \in Nat, size + TagSize + PageSize <= 2^MaxExp
    PROVE  /\ UInt(size) = size
           /\ PagesFor(size) \in Nat /\ PagesFor(size) >= PageCount
           /\ PagesFor(size) * PageSize \in Nat
           /\ size + TagSize <= PagesFor(size) * PageSize
           /\ PagesFor(size) * PageSize < 2^MaxExp
           /\ UInt(PagesFor(size) * PageSize) = PagesFor(size) * PageSize
<1> DEFINE w == 2^MaxExp
           usage == size + TagSize
           q == usage \div PageSize
           m == usage % PageSize
           n == q + (IF m = 0 THEN 0 ELSE 1)
           k == PagesFor(size)
<1>1. /\ size \in Nat /\ TagSize \in Nat \ {0} /\ PageSize \in Nat \ {0}
      /\ PageCount \in Nat \ {0} /\ w \in Nat \ {0} /\ size + TagSize + PageSize <= w
      /\ PageCount * PageSize < w
  BY Widths
<1>2. UInt(usage) = usage /\ UInt(size) = size
  <2>1. usage \in Nat /\ usage < 2^MaxExp /\ size \in Nat /\ size < 2^MaxExp
    <3> HIDE DEF w
    <3>1. usage < w /\ size < w /\ usage \in Nat
      BY <1>1
    <3> QED
      BY <1>1, <3>1 DEF w
  <2> HIDE DEF usage
  <2> QED
    BY <2>1, NoWrap
<1> HIDE DEF w
<1>3. k = IF n < PageCount THEN PageCount ELSE n
  BY <1>2 DEF PagesFor
<1>4. usage \in Nat /\ usage + PageSize <= w
  BY <1>1
<1> HIDE DEF usage
<1>5. q \in Nat /\ m \in 0..PageSize - 1 /\ usage = q * PageSize + m /\ q * PageSize \in Nat
  <2>1. q \in Int /\ m \in 0..PageSize - 1 /\ usage = PageSize * q + m
    BY <1>1, <1>4
  <2>2. q \in Nat
    BY <1>1, <1>4
  <2> HIDE DEF q, m
  <2> QED
    BY <1>1, <2>1, <2>2
<1> HIDE DEF q, m
<1>6. /\ n \in Nat /\ n * PageSize \in Nat
      /\ usage <= n * PageSize /\ n * PageSize < w
  <2>1. CASE m = 0
    BY <1>1, <1>4, <1>5, <2>1
  <2>2. CASE m # 0
    <3>1. n = q + 1 /\ (q + 1) * PageSize = q * PageSize + PageSize
      BY <1>1, <1>5, <2>2, Multiply
    <3>2. usage <= q * PageSize + PageSize /\ q * PageSize + PageSize < w
      BY <1>1, <1>4, <1>5, <2>2
    <3> QED
      BY <1>1, <1>5, <3>1, <3>2
  <2> QED
    BY <2>1, <2>2
<1> HIDE DEF n
<1>7. /\ k \in Nat /\ k >= PageCount /\ k * PageSize \in Nat
      /\ usage <= k * PageSize /\ k * PageSize < w
  <2>1. CASE n < PageCount
    <3>1. n * PageSize <= PageCount * PageSize /\ PageCount * PageSize \in Int
      BY <1>1, <1>6, <2>1, Multiply
    <3>2. k = PageCount
      BY <1>3, <2>1
    <3> HIDE DEF k
    <3> QED
      BY <1>1, <1>4, <1>6, <3>1, <3>2
  <2>2. CASE ~(n < PageCount)
    <3>1. k = n
      BY <1>3, <2>2
    <3> HIDE DEF k
    <3> QED
      BY <1>1, <1>6, <2>2, <3>1
  <2> QED
    BY <2>1, <2>2
<1> DEFINE b == k * PageSize
<1>8. b \in Nat /\ b < 2^MaxExp
  BY <1>7 DEF w
<1> HIDE DEF b
<1>9. UInt(b) = b
  BY <1>8, NoWrap
<1> QED
  BY <1>1, <1>2, <1>7, <1>8, <1>9 DEF usage, b

\* What malloc computes for the rest is the rest, if there is one.
LEMMA RestIsRight ==
    ASSUME NEW size \in Nat, NEW n \in Nat, n < 2^MaxExp, TagSize + size <= n,
           AsInt(UInt(n - size - 2 * TagSize)) > 0
    PROVE  AsInt(UInt(n - size - 2 * TagSize)) = n - size - 2 * TagSize
<1> DEFINE w == 2^MaxExp
           v == 2^(MaxExp - 1)
           raw == n - size - 2 * TagSize
           m == raw % w
<1>1. /\ w \in Nat \ {0} /\ v \in Nat \ {0} /\ TagSize \in Nat \ {0}
      /\ TagSize + v <= w /\ n < w
  BY Widths
<1>2. AsInt(UInt(raw)) = IF m < v THEN m ELSE m - w
  BY DEF AsInt, UInt
<1> HIDE DEF w, v
<1>3. raw \in Int /\ raw < w /\ 0 - TagSize <= raw
  BY <1>1
<1> HIDE DEF raw
<1>4. raw >= 0 => m = raw
  BY <1>1, <1>3
<1>5. raw < 0 => m = raw + w
  <2> SUFFICES ASSUME raw < 0 PROVE m = raw + w
    OBVIOUS
  <2>1. raw + w \in 0..w - 1
    BY <1>1, <1>3
  <2> QED
    BY <1>1, <1>3, <2>1
<1> HIDE DEF m
<1>6. m - w <= 0
  BY <1>1, <1>3, <1>4, <1>5
<1>7. CASE raw >= 0
  BY <1>1, <1>2, <1>3, <1>4, <1>6, <1>7 DEF raw
<1>8. CASE raw < 0
  BY <1>1, <1>2, <1>3, <1>5, <1>6, <1>8 DEF raw
<1> QED
  BY <1>3, <1>7, <1>8

-----------------------------------------------------------------------------
(* The inductive invariant of the heap.  B is the set of tags that are in  *)
(* no list.                                                                *)

\* A free tag is in the list of its size.
Indexed(h, B) ==
    \A t \in DOMAIN h.tags \ B : h.tags[t].index = ListOf(h.tags[t].real_size)

\* A free tag has no free neighbour.
Apart(h, B) ==
    \A t \in DOMAIN h.tags \ B : h.tags[t].split_right \in B \cup {NULL}

Whole(r) == r.split_left = NULL /\ r.split_right = NULL

\* The whole blocks that wait in a list.
Waiting(h, B, e) == {t \in InList(h, B, e) : Whole(h.tags[t])}

\* l_completePages counts them.
Counts(h, B) ==
    \A e \in Exponents : /\ h.completePages[e] = Cardinality(Waiting(h, B, e))
                         /\ h.completePages[e] <= MaxComplete

\* All of it but the counts.
Sound(h, pg, B) ==
    /\ IsHeap(h) /\ B \in SUBSET DOMAIN h.tags /\ pg \subseteq 1..LastPage
    /\ Geometry(h, pg) /\ Lists(h, B) /\ Indexed(h, B) /\ Apart(h, B)

Good(h, pg, B) == Sound(h, pg, B) /\ Counts(h, B)

\* A sound heap as seen from one tag.
LEMMA SoundTags ==
    ASSUME NEW h, NEW pg, NEW B, Sound(h, pg, B), NEW t \in DOMAIN h.tags
    PROVE  /\ t \in Nat \ {0} /\ t # NULL
           /\ h.tags[t].real_size \in Nat /\ h.tags[t].real_size >= TagSize
           /\ EndOf(h, t) \in Nat /\ t < EndOf(h, t)
           /\ h.tags[t].split_right # NULL =>
                 /\ h.tags[t].split_right \in DOMAIN h.tags
                 /\ h.tags[t].split_right # t
                 /\ h.tags[h.tags[t].split_right].split_left = t
           /\ h.tags[t].split_left # NULL =>
                 /\ h.tags[t].split_left \in DOMAIN h.tags
                 /\ h.tags[t].split_left # t
                 /\ h.tags[h.tags[t].split_left].split_right = t
           /\ h.tags[t].index >= 0 <=> t \notin B
           /\ t \notin B => h.tags[t].index \in Exponents
<1>1. IsHeap(h) /\ Separate(h) /\ Neighbours(h) /\ Linking(h, B)
  BY DEF Sound, Geometry, Lists
<1>2. /\ t \in Nat \ {0} /\ t # NULL /\ TagSize \in Nat
      /\ h.tags[t].real_size \in Nat /\ EndOf(h, t) \in Nat
  BY <1>1, PlaceTypes
<1>3. h.tags[t].real_size >= TagSize
  BY <1>1 DEF Separate
<1>4. t < EndOf(h, t)
  BY <1>2, <1>3, Widths DEF EndOf
<1>5. h.tags[t].split_right # NULL =>
         /\ h.tags[t].split_right \in DOMAIN h.tags
         /\ h.tags[t].split_right = EndOf(h, t)
         /\ h.tags[h.tags[t].split_right].split_left = t
  BY <1>1 DEF Neighbours
<1>6. h.tags[t].split_left # NULL =>
         /\ h.tags[t].split_left \in DOMAIN h.tags
         /\ h.tags[h.tags[t].split_left].split_right = t
  BY <1>1 DEF Neighbours
<1>7. h.tags[t].split_right # NULL => h.tags[t].split_right # t
  BY <1>2, <1>4, <1>5
<1>8. h.tags[t].split_left # NULL => h.tags[t].split_left # t
  BY <1>2, <1>6, <1>7
<1>9. t \in B => h.tags[t].index = -1
  BY <1>1 DEF Linking
<1>10. t \notin B => h.tags[t].index \in Exponents
  BY <1>1 DEF Linking
<1>11. \A e \in Exponents : e >= 0
  BY Widths DEF Exponents
<1> DEFINE i == h.tags[t].index
<1>12. i >= 0 <=> t \notin B
  <2> HIDE DEF i
  <2>1. (t \in B => i = -1) /\ (t \notin B => i >= 0)
    BY <1>9, <1>10, <1>11 DEF i
  <2> QED
    BY <2>1
<1> QED
  BY <1>2, <1>3, <1>4, <1>5, <1>6, <1>7, <1>8, <1>10, <1>12

\* A heap stays sound when a tag leaves its list.
LEMMA RemoveSound ==
    ASSUME NEW h, NEW g, NEW pg, NEW B, Sound(h, pg, B), NEW t \in DOMAIN h.tags \ B,
           IsHeap(g), Removed(g, h, t)
    PROVE  /\ Sound(g, pg, B \cup {t})
           /\ \A e \in Exponents : Waiting(g, B \cup {t}, e) = Waiting(h, B, e) \ {t}
<1> DEFINE C == B \cup {t}
<1>1. /\ DOMAIN g.tags = DOMAIN h.tags
      /\ \A u \in DOMAIN h.tags :
            /\ g.tags[u].real_size = h.tags[u].real_size
            /\ g.tags[u].split_left = h.tags[u].split_left
            /\ g.tags[u].split_right = h.tags[u].split_right
            /\ u # t => g.tags[u].index = h.tags[u].index
  BY DEF Removed, Places
<1>2. /\ IsHeap(h) /\ B \in SUBSET DOMAIN h.tags /\ pg \subseteq 1..LastPage
      /\ Geometry(h, pg) /\ Lists(h, B) /\ Indexed(h, B) /\ Apart(h, B)
  BY DEF Sound
<1>3. Geometry(g, pg)
  BY <1>1, <1>2, SameGeometry
<1>4. Lists(g, C)
  BY <1>2, RemoveLists
<1>5. Indexed(g, C)
  BY <1>1, <1>2 DEF Indexed
<1>6. Apart(g, C)
  BY <1>1, <1>2 DEF Apart
<1>7. C \in SUBSET DOMAIN g.tags
  BY <1>1, <1>2
<1>8. ASSUME NEW e \in Exponents
      PROVE  Waiting(g, C, e) = Waiting(h, B, e) \ {t}
  BY <1>1 DEF Waiting, InList, Whole
<1> QED
  BY <1>2, <1>3, <1>4, <1>5, <1>6, <1>7, <1>8 DEF Sound

\* The counts stay right where whole blocks neither come nor go.
LEMMA SameCounts ==
    ASSUME NEW h, NEW g, NEW B, NEW C, Counts(h, B), g.completePages = h.completePages,
           \A e \in Exponents : Waiting(g, C, e) = Waiting(h, B, e)
    PROVE  Counts(g, C)
  BY DEF Counts

\* The set of waiting blocks is finite.
LEMMA WaitingFinite ==
    ASSUME NEW h, NEW B, IsHeap(h), NEW e
    PROVE  IsFiniteSet(Waiting(h, B, e))
<1>1. Waiting(h, B, e) \in SUBSET DOMAIN h.tags /\ IsFiniteSet(DOMAIN h.tags)
  BY DEF Waiting, InList, IsHeap
<1> QED
  BY <1>1, FS_Subset

\* remove_tag of a piece that is not a whole block.
LEMMA RemoveGood ==
    ASSUME NEW h, NEW pg, NEW B, Good(h, pg, B), NEW t \in DOMAIN h.tags \ B,
           ~Whole(h.tags[t])
    PROVE  /\ Good(remove_tag(h, t), pg, B \cup {t})
           /\ Removed(remove_tag(h, t), h, t)
<1> DEFINE g == remove_tag(h, t)
<1>1. Sound(h, pg, B) /\ Counts(h, B) /\ IsHeap(h)
  BY DEF Good, Sound
<1>2. IsHeap(g) /\ Removed(g, h, t)
  BY <1>1, RemoveFields
<1> HIDE DEF g
<1>3. /\ Sound(g, pg, B \cup {t})
      /\ \A e \in Exponents : Waiting(g, B \cup {t}, e) = Waiting(h, B, e) \ {t}
  BY <1>1, <1>2, RemoveSound, SMTT(60)
<1>4. \A e \in Exponents : Waiting(g, B \cup {t}, e) = Waiting(h, B, e)
  BY <1>3 DEF Waiting
<1>5. g.completePages = h.completePages
  BY <1>2 DEF Removed
<1>6. Counts(g, B \cup {t})
  BY <1>1, <1>4, <1>5, SameCounts
<1> QED
  BY <1>2, <1>3, <1>6 DEF Good, g

\* Whether a heap is sound depends on the tags and the lists only.
LEMMA CountedSound ==
    ASSUME NEW h, NEW g, NEW pg, NEW B, Sound(h, pg, B), IsHeap(g),
           g.tags = h.tags, g.freePages = h.freePages
    PROVE  Sound(g, pg, B) /\ \A e : Waiting(g, B, e) = Waiting(h, B, e)
<1>1. Geometry(g, pg)
  BY SameGeometry DEF Sound
<1>2. Lists(g, B)
  BY DEF Sound, Lists, Linking, Ranked, Descends
<1>3. Indexed(g, B) /\ Apart(g, B)
  BY DEF Sound, Indexed, Apart
<1>4. \A e : Waiting(g, B, e) = Waiting(h, B, e)
  BY DEF Waiting, InList
<1> QED
  BY <1>1, <1>2, <1>3, <1>4 DEF Sound

\* The pieces of g are those of h.
SamePieces(g, h) ==
    /\ DOMAIN g.tags = DOMAIN h.tags
    /\ \A u \in DOMAIN h.tags :
          /\ g.tags[u].real_size = h.tags[u].real_size
          /\ g.tags[u].split_left = h.tags[u].split_left
          /\ g.tags[u].split_right = h.tags[u].split_right

\* malloc takes a tag off its list.
LEMMA TakeGood ==
    ASSUME NEW h, NEW pg, NEW B, Good(h, pg, B), NEW t \in DOMAIN h.tags \ B
    PROVE  Good(Take(h, t), pg, B \cup {t}) /\ SamePieces(Take(h, t), h)
<1> DEFINE r == h.tags[t]
           i == r.index
           f == remove_tag(h, t)
           n == IF Whole(r) THEN h.completePages[i] - 1 ELSE h.completePages[i]
           g == Take(h, t)
           C == B \cup {t}
<1>1. Sound(h, pg, B) /\ Counts(h, B) /\ IsHeap(h)
  BY DEF Good, Sound
<1>2. IsHeap(f) /\ Removed(f, h, t)
  BY <1>1, RemoveFields
<1>3. f.completePages = h.completePages
  BY <1>2 DEF Removed
<1>4. g = Counted(f, i, n)
  BY <1>3 DEF Take, Counted, Whole
<1>5. i \in Exponents
  BY <1>1, SoundTags
<1>6. /\ Sound(f, pg, C)
      /\ \A e \in Exponents : Waiting(f, C, e) = Waiting(h, B, e) \ {t}
  BY <1>1, <1>2, RemoveSound
<1>7. \A e \in Exponents : t \in Waiting(h, B, e) <=> e = i /\ Whole(r)
  BY DEF Waiting, InList
<1>8. \A e \in Exponents :
         /\ h.completePages[e] = Cardinality(Waiting(h, B, e))
         /\ h.completePages[e] \in Nat /\ h.completePages[e] <= MaxComplete
         /\ IsFiniteSet(Waiting(h, B, e))
  BY <1>1, WaitingFinite DEF Counts, IsHeap
<1> HIDE DEF i, r, f, g
<1>9. \A e \in Exponents :
         /\ IsFiniteSet(Waiting(f, C, e)) /\ Cardinality(Waiting(f, C, e)) \in Nat
         /\ Cardinality(Waiting(f, C, e)) =
               IF e = i /\ Whole(r) THEN h.completePages[e] - 1 ELSE h.completePages[e]
  <2> SUFFICES ASSUME NEW e \in Exponents
               PROVE  /\ IsFiniteSet(Waiting(f, C, e))
                      /\ Cardinality(Waiting(f, C, e)) \in Nat
                      /\ Cardinality(Waiting(f, C, e)) =
                            IF e = i /\ Whole(r) THEN h.completePages[e] - 1
                            ELSE h.completePages[e]
    OBVIOUS
  <2> DEFINE W == Waiting(h, B, e)
  <2>1. /\ IsFiniteSet(W \ {t})
        /\ Cardinality(W \ {t}) = IF t \in W THEN Cardinality(W) - 1 ELSE Cardinality(W)
    BY <1>8, FS_RemoveElement
  <2>2. Waiting(f, C, e) = W \ {t}
    BY <1>6
  <2>3. Cardinality(W \ {t}) \in Nat
    BY <2>1, FS_CardinalityType
  <2> QED
    BY <1>7, <1>8, <2>1, <2>2, <2>3
<1>10. n \in Nat /\ n <= MaxComplete /\ n = Cardinality(Waiting(f, C, i))
  <2> DEFINE m == Cardinality(Waiting(f, C, i))
             k == h.completePages[i]
  <2>1. m \in Nat /\ m = IF Whole(r) THEN k - 1 ELSE k
    BY <1>5, <1>9
  <2>2. k \in Nat /\ k <= MaxComplete /\ MaxComplete \in Nat
    BY <1>5, <1>8, Widths
  <2>3. n = IF Whole(r) THEN k - 1 ELSE k
    OBVIOUS
  <2> HIDE DEF m, k, n
  <2>4. n \in Nat /\ n <= MaxComplete /\ n = m
    BY <2>1, <2>2, <2>3
  <2> QED
    BY <2>4 DEF m
<1>11. /\ IsHeap(g) /\ g.tags = f.tags /\ g.freePages = f.freePages
       /\ \A d \in Exponents : g.completePages[d] =
                                  IF d = i THEN n ELSE f.completePages[d]
  <2> HIDE DEF n
  <2>1. n \in Nat
    BY <1>10
  <2> QED
    BY <1>2, <1>4, <1>5, <2>1, CountedFields
<1>12. Sound(g, pg, C) /\ \A e : Waiting(g, C, e) = Waiting(f, C, e)
  BY <1>6, <1>11, CountedSound
<1>13. Counts(g, C)
  <2> SUFFICES ASSUME NEW e \in Exponents
               PROVE  /\ g.completePages[e] = Cardinality(Waiting(g, C, e))
                      /\ g.completePages[e] <= MaxComplete
    BY DEF Counts
  <2>1. CASE e = i
    BY <1>10, <1>11, <1>12, <2>1
  <2>2. CASE e # i
    BY <1>3, <1>8, <1>9, <1>11, <1>12, <2>2
  <2> QED
    BY <2>1, <2>2
<1>14. SamePieces(g, h)
  BY <1>2, <1>11 DEF SamePieces, Removed, Places
<1> QED
  BY <1>12, <1>13, <1>14 DEF Good, g

\* A piece takes over its neighbour on the right; neither is in a list.
LEMMA SwallowGood ==
    ASSUME NEW h, NEW pg, NEW B, Good(h, pg, B), NEW left \in B, NEW t \in B,
           h.tags[left].split_right = t
    PROVE  /\ Good(Swallow(h, left, t), pg, B \ {t})
           /\ Swallowed(Swallow(h, left, t), h, left, t)
<1> DEFINE g == Swallow(h, left, t)
           C == B \ {t}
           r == h.tags[t]
<1>1. Sound(h, pg, B) /\ Counts(h, B) /\ IsHeap(h) /\ B \in SUBSET DOMAIN h.tags
  BY DEF Good, Sound
<1>2. /\ Geometry(h, pg) /\ Lists(h, B) /\ Indexed(h, B) /\ Apart(h, B)
      /\ pg \subseteq 1..LastPage
  BY <1>1 DEF Sound
<1>3. left \in DOMAIN h.tags /\ t \in DOMAIN h.tags
  BY <1>1
<1>4. IsHeap(g) /\ Swallowed(g, h, left, t)
  BY <1>1, <1>3, SwallowFields
<1> HIDE DEF g
<1>5. /\ DOMAIN g.tags = DOMAIN h.tags \ {t}
      /\ g.freePages = h.freePages /\ g.completePages = h.completePages
      /\ \A u \in DOMAIN h.tags \ {t} :
            /\ g.tags[u].index = h.tags[u].index
            /\ g.tags[u].next = h.tags[u].next /\ g.tags[u].prev = h.tags[u].prev
            /\ u # left => g.tags[u].real_size = h.tags[u].real_size
            /\ u # left => g.tags[u].split_right = h.tags[u].split_right
            /\ g.tags[u].split_left = IF u = r.split_right THEN left
                                      ELSE h.tags[u].split_left
  BY <1>4 DEF Swallowed, Others
<1>6. Geometry(g, pg)
  BY <1>1, <1>2, <1>3, <1>4, SwallowGeometry
<1>7. DOMAIN g.tags \ C = DOMAIN h.tags \ B
  BY <1>3, <1>5
<1>8. \A u \in DOMAIN h.tags \ B : u # t /\ u # left /\ u \in DOMAIN h.tags \ {t}
  BY <1>3
<1>9. \A u \in C :
         h.tags[u].index = -1 /\ h.tags[u].next = NULL /\ h.tags[u].prev = NULL
  BY <1>2 DEF Lists, Linking
<1>10. Lists(g, C)
  <2>1. \A u \in DOMAIN h.tags \ B :
           /\ g.tags[u].index = h.tags[u].index
           /\ g.tags[u].next = h.tags[u].next /\ g.tags[u].prev = h.tags[u].prev
    BY <1>5, <1>8
  <2>2. \A u \in C :
           g.tags[u].index = -1 /\ g.tags[u].next = NULL /\ g.tags[u].prev = NULL
    BY <1>1, <1>5, <1>9
  <2> HIDE DEF C
  <2> QED
    BY <1>2, <1>5, <1>7, <2>1, <2>2, SameLists
<1>11. Indexed(g, C)
  BY <1>2, <1>5, <1>7, <1>8 DEF Indexed
<1>12. left # NULL /\ t # NULL /\ h.tags[t].split_left = left
  BY <1>1, <1>3, SoundTags
<1>13. Apart(g, C)
  <2> SUFFICES ASSUME NEW u \in DOMAIN g.tags \ C
               PROVE  g.tags[u].split_right \in C \cup {NULL}
    BY DEF Apart
  <2>1. u \in DOMAIN h.tags \ B /\ u # left
    BY <1>7, <1>8
  <2>2. g.tags[u].split_right = h.tags[u].split_right
    BY <1>5, <1>8, <2>1
  <2>3. h.tags[u].split_right \in B \cup {NULL}
    BY <1>2, <2>1 DEF Apart
  <2>4. h.tags[u].split_right # t
    BY <1>1, <1>12, <2>1, SoundTags
  <2> QED
    BY <2>2, <2>3, <2>4
<1>14. ASSUME NEW u \in DOMAIN h.tags \ B
       PROVE  /\ Whole(g.tags[u]) <=> Whole(h.tags[u])
              /\ g.tags[u].index = h.tags[u].index
  <2>1. u = r.split_right => h.tags[u].split_left = t
    BY <1>1, <1>3, <1>12, SoundTags
  <2>2. u # left /\ u \in DOMAIN h.tags \ {t}
    BY <1>8
  <2> QED
    BY <1>5, <1>12, <2>1, <2>2 DEF Whole
<1>15. \A e \in Exponents : Waiting(g, C, e) = Waiting(h, B, e)
  BY <1>7, <1>14 DEF Waiting, InList
<1>16. Counts(g, C)
  <2> HIDE DEF C
  <2> QED
    BY <1>1, <1>5, <1>15, SameCounts
<1>17. C \in SUBSET DOMAIN g.tags
  BY <1>1, <1>5
<1> QED
  BY <1>2, <1>4, <1>6, <1>10, <1>11, <1>13, <1>16, <1>17 DEF Good, Sound, g

\* The blocks that wait in g are those that wait in h, and t if it is whole.
Joins(g, C, h, B, t, i) ==
    \A e \in Exponents :
       Waiting(g, C, e) = Waiting(h, B, e) \cup {u \in {t} : e = i /\ Whole(h.tags[t])}

\* A tag whose neighbours are not free enters the list of its size.
LEMMA InsertSound ==
    ASSUME NEW h, NEW g, NEW pg, NEW B, Sound(h, pg, B), NEW t \in B, NEW i,
           i = ListOf(h.tags[t].real_size), i \in Exponents,
           h.tags[t].split_left \in B \cup {NULL}, h.tags[t].split_right \in B \cup {NULL},
           IsHeap(g), Inserted(g, h, t, i)
    PROVE  Sound(g, pg, B \ {t}) /\ Joins(g, B \ {t}, h, B, t, i)
<1> DEFINE C == B \ {t}
<1>1. /\ IsHeap(h) /\ B \in SUBSET DOMAIN h.tags /\ pg \subseteq 1..LastPage
      /\ Geometry(h, pg) /\ Lists(h, B) /\ Indexed(h, B) /\ Apart(h, B)
  BY DEF Sound
<1>2. /\ DOMAIN g.tags = DOMAIN h.tags
      /\ \A u \in DOMAIN h.tags :
            /\ g.tags[u].real_size = h.tags[u].real_size
            /\ g.tags[u].split_left = h.tags[u].split_left
            /\ g.tags[u].split_right = h.tags[u].split_right
            /\ g.tags[u].index = IF u = t THEN i ELSE h.tags[u].index
  BY DEF Inserted, Places
<1>3. t \in DOMAIN h.tags
  BY <1>1
<1>4. Geometry(g, pg)
  BY <1>1, <1>2, SameGeometry
<1>5. Lists(g, C)
  BY <1>1, InsertLists
<1>6. DOMAIN g.tags \ C = (DOMAIN h.tags \ B) \cup {t}
  BY <1>2, <1>3
<1>7. Indexed(g, C)
  BY <1>1, <1>2, <1>3, <1>6 DEF Indexed
<1>8. Apart(g, C)
  <2> SUFFICES ASSUME NEW u \in DOMAIN g.tags \ C
               PROVE  g.tags[u].split_right \in C \cup {NULL}
    BY DEF Apart
  <2>1. CASE u = t
    BY <1>2, <1>3, <2>1, SoundTags
  <2>2. CASE u # t
    <3>1. u \in DOMAIN h.tags \ B /\ g.tags[u].split_right = h.tags[u].split_right
      BY <1>2, <1>6, <2>2
    <3>2. h.tags[u].split_right \in B \cup {NULL}
      BY <1>1, <3>1 DEF Apart
    <3>3. h.tags[u].split_right = t => h.tags[t].split_left = u /\ t # NULL /\ u # NULL
      BY <1>3, <3>1, SoundTags
    <3> QED
      BY <3>1, <3>2, <3>3
  <2> QED
    BY <2>1, <2>2
<1>9. ASSUME NEW e \in Exponents
      PROVE  Waiting(g, C, e) =
                Waiting(h, B, e) \cup {u \in {t} : e = i /\ Whole(h.tags[t])}
  BY <1>2, <1>3, <1>6 DEF Waiting, InList, Whole
<1>10. C \in SUBSET DOMAIN g.tags
  BY <1>1, <1>2
<1>11. Joins(g, C, h, B, t, i)
  BY <1>9 DEF Joins
<1> QED
  BY <1>1, <1>4, <1>5, <1>7, <1>8, <1>10, <1>11 DEF Sound

\* The rest of a piece that no list has is cut off.
LEMMA CutSound ==
    ASSUME NEW h, NEW g, NEW pg, NEW B, NEW new, Sound(h, pg, B), NEW t \in B,
           Rest(h, t) > TagSize, new = NewTag(h, t),
           h.tags[t].split_right \in B \cup {NULL}, IsHeap(g), WasCut(g, h, t, new)
    PROVE  /\ Sound(g, pg, B \cup {new})
           /\ \A e \in Exponents : Waiting(g, B \cup {new}, e) = Waiting(h, B, e)
<1> DEFINE C == B \cup {new}
<1>1. /\ IsHeap(h) /\ B \in SUBSET DOMAIN h.tags /\ pg \subseteq 1..LastPage
      /\ Geometry(h, pg) /\ Lists(h, B) /\ Indexed(h, B) /\ Apart(h, B)
  BY DEF Sound
<1>2. t \in DOMAIN h.tags
  BY <1>1
<1>3. new \notin DOMAIN h.tags
  BY <1>1, <1>2, RestIsThere DEF HasRest
<1>4. /\ DOMAIN g.tags = DOMAIN h.tags \cup {new} /\ g.freePages = h.freePages
      /\ g.tags[new].index = -1 /\ g.tags[new].next = NULL /\ g.tags[new].prev = NULL
      /\ \A u \in DOMAIN h.tags :
            /\ g.tags[u].index = h.tags[u].index
            /\ g.tags[u].next = h.tags[u].next /\ g.tags[u].prev = h.tags[u].prev
            /\ u # t => g.tags[u].real_size = h.tags[u].real_size
            /\ u # t => g.tags[u].split_right = h.tags[u].split_right
            /\ u # h.tags[t].split_right => g.tags[u].split_left = h.tags[u].split_left
  BY DEF WasCut, Others
<1>5. Geometry(g, pg)
  BY <1>1, <1>2, CutGeometry
<1>6. DOMAIN g.tags \ C = DOMAIN h.tags \ B
  BY <1>3, <1>4
<1>7. \A u \in DOMAIN h.tags \ B :
         u # t /\ u # h.tags[t].split_right /\ u \in DOMAIN h.tags
  <2>1. NULL \notin DOMAIN h.tags
    BY <1>1 DEF IsHeap, NULL
  <2> QED
    BY <2>1
<1>8. Lists(g, C)
  <2>1. \A u \in DOMAIN h.tags \ B :
           /\ g.tags[u].index = h.tags[u].index
           /\ g.tags[u].next = h.tags[u].next /\ g.tags[u].prev = h.tags[u].prev
    BY <1>4
  <2>2. \A u \in B :
           h.tags[u].index = -1 /\ h.tags[u].next = NULL /\ h.tags[u].prev = NULL
    BY <1>1 DEF Lists, Linking
  <2>3. \A u \in C :
           g.tags[u].index = -1 /\ g.tags[u].next = NULL /\ g.tags[u].prev = NULL
    BY <1>1, <1>4, <2>2
  <2> HIDE DEF C
  <2> QED
    BY <1>1, <1>4, <1>6, <2>1, <2>3, SameLists
<1>9. Indexed(g, C)
  BY <1>1, <1>4, <1>6, <1>7 DEF Indexed
<1>10. Apart(g, C)
  BY <1>1, <1>4, <1>6, <1>7 DEF Apart
<1>11. \A e \in Exponents : Waiting(g, C, e) = Waiting(h, B, e)
  BY <1>4, <1>6, <1>7 DEF Waiting, InList, Whole
<1>12. C \in SUBSET DOMAIN g.tags
  BY <1>1, <1>4
<1> QED
  BY <1>1, <1>5, <1>8, <1>9, <1>10, <1>11, <1>12 DEF Sound

\* split_tag: what is left of t is what was asked for.
LEMMA SplitGood ==
    ASSUME NEW h, NEW pg, NEW B, Good(h, pg, B), NEW t \in B,
           Rest(h, t) > TagSize,
           h.tags[t].split_right \in B \cup {NULL}
    PROVE  /\ Good(split_tag(h, t), pg, B)
           /\ split_tag(h, t).tags[t].real_size = TagSize + h.tags[t].size
           /\ \A u \in B \ {t} : split_tag(h, t).tags[u].real_size = h.tags[u].real_size
<1> DEFINE new == NewTag(h, t)
           f == Cut(h, t)
           i == ListOf(Rest(h, t))
           g == split_tag(h, t)
           C == B \cup {new}
<1>1. /\ Sound(h, pg, B) /\ Counts(h, B) /\ IsHeap(h) /\ B \in SUBSET DOMAIN h.tags
      /\ Geometry(h, pg)
  BY DEF Good, Sound
<1>2. t \in DOMAIN h.tags /\ t # NULL
  BY <1>1, SoundTags
<1>3. /\ HasRest(h, t) /\ Rest(h, t) \in Nat /\ new \notin DOMAIN h.tags
  BY <1>1, <1>2, RestIsThere DEF HasRest
<1>4. IsHeap(f) /\ WasCut(f, h, t, new)
  BY <1>1, <1>2, <1>3, CutFields
<1>5. g = insert_tag(f, new, i) /\ i \in Exponents
  BY <1>3, SplitInserts, ListExists
<1> HIDE DEF f, g, new, i
<1>6. /\ Sound(f, pg, C)
      /\ \A e \in Exponents : Waiting(f, C, e) = Waiting(h, B, e)
  BY <1>1, <1>4, CutSound DEF new
<1>7. /\ f.tags[new].real_size = Rest(h, t) /\ f.tags[new].split_left = t
      /\ f.tags[new].split_right = h.tags[t].split_right
      /\ f.completePages = h.completePages
      /\ f.tags[t].real_size = h.tags[t].real_size - Rest(h, t)
      /\ \A u \in DOMAIN h.tags \ {t} : f.tags[u].real_size = h.tags[u].real_size
      /\ DOMAIN f.tags = DOMAIN h.tags \cup {new}
  BY <1>2, <1>4 DEF WasCut
<1>8. IsHeap(g) /\ Inserted(g, f, new, i)
  BY <1>4, <1>5, <1>7, InsertFields
<1>9. C \ {new} = B
  BY <1>1, <1>3
<1>10. /\ Sound(g, pg, B)
       /\ \A e \in Exponents :
             Waiting(g, B, e) =
                Waiting(f, C, e) \cup {u \in {new} : e = i /\ Whole(f.tags[new])}
  <2>1. new \in C /\ i = ListOf(f.tags[new].real_size)
    BY <1>7 DEF i
  <2>2. /\ f.tags[new].split_left \in C \cup {NULL}
        /\ f.tags[new].split_right \in C \cup {NULL}
    BY <1>7
  <2> HIDE DEF C
  <2>3. Sound(g, pg, C \ {new}) /\ Joins(g, C \ {new}, f, C, new, i)
    BY <1>5, <1>6, <1>8, <2>1, <2>2, InsertSound
  <2> QED
    BY <1>9, <2>3 DEF Joins
<1>11. ~Whole(f.tags[new])
  BY <1>2, <1>7 DEF Whole
<1>12. \A e \in Exponents : Waiting(g, B, e) = Waiting(h, B, e)
  BY <1>6, <1>10, <1>11
<1>13. g.completePages = h.completePages
  BY <1>7, <1>8 DEF Inserted
<1>14. Counts(g, B)
  BY <1>1, <1>12, <1>13, SameCounts
<1>15. \A u \in DOMAIN h.tags : g.tags[u].real_size = f.tags[u].real_size
  BY <1>7, <1>8 DEF Inserted, Places
<1>16. h.tags[t].real_size - Rest(h, t) = TagSize + h.tags[t].size
  <2> DEFINE n == h.tags[t].real_size
             s == h.tags[t].size
  <2>1. Rest(h, t) = n - TagSize - s /\ n \in Nat /\ s \in Nat /\ TagSize \in Nat
    BY <1>1, <1>2, Widths DEF Rest, IsHeap, IsTag
  <2> HIDE DEF n, s
  <2>2. n - Rest(h, t) = TagSize + s
    BY <2>1
  <2> QED
    BY <2>2 DEF n, s
<1> QED
  BY <1>1, <1>2, <1>7, <1>10, <1>14, <1>15, <1>16 DEF Good, g

\* g is the heap h with a whole block of n pages at t.
NewBlock(g, h, t, n) ==
    /\ t \notin DOMAIN h.tags /\ t \in Nat
    /\ g.tags[t].real_size = n * PageSize
    /\ g.tags[t].split_left = NULL /\ g.tags[t].split_right = NULL
    /\ \A u \in DOMAIN h.tags : g.tags[u] = h.tags[u]

\* allocate_new_tag: a new block over pages that the heap did not have.
LEMMA AllocateGood ==
    ASSUME NEW h, NEW pg, NEW B, Good(h, pg, B), NEW size \in Nat,
           size + TagSize + PageSize <= 2^MaxExp,
           NEW n, n = PagesFor(size), NEW a \in 1..LastPage, IsNew(pg, a, n),
           NEW t, t = a * PageSize
    PROVE  /\ Good(allocate_new_tag(h, t, size), pg \cup Run(a, n), B \cup {t})
           /\ NewBlock(allocate_new_tag(h, t, size), h, t, n)
<1> DEFINE m == n * PageSize
           g == allocate_new_tag(h, t, size)
           C == B \cup {t}
           P == a..a + n - 1
<1>0. Run(a, n) = P
  BY DEF Run
<1>1. /\ Sound(h, pg, B) /\ Counts(h, B) /\ IsHeap(h) /\ B \in SUBSET DOMAIN h.tags
      /\ pg \subseteq 1..LastPage
      /\ Geometry(h, pg) /\ Lists(h, B) /\ Indexed(h, B) /\ Apart(h, B)
  BY DEF Good, Sound
<1>2. /\ n \in Nat /\ n >= PageCount /\ m \in Nat /\ m >= TagSize
      /\ m < 2^MaxExp /\ UInt(m) = m /\ UInt(size) \in Nat
  <2>1. /\ UInt(size) = size
        /\ n \in Nat /\ n >= PageCount /\ m \in Nat
        /\ size + TagSize <= m /\ m < 2^MaxExp /\ UInt(m) = m
    BY PagesAreEnough
  <2> HIDE DEF m
  <2>2. m >= TagSize
    BY <2>1, Widths
  <2> QED
    BY <2>1, <2>2
<1>3. n # 0
  BY <1>2, Widths
<1>4. UInt(PagesFor(size) * PageSize) = m
  BY <1>2
<1> HIDE DEF m
<1>5. a \in Nat \ {0} /\ P \subseteq 1..LastPage /\ P \cap pg = {} /\ pg \subseteq Nat
  <2>1. P \subseteq 1..LastPage \ pg
    BY <1>0 DEF IsNew
  <2> QED
    BY <1>1, <2>1, SizesAssumption
<1>6. t \in Nat \ {0} /\ (a + n) * PageSize > t /\ (a + n) * PageSize \in Nat
  <2>1. PageSize \in Nat \ {0}
    BY Widths
  <2>2. (a + 1) * PageSize = a * PageSize + PageSize /\ a * PageSize \in Int
    BY <1>5, <2>1, Multiply
  <2>3. (a + 1) * PageSize <= (a + n) * PageSize /\ (a + n) * PageSize \in Int
    BY <1>2, <1>3, <1>5, <2>1, Multiply
  <2>4. a * PageSize > 0
    BY <1>5, <2>1
  <2> QED
    BY <2>1, <2>2, <2>3, <2>4
<1>7. t \notin DOMAIN h.tags
  <2> SUFFICES ASSUME t \in DOMAIN h.tags PROVE FALSE
    OBVIOUS
  <2>1. EndOf(h, t) <= t \/ (a + n) * PageSize <= t \/ n = 0
    BY <1>1, <1>2, <1>5, RunIsFree
  <2>2. t < EndOf(h, t) /\ EndOf(h, t) \in Nat
    BY <1>1, SoundTags
  <2> QED
    BY <1>3, <1>6, <2>1, <2>2
<1>8. IsHeap(g) /\ Enlarged(g, h, t, m)
  BY <1>1, <1>2, <1>4, <1>6, <1>7, AllocateFields
<1> HIDE DEF g
<1>9. /\ DOMAIN g.tags = DOMAIN h.tags \cup {t}
      /\ g.freePages = h.freePages /\ g.completePages = h.completePages
      /\ \A u \in DOMAIN h.tags : g.tags[u] = h.tags[u]
      /\ g.tags[t].real_size = m /\ g.tags[t].index = -1
      /\ g.tags[t].split_left = NULL /\ g.tags[t].split_right = NULL
      /\ g.tags[t].next = NULL /\ g.tags[t].prev = NULL
  BY <1>8 DEF Enlarged
<1>10. Geometry(g, pg \cup P)
  <2>1. Enlarged(g, h, a * PageSize, n * PageSize)
    BY <1>8 DEF m
  <2>2. n * PageSize < 2^MaxExp /\ n * PageSize >= TagSize
    BY <1>2 DEF m
  <2> QED
    BY <1>1, <1>2, <1>5, <2>1, <2>2, AllocateGeometry
<1>11. DOMAIN g.tags \ C = DOMAIN h.tags \ B
  BY <1>7, <1>9
<1>12. Lists(g, C)
  <2>1. \A u \in B :
           h.tags[u].index = -1 /\ h.tags[u].next = NULL /\ h.tags[u].prev = NULL
    BY <1>1 DEF Lists, Linking
  <2>2. \A u \in C :
           g.tags[u].index = -1 /\ g.tags[u].next = NULL /\ g.tags[u].prev = NULL
    BY <1>1, <1>9, <2>1
  <2> HIDE DEF C
  <2> QED
    BY <1>1, <1>9, <1>11, <2>2, SameLists
<1>13. Indexed(g, C)
  BY <1>1, <1>9, <1>11 DEF Indexed
<1>14. Apart(g, C)
  BY <1>1, <1>9, <1>11 DEF Apart
<1>15. \A e \in Exponents : Waiting(g, C, e) = Waiting(h, B, e)
  BY <1>9, <1>11 DEF Waiting, InList
<1>16. Counts(g, C)
  <2> HIDE DEF C
  <2> QED
    BY <1>1, <1>9, <1>15, SameCounts
<1>17. C \in SUBSET DOMAIN g.tags /\ pg \cup P \subseteq 1..LastPage
  BY <1>1, <1>5, <1>9
<1>18. Good(g, pg \cup P, C)
  BY <1>8, <1>10, <1>12, <1>13, <1>14, <1>16, <1>17 DEF Good, Sound
<1> QED
  BY <1>0, <1>6, <1>7, <1>9, <1>18 DEF g, m, NewBlock

\* Another size in a tag that no list has changes nothing.
LEMMA SizedGood ==
    ASSUME NEW h, NEW pg, NEW B, Good(h, pg, B), NEW t \in DOMAIN h.tags, NEW n \in Nat
    PROVE  /\ Good(Sized(h, t, n), pg, B) /\ SamePieces(Sized(h, t, n), h)
           /\ Sized(h, t, n).tags[t].size = n
<1> DEFINE g == Sized(h, t, n)
<1>1. /\ Sound(h, pg, B) /\ Counts(h, B) /\ IsHeap(h) /\ B \in SUBSET DOMAIN h.tags
      /\ pg \subseteq 1..LastPage
      /\ Geometry(h, pg) /\ Lists(h, B) /\ Indexed(h, B) /\ Apart(h, B)
  BY DEF Good, Sound
<1>2. /\ IsHeap(g) /\ DOMAIN g.tags = DOMAIN h.tags /\ g.tags[t].size = n
      /\ \A u \in DOMAIN h.tags : \A x \in TagFields \ {"size"} :
            g.tags[u][x] = h.tags[u][x]
      /\ g.freePages = h.freePages /\ g.completePages = h.completePages
  BY <1>1, SizedFields
<1> HIDE DEF g
<1>3. \A u \in DOMAIN h.tags :
         /\ g.tags[u].real_size = h.tags[u].real_size
         /\ g.tags[u].split_left = h.tags[u].split_left
         /\ g.tags[u].split_right = h.tags[u].split_right
         /\ g.tags[u].index = h.tags[u].index
         /\ g.tags[u].next = h.tags[u].next /\ g.tags[u].prev = h.tags[u].prev
  BY <1>2 DEF TagFields
<1>4. SamePieces(g, h)
  BY <1>2, <1>3 DEF SamePieces
<1>5. Geometry(g, pg)
  BY <1>1, <1>2, <1>3, SameGeometry
<1>6. Lists(g, B)
  <2>1. \A u \in B :
           h.tags[u].index = -1 /\ h.tags[u].next = NULL /\ h.tags[u].prev = NULL
    BY <1>1 DEF Lists, Linking
  <2>2. \A u \in B :
           g.tags[u].index = -1 /\ g.tags[u].next = NULL /\ g.tags[u].prev = NULL
    BY <1>1, <1>3, <2>1
  <2> QED
    BY <1>1, <1>2, <1>3, <2>2, SameLists
<1>7. Indexed(g, B) /\ Apart(g, B)
  BY <1>1, <1>2, <1>3 DEF Indexed, Apart
<1>8. \A e \in Exponents : Waiting(g, B, e) = Waiting(h, B, e)
  BY <1>2, <1>3 DEF Waiting, InList, Whole
<1>9. Counts(g, B)
  BY <1>1, <1>2, <1>8, SameCounts
<1>10. Good(g, pg, B)
  BY <1>1, <1>2, <1>5, <1>6, <1>7, <1>9 DEF Good, Sound
<1> QED
  BY <1>2, <1>4, <1>10 DEF g

\* No piece is larger than an unsigned int counts.
LEMMA PieceIsSmall ==
    ASSUME NEW h, NEW pg, NEW B, Sound(h, pg, B), NEW t \in DOMAIN h.tags
    PROVE  h.tags[t].real_size < 2^MaxExp
<1>1. PICK lo, hi \in [DOMAIN h.tags -> Nat] : InBlocks(h, lo, hi)
  BY DEF Sound, Geometry, Blocks
<1>2. lo[t] <= t /\ EndOf(h, t) <= hi[t] /\ hi[t] - lo[t] < 2^MaxExp
  BY <1>1 DEF InBlocks, IsBlock
<1> DEFINE n == h.tags[t].real_size
           a == lo[t]
           b == hi[t]
           w == 2^MaxExp
<1>3. t \in Nat /\ n \in Nat /\ a \in Nat /\ b \in Nat /\ w \in Nat
  BY <1>1, SoundTags, Widths
<1>4. a <= t /\ t + n <= b /\ b - a < w
  BY <1>2 DEF EndOf
<1> HIDE DEF n, a, b, w
<1>5. n < w
  BY <1>3, <1>4
<1> QED
  BY <1>5 DEF n, w

\* A size for which a piece has room is one that an unsigned int counts.
LEMMA RoomIsSmall ==
    ASSUME NEW h, NEW pg, NEW B, Good(h, pg, B), NEW t \in DOMAIN h.tags, NEW size \in Nat,
           TagSize + size <= h.tags[t].real_size
    PROVE  UInt(size) = size
<1> DEFINE n == h.tags[t].real_size
           w == 2^MaxExp
<1>1. Sound(h, pg, B)
  BY DEF Good
<1>2. n \in Nat /\ n < w /\ w \in Nat /\ TagSize \in Nat /\ TagSize + size <= n
  BY <1>1, SoundTags, PieceIsSmall, Widths
<1> HIDE DEF n, w
<1>3. size < w
  BY <1>2
<1> QED
  BY <1>3, NoWrap DEF w

\* The end of malloc: t gets its size, and its rest goes to a list.
LEMMA SplitRestGood ==
    ASSUME NEW h, NEW pg, NEW B, Good(h, pg, B), NEW t \in B, NEW size \in Nat,
           TagSize + size <= h.tags[t].real_size,
           h.tags[t].split_right \in B \cup {NULL}
    PROVE  /\ Good(SplitRest(h, t, size), pg, B)
           /\ TagSize + size <= SplitRest(h, t, size).tags[t].real_size
           /\ \A u \in B \ {t} :
                 SplitRest(h, t, size).tags[u].real_size = h.tags[u].real_size
<1> DEFINE g == Sized(h, t, size)
           n == h.tags[t].real_size
           rest == AsInt(UInt(n - size - 2 * TagSize))
           k == SplitRest(h, t, size)
<1>1. UInt(size) = size
  <2>1. t \in DOMAIN h.tags
    BY DEF Good, Sound
  <2> QED
    BY <2>1, RoomIsSmall
<1>2. k = IF rest > 0 /\ getexp(rest) >= 0 THEN split_tag(g, t) ELSE g
  BY <1>1 DEF SplitRest, Sized
<1>3. Sound(h, pg, B) /\ t \in DOMAIN h.tags /\ B \in SUBSET DOMAIN h.tags
  BY DEF Good, Sound
<1>4. n \in Nat /\ n < 2^MaxExp /\ TagSize \in Nat
  BY <1>3, SoundTags, PieceIsSmall, Widths
<1>5. Good(g, pg, B) /\ SamePieces(g, h) /\ g.tags[t].size = size
  BY <1>1, <1>3, SizedGood
<1> HIDE DEF g
<1>6. /\ g.tags[t].real_size = n /\ g.tags[t].split_right = h.tags[t].split_right
      /\ \A u \in B : g.tags[u].real_size = h.tags[u].real_size
  BY <1>3, <1>5 DEF SamePieces
<1>7. CASE rest > 0 /\ getexp(rest) >= 0
  <2>1. rest = n - size - 2 * TagSize
    BY <1>1, <1>4, <1>7, RestIsRight
  <2> HIDE DEF rest, n
  <2>2. Rest(g, t) = n - TagSize - size
    BY <1>5, <1>6 DEF Rest
  <2>3. Rest(g, t) > TagSize
    BY <1>1, <1>4, <1>7, <2>1, <2>2
  <2>5. /\ Good(split_tag(g, t), pg, B)
        /\ split_tag(g, t).tags[t].real_size = TagSize + g.tags[t].size
        /\ \A u \in B \ {t} : split_tag(g, t).tags[u].real_size = g.tags[u].real_size
    BY <1>5, <1>6, <2>3, SplitGood
  <2>6. k = split_tag(g, t)
    BY <1>2, <1>7
  <2> HIDE DEF k
  <2>7. TagSize + size <= TagSize + size
    BY <1>1, <1>4
  <2>8. k.tags[t].real_size = TagSize + size
    BY <1>5, <2>5, <2>6
  <2>9. Good(k, pg, B) /\ \A u \in B \ {t} : k.tags[u].real_size = h.tags[u].real_size
    BY <1>6, <2>5, <2>6
  <2> QED
    BY <2>7, <2>8, <2>9 DEF k
<1>8. CASE ~(rest > 0 /\ getexp(rest) >= 0)
  <2>1. k = g
    BY <1>2, <1>8
  <2> HIDE DEF k
  <2>2. Good(k, pg, B) /\ k.tags[t].real_size = h.tags[t].real_size
    BY <1>5, <1>6, <2>1
  <2>3. \A u \in B \ {t} : k.tags[u].real_size = h.tags[u].real_size
    BY <1>6, <2>1
  <2> QED
    BY <2>2, <2>3 DEF k
<1> QED
  BY <1>7, <1>8

\* malloc: a good heap with one more piece that is not free, with room for what
\* was asked for; the other pieces in use stay.
Yields(r, h, B, size) ==
    /\ Good(r.heap, r.pages, B \cup {r.tag}) /\ r.tag \notin B
    /\ TagSize + UInt(size) <= r.heap.tags[r.tag].real_size
    /\ \A u \in B : r.heap.tags[u].real_size = h.tags[u].real_size

LEMMA MallocGood ==
    ASSUME NEW h, NEW pg, NEW B, Good(h, pg, B), NEW size \in Nat, NEW first \in 1..LastPage,
           Served(h, pg, size, first)
    PROVE  Yields(MallocResult(h, pg, size, first), h, B, size)
<1> DEFINE fit == FirstFit(h, size)
           s == UInt(size)
           n == PagesFor(s)
           t == IF fit # NULL THEN fit ELSE first * PageSize
           g == IF fit # NULL THEN Take(h, t) ELSE allocate_new_tag(h, t, s)
           qg == IF fit # NULL THEN pg ELSE pg \cup Run(first, n)
           r == MallocResult(h, pg, size, first)
           k == SplitRest(g, t, s)
<1>1. r = [heap |-> k, pages |-> qg, tag |-> t]
  BY DEF MallocResult
<1>2. r.heap = k /\ r.pages = qg /\ r.tag = t
  BY <1>1
<1>3. /\ Sound(h, pg, B) /\ IsHeap(h) /\ Lists(h, B) /\ Apart(h, B)
      /\ B \in SUBSET DOMAIN h.tags
  BY DEF Good, Sound
<1>4. s \in Nat /\ TagSize \in Nat
  BY UIntNat, Widths
<1>5. /\ Good(g, qg, B \cup {t}) /\ t \notin B
      /\ TagSize + s <= g.tags[t].real_size
      /\ g.tags[t].split_right \in B \cup {NULL}
      /\ \A u \in B : g.tags[u].real_size = h.tags[u].real_size
  <2>1. CASE fit # NULL
    <3>1. fit \in DOMAIN h.tags \ B /\ Fits(h.tags[fit], size)
      BY <1>3, <2>1, FirstFitYields
    <3>2. t = fit /\ g = Take(h, t) /\ qg = pg
      BY <2>1
    <3> HIDE DEF g, t, qg, fit
    <3>3. Good(g, pg, B \cup {t}) /\ SamePieces(g, h)
      BY <3>1, <3>2, TakeGood
    <3>4. TagSize + s <= h.tags[t].real_size
      <4> DEFINE m == h.tags[t].real_size
      <4>1. m \in Nat /\ m - TagSize >= size + TagSize
        BY <1>3, <3>1, <3>2, SoundTags DEF Fits
      <4> HIDE DEF m
      <4>2. TagSize + size <= m
        BY <1>4, <4>1
      <4>3. s = size
        BY <3>1, <3>2, <4>2, RoomIsSmall DEF m
      <4> QED
        BY <4>2, <4>3 DEF m
    <3>5. h.tags[t].split_right \in B \cup {NULL}
      BY <1>3, <3>1, <3>2 DEF Apart
    <3>6. \A u \in DOMAIN h.tags :
             /\ g.tags[u].real_size = h.tags[u].real_size
             /\ g.tags[u].split_right = h.tags[u].split_right
      BY <3>3 DEF SamePieces
    <3>7. t \in DOMAIN h.tags /\ t \notin B
      BY <3>1, <3>2
    <3> QED
      BY <1>3, <3>2, <3>3, <3>4, <3>5, <3>6, <3>7
  <2>2. CASE fit = NULL
    <3>1. IsNew(pg, first, n) /\ ~Wraps(size)
      BY <2>2 DEF Served
    <3>2. s + TagSize + PageSize <= 2^MaxExp
      <4> DEFINE w == 2^MaxExp
      <4>1. w \in Nat /\ PageSize \in Nat /\ ~(s + TagSize + PageSize > w)
        BY <3>1, Widths DEF Wraps
      <4> HIDE DEF w, s
      <4>2. s + TagSize + PageSize <= w
        BY <1>4, <4>1
      <4> QED
        BY <4>2 DEF w
    <3>3. /\ t = first * PageSize /\ g = allocate_new_tag(h, t, s)
          /\ qg = pg \cup Run(first, n)
      BY <2>2
    <3> HIDE DEF g, t, qg, fit, s
    <3>4. /\ n \in Nat /\ n * PageSize \in Nat /\ s + TagSize <= n * PageSize
      BY <1>4, <3>2, PagesAreEnough
    <3>5. /\ Good(g, qg, B \cup {t}) /\ t \notin DOMAIN h.tags
          /\ g.tags[t].real_size = n * PageSize /\ g.tags[t].split_right = NULL
          /\ \A u \in DOMAIN h.tags : g.tags[u] = h.tags[u]
      <4> HIDE DEF n
      <4>1. n = PagesFor(s)
        BY DEF n
      <4>2. /\ Good(allocate_new_tag(h, t, s), pg \cup Run(first, n), B \cup {t})
            /\ NewBlock(allocate_new_tag(h, t, s), h, t, n)
        BY <1>4, <3>1, <3>2, <3>3, <4>1, AllocateGood
      <4> QED
        BY <3>3, <4>2 DEF NewBlock
    <3>6. TagSize + s <= g.tags[t].real_size
      <4> HIDE DEF n
      <4>1. TagSize + s <= n * PageSize
        BY <1>4, <3>4
      <4> QED
        BY <3>5, <4>1
    <3> QED
      BY <1>3, <3>5, <3>6
  <2> QED
    BY <2>1, <2>2
<1> HIDE DEF g, t, qg, s
<1>6. /\ Good(k, qg, B \cup {t})
      /\ TagSize + s <= k.tags[t].real_size
      /\ \A u \in (B \cup {t}) \ {t} : k.tags[u].real_size = g.tags[u].real_size
  <2> DEFINE C == B \cup {t}
  <2>1. t \in C /\ Good(g, qg, C) /\ g.tags[t].split_right \in C \cup {NULL}
    BY <1>5
  <2> HIDE DEF C
  <2>2. /\ Good(k, qg, C)
        /\ TagSize + s <= k.tags[t].real_size
        /\ \A u \in C \ {t} : k.tags[u].real_size = g.tags[u].real_size
    BY <1>4, <1>5, <2>1, SplitRestGood
  <2> QED
    BY <2>2 DEF C
<1> HIDE DEF k, r
<1>7. \A u \in B : k.tags[u].real_size = h.tags[u].real_size
  BY <1>5, <1>6
<1> QED
  BY <1>2, <1>5, <1>6, <1>7 DEF r, s, Yields

\* A whole block that free gives back to the hook.
LEMMA DropGood ==
    ASSUME NEW h, NEW pg, NEW B, Good(h, pg, B), NEW t \in B, Whole(h.tags[t]),
           NEW first, first = t \div PageSize
    PROVE  /\ Good(Dropped(h, t), pg \ (first..first + PagesBack(h.tags[t]) - 1), B \ {t})
           /\ \A u \in B \ {t} : Dropped(h, t).tags[u] = h.tags[u]
<1> DEFINE g == Dropped(h, t)
           C == B \ {t}
<1>1. /\ Sound(h, pg, B) /\ Counts(h, B) /\ IsHeap(h) /\ B \in SUBSET DOMAIN h.tags
      /\ pg \subseteq 1..LastPage
      /\ Geometry(h, pg) /\ Lists(h, B) /\ Indexed(h, B) /\ Apart(h, B)
  BY DEF Good, Sound
<1>2. /\ t \in DOMAIN h.tags /\ t # NULL
      /\ h.tags[t].split_left = NULL /\ h.tags[t].split_right = NULL
  BY <1>1, SoundTags DEF Whole
<1>3. PICK a, n \in Nat : /\ t = a * PageSize /\ EndOf(h, t) = (a + n) * PageSize
                          /\ t \div PageSize = a /\ PagesBack(h.tags[t]) = n
  BY <1>1, <1>2, WholeBlock
<1> DEFINE qg == pg \ (a..a + n - 1)
<1>4. qg = pg \ (first..first + PagesBack(h.tags[t]) - 1)
  BY <1>3
<1>5. /\ IsHeap(g) /\ DOMAIN g.tags = DOMAIN h.tags \ {t}
      /\ \A u \in DOMAIN h.tags \ {t} : g.tags[u] = h.tags[u]
      /\ g.freePages = h.freePages /\ g.completePages = h.completePages
  BY <1>1, DroppedFields
<1> HIDE DEF g
<1>6. Geometry(g, qg)
  <2>1. pg \subseteq Nat
    BY <1>1
  <2> QED
    BY <1>1, <1>2, <1>3, <1>5, <2>1, DropGeometry, ZenonT(60)
<1> HIDE DEF qg
<1>7. DOMAIN g.tags \ C = DOMAIN h.tags \ B
  BY <1>2, <1>5
<1>8. \A u \in DOMAIN h.tags \ B : g.tags[u] = h.tags[u]
  BY <1>2, <1>5
<1>9. Lists(g, C)
  <2>1. \A u \in C :
           h.tags[u].index = -1 /\ h.tags[u].next = NULL /\ h.tags[u].prev = NULL
    BY <1>1 DEF Lists, Linking
  <2>2. \A u \in C :
           g.tags[u].index = -1 /\ g.tags[u].next = NULL /\ g.tags[u].prev = NULL
    BY <1>1, <1>5, <2>1
  <2> HIDE DEF C
  <2> QED
    BY <1>1, <1>5, <1>7, <1>8, <2>2, SameLists
<1>10. Indexed(g, C)
  BY <1>1, <1>7, <1>8 DEF Indexed
<1>11. Apart(g, C)
  <2> SUFFICES ASSUME NEW u \in DOMAIN h.tags \ B
               PROVE  h.tags[u].split_right \in C \cup {NULL}
    BY <1>7, <1>8 DEF Apart
  <2>1. h.tags[u].split_right \in B \cup {NULL}
    BY <1>1 DEF Apart
  <2>2. h.tags[u].split_right # t
    BY <1>1, <1>2, SoundTags
  <2> QED
    BY <2>1, <2>2
<1>12. \A e \in Exponents : Waiting(g, C, e) = Waiting(h, B, e)
  BY <1>7, <1>8 DEF Waiting, InList
<1>13. Counts(g, C)
  <2> HIDE DEF C
  <2> QED
    BY <1>1, <1>5, <1>12, SameCounts
<1>14. C \in SUBSET DOMAIN g.tags /\ qg \subseteq 1..LastPage
  BY <1>1, <1>5 DEF qg
<1>15. Good(g, qg, C)
  BY <1>5, <1>6, <1>9, <1>10, <1>11, <1>13, <1>14 DEF Good, Sound
<1>16. \A u \in C : g.tags[u] = h.tags[u]
  BY <1>1, <1>5
<1> QED
  BY <1>4, <1>15, <1>16 DEF g

-----------------------------------------------------------------------------
(* free.                                                                   *)

\* It does not matter that free takes the left neighbour off its list only after
\* it has taken over the piece.
LEMMA MeltCommutes ==
    ASSUME NEW h, IsHeap(h), NEW left \in DOMAIN h.tags, NEW t \in DOMAIN h.tags, left # t
    PROVE  remove_tag(Swallow(h, left, t), left) = Swallow(remove_tag(h, left), left, t)
<1> DEFINE a == Swallow(h, left, t)
           b == remove_tag(h, left)
           f == remove_tag(a, left)
           g == Swallow(b, left, t)
           D == DOMAIN h.tags \ {t}
<1>1. IsHeap(a) /\ Swallowed(a, h, left, t)
  BY SwallowFields
<1>2. IsHeap(b) /\ Removed(b, h, left)
  BY RemoveFields
<1> HIDE DEF a, b
<1>3. left \in DOMAIN a.tags /\ left \in DOMAIN b.tags /\ t \in DOMAIN b.tags
  BY <1>1, <1>2 DEF Swallowed, Removed
<1>4. IsHeap(f) /\ Removed(f, a, left)
  BY <1>1, <1>3, RemoveFields
<1>5. IsHeap(g) /\ Swallowed(g, b, left, t)
  BY <1>2, <1>3, SwallowFields
<1> HIDE DEF f, g
<1>6. DOMAIN f.tags = D /\ DOMAIN g.tags = D /\ DOMAIN a.tags = D
      /\ DOMAIN b.tags = DOMAIN h.tags /\ left \in D
  BY <1>1, <1>2, <1>4, <1>5 DEF Swallowed, Removed
<1>7. /\ a.freePages = h.freePages /\ a.completePages = h.completePages
      /\ g.freePages = b.freePages /\ g.completePages = b.completePages
      /\ b.completePages = h.completePages /\ f.completePages = a.completePages
  BY <1>1, <1>2, <1>4, <1>5 DEF Swallowed, Removed
<1>8. \A u \in D :
         /\ a.tags[u].size = h.tags[u].size /\ a.tags[u].index = h.tags[u].index
         /\ a.tags[u].next = h.tags[u].next /\ a.tags[u].prev = h.tags[u].prev
  BY <1>1 DEF Swallowed, Others
<1>9. \A u \in D :
         /\ g.tags[u].size = b.tags[u].size /\ g.tags[u].index = b.tags[u].index
         /\ g.tags[u].next = b.tags[u].next /\ g.tags[u].prev = b.tags[u].prev
  BY <1>5, <1>6 DEF Swallowed, Others
<1>10. f.freePages = g.freePages
  <2>1. \A e \in Exponents : f.freePages[e] = b.freePages[e]
    BY <1>2, <1>4, <1>6, <1>7, <1>8 DEF Removed
  <2>2. f.freePages \in [Exponents -> Nat] /\ b.freePages \in [Exponents -> Nat]
    BY <1>2, <1>4 DEF IsHeap
  <2> QED
    BY <1>7, <2>1, <2>2
<1>11. ASSUME NEW u \in D
       PROVE  /\ f.tags[u].next = g.tags[u].next /\ f.tags[u].prev = g.tags[u].prev
              /\ f.tags[u].index = g.tags[u].index
  <2>1. /\ f.tags[u].next = b.tags[u].next /\ f.tags[u].prev = b.tags[u].prev
        /\ f.tags[u].index = b.tags[u].index
    BY <1>2, <1>4, <1>6, <1>8 DEF Removed
  <2> QED
    BY <1>9, <2>1
<1>12. ASSUME NEW u \in D
       PROVE  /\ f.tags[u].real_size = g.tags[u].real_size
              /\ f.tags[u].split_left = g.tags[u].split_left
              /\ f.tags[u].split_right = g.tags[u].split_right
              /\ f.tags[u].size = g.tags[u].size
  <2>1. \A x \in Places : f.tags[u][x] = a.tags[u][x]
    BY <1>4, <1>6 DEF Removed
  <2>2. \A v \in DOMAIN h.tags :
           /\ b.tags[v].real_size = h.tags[v].real_size
           /\ b.tags[v].split_left = h.tags[v].split_left
           /\ b.tags[v].split_right = h.tags[v].split_right
           /\ b.tags[v].size = h.tags[v].size
    BY <1>2 DEF Removed, Places
  <2>3. /\ f.tags[u].real_size = a.tags[u].real_size
        /\ f.tags[u].split_left = a.tags[u].split_left
        /\ f.tags[u].split_right = a.tags[u].split_right
        /\ f.tags[u].size = a.tags[u].size
    BY <2>1 DEF Places
  <2>4. /\ a.tags[u].real_size = g.tags[u].real_size
        /\ a.tags[u].split_left = g.tags[u].split_left
        /\ a.tags[u].split_right = g.tags[u].split_right
    BY <1>1, <1>5, <1>6, <2>2 DEF Swallowed
  <2> QED
    BY <1>8, <1>9, <2>2, <2>3, <2>4
<1>13. \A u \in DOMAIN g.tags : \A x \in TagFields : f.tags[u][x] = g.tags[u][x]
  BY <1>6, <1>11, <1>12 DEF TagFields
<1>14. f = g
  BY <1>4, <1>5, <1>6, <1>7, <1>10, <1>13, SameHeap
<1> QED
  BY <1>14 DEF f, g, a, b

\* The heap g is what became of h when t melted into u or u is t; the pieces in
\* use other than t are untouched.
Melting(g, h, pg, B, t, u) ==
    /\ Good(g, pg, (B \ {t}) \cup {u}) /\ u \notin B \ {t}
    /\ \A v \in B \ {t} : g.tags[v].real_size = h.tags[v].real_size

\* One round to the left, after which the left neighbour is not free.
LEMMA LeftRoundGood ==
    ASSUME NEW h, NEW pg, NEW B, Good(h, pg, B), NEW t \in B
    PROVE  \E g, u : /\ LeftRound(<<h, t>>) = <<g, u>> /\ Melting(g, h, pg, B, t, u)
                     /\ LeftRound(<<g, u>>) = <<g, u>>
                     /\ g.tags[u].split_left \in (B \ {t}) \cup {NULL}
<1> DEFINE left == h.tags[t].split_left
<1>1. /\ Sound(h, pg, B) /\ IsHeap(h) /\ Apart(h, B)
      /\ B \in SUBSET DOMAIN h.tags /\ t \in DOMAIN h.tags
  BY DEF Good, Sound
<1>2. left # NULL => /\ left \in DOMAIN h.tags /\ left # t
                     /\ h.tags[left].split_right = t
  BY <1>1, SoundTags
<1>3. CASE IsFree(h, left)
  <2> DEFINE b == remove_tag(h, left)
             g == Swallow(b, left, t)
             C == (B \ {t}) \cup {left}
             w == h.tags[left].split_left
  <2>1. left # NULL /\ h.tags[left].index >= 0
    BY <1>3 DEF IsFree
  <2>2. left \in DOMAIN h.tags \ B
    BY <1>1, <1>2, <2>1, SoundTags
  <2>3. t # NULL /\ ~Whole(h.tags[left])
    BY <1>1, <1>2, <2>1, SoundTags DEF Whole
  <2>4. Good(b, pg, B \cup {left}) /\ Removed(b, h, left)
    BY <2>2, <2>3, RemoveGood
  <2>5. LeftRound(<<h, t>>) = <<g, left>>
    <3>1. remove_tag(Swallow(h, left, t), left) = g
      BY <1>1, <1>2, <2>1, MeltCommutes
    <3> QED
      BY <1>3, <3>1 DEF LeftRound, melt_left
  <2> HIDE DEF b
  <2>6. \A u \in DOMAIN h.tags :
           /\ b.tags[u].real_size = h.tags[u].real_size
           /\ b.tags[u].split_left = h.tags[u].split_left
           /\ b.tags[u].split_right = h.tags[u].split_right
    BY <2>4 DEF Removed, Places
  <2>7. Good(g, pg, (B \cup {left}) \ {t}) /\ Swallowed(g, b, left, t)
    <3> DEFINE E == B \cup {left}
    <3>1. left \in E /\ t \in E /\ b.tags[left].split_right = t /\ Good(b, pg, E)
      BY <1>1, <1>2, <2>1, <2>4, <2>6
    <3> HIDE DEF E, left
    <3>2. Good(g, pg, E \ {t}) /\ Swallowed(g, b, left, t)
      BY <3>1, SwallowGood
    <3> QED
      BY <3>2 DEF E, left
  <2> HIDE DEF g
  <2>8. (B \cup {left}) \ {t} = C
    BY <1>2, <2>1
  <2>9. DOMAIN b.tags = DOMAIN h.tags
    BY <2>4 DEF Removed
  <2>10. \A v \in DOMAIN h.tags \ {t} :
            /\ v # left => g.tags[v].real_size = h.tags[v].real_size
            /\ v # b.tags[t].split_right => g.tags[v].split_left = h.tags[v].split_left
    BY <2>6, <2>7, <2>9 DEF Swallowed
  <2>11. w # NULL => /\ w \in DOMAIN h.tags /\ w # left
                     /\ h.tags[w].split_right = left
    BY <1>1, <2>2, SoundTags
  <2>12. w \in (B \ {t}) \cup {NULL}
    <3> SUFFICES ASSUME w # NULL PROVE w \in B \ {t}
      OBVIOUS
    <3>1. w \in B
      BY <1>1, <2>1, <2>2, <2>11 DEF Apart
    <3>2. h.tags[t].split_right # left
      <4>1. \A x, y \in DOMAIN h.tags :
               h.tags[x].split_right = y => y = EndOf(h, x) /\ x < y
        <5> SUFFICES ASSUME NEW x \in DOMAIN h.tags, h.tags[x].split_right \in DOMAIN h.tags
                     PROVE  h.tags[x].split_right = EndOf(h, x) /\ x < EndOf(h, x)
          BY Zenon
        <5>1. h.tags[x].split_right # NULL /\ x < EndOf(h, x)
          BY <1>1, SoundTags
        <5> QED
          BY <1>1, <5>1 DEF Sound, Geometry, Neighbours
      <4>2. left < t /\ left \in Nat /\ t \in Nat
        BY <1>1, <1>2, <2>1, <4>1, SoundTags
      <4> QED
        BY <1>1, <1>2, <2>1, <4>1, <4>2
    <3> QED
      BY <2>11, <3>1, <3>2
  <2>13. g.tags[left].split_left = w
    <3>1. left # b.tags[t].split_right
      <4>1. b.tags[t].split_right = h.tags[t].split_right
        BY <1>1, <2>6
      <4>2. h.tags[t].split_right = left => h.tags[left].split_left = t
        BY <1>1, <2>1, SoundTags
      <4>3. w # t
        BY <2>3, <2>12
      <4> QED
        BY <4>1, <4>2, <4>3
    <3> QED
      BY <1>2, <2>1, <2>10, <3>1
  <2>14. Melting(g, h, pg, B, t, left)
    <3>1. \A v \in B \ {t} : g.tags[v].real_size = h.tags[v].real_size
      BY <1>1, <2>2, <2>10
    <3> QED
      BY <2>2, <2>7, <2>8, <3>1 DEF Melting
  <2>15. ~IsFree(g, w)
    <3> SUFFICES ASSUME w # NULL PROVE ~(g.tags[w].index >= 0)
      BY DEF IsFree
    <3>1. Sound(g, pg, C) /\ C \in SUBSET DOMAIN g.tags
      BY <2>7, <2>8 DEF Good, Sound
    <3>2. w \in C /\ w \in DOMAIN g.tags
      BY <2>12, <3>1
    <3> HIDE DEF C
    <3> QED
      BY <3>1, <3>2, SoundTags
  <2>16. LeftRound(<<g, left>>) = <<g, left>>
    BY <2>13, <2>15 DEF LeftRound
  <2> QED
    BY <2>5, <2>12, <2>13, <2>14, <2>16
<1>4. CASE ~IsFree(h, left)
  <2>1. LeftRound(<<h, t>>) = <<h, t>>
    BY <1>4 DEF LeftRound
  <2>2. left \in (B \ {t}) \cup {NULL}
    BY <1>1, <1>2, <1>4, SoundTags DEF IsFree
  <2>3. (B \ {t}) \cup {t} = B
    OBVIOUS
  <2>4. Melting(h, h, pg, B, t, t)
    BY <2>3 DEF Melting
  <2> QED
    BY <2>1, <2>2, <2>4
<1> QED
  BY <1>3, <1>4

\* The neighbour on the right lies behind.
LEMMA RightIsBehind ==
    ASSUME NEW h, NEW pg, NEW B, Sound(h, pg, B), NEW t \in DOMAIN h.tags,
           h.tags[t].split_right # NULL
    PROVE  /\ t \in Nat /\ h.tags[t].split_right \in Nat /\ t < h.tags[t].split_right
<1>1. t \in Nat /\ EndOf(h, t) \in Nat /\ t < EndOf(h, t)
  BY SoundTags
<1>2. h.tags[t].split_right = EndOf(h, t)
  BY DEF Sound, Geometry, Neighbours
<1> QED
  BY <1>1, <1>2

\* One round to the right, after which the right neighbour is not free.
LEMMA RightRoundGood ==
    ASSUME NEW h, NEW pg, NEW B, Good(h, pg, B), NEW t \in B
    PROVE  LET g == RightRound(h, t)
           IN  /\ Good(g, pg, B) /\ RightRound(g, t) = g
               /\ g.tags[t].split_right \in B \cup {NULL}
               /\ g.tags[t].split_left = h.tags[t].split_left
               /\ \A v \in B \ {t} : g.tags[v].real_size = h.tags[v].real_size
<1> DEFINE right == h.tags[t].split_right
<1>1. /\ Sound(h, pg, B) /\ IsHeap(h) /\ Apart(h, B)
      /\ B \in SUBSET DOMAIN h.tags /\ t \in DOMAIN h.tags
  BY DEF Good, Sound
<1>2. right # NULL => /\ right \in DOMAIN h.tags /\ right # t
                      /\ h.tags[right].split_left = t
  BY <1>1, SoundTags
<1>3. CASE IsFree(h, right)
  <2> DEFINE b == remove_tag(h, right)
             g == Swallow(b, t, right)
             w == h.tags[right].split_right
  <2>1. right # NULL /\ h.tags[right].index >= 0
    BY <1>3 DEF IsFree
  <2>2. right \in DOMAIN h.tags \ B
    BY <1>1, <1>2, <2>1, SoundTags
  <2>3. t # NULL /\ ~Whole(h.tags[right])
    BY <1>1, <1>2, <2>1, SoundTags DEF Whole
  <2>4. Good(b, pg, B \cup {right}) /\ Removed(b, h, right)
    BY <2>2, <2>3, RemoveGood
  <2>5. RightRound(h, t) = g
    BY <1>3 DEF RightRound, absorb_right
  <2> HIDE DEF b
  <2>6. \A u \in DOMAIN h.tags :
           /\ b.tags[u].real_size = h.tags[u].real_size
           /\ b.tags[u].split_left = h.tags[u].split_left
           /\ b.tags[u].split_right = h.tags[u].split_right
    BY <2>4 DEF Removed, Places
  <2>7. Good(g, pg, (B \cup {right}) \ {right}) /\ Swallowed(g, b, t, right)
    <3> DEFINE E == B \cup {right}
    <3>1. right \in E /\ t \in E /\ b.tags[t].split_right = right /\ Good(b, pg, E)
      BY <1>1, <1>2, <2>1, <2>4, <2>6
    <3> HIDE DEF E, right
    <3>2. Good(g, pg, E \ {right}) /\ Swallowed(g, b, t, right)
      BY <3>1, SwallowGood
    <3> QED
      BY <3>2 DEF E, right
  <2> HIDE DEF g
  <2>8. (B \cup {right}) \ {right} = B
    BY <2>2
  <2>9. DOMAIN b.tags = DOMAIN h.tags
    BY <2>4 DEF Removed
  <2>10. w \in B \cup {NULL}
    BY <1>1, <2>2 DEF Apart
  <2>11. w # t
    <3>1. t < right /\ t \in Nat /\ right \in Nat
      BY <1>1, <2>1, RightIsBehind
    <3>2. w # NULL => right < w /\ w \in Nat
      BY <1>1, <2>2, RightIsBehind
    <3> QED
      BY <2>3, <3>1, <3>2
  <2>12. /\ g.tags[t].split_right = w /\ g.tags[t].split_left = h.tags[t].split_left
         /\ \A v \in B \ {t} : g.tags[v].real_size = h.tags[v].real_size
    <3>1. t \in DOMAIN b.tags \ {right} /\ B \subseteq DOMAIN b.tags \ {right}
      BY <1>1, <1>2, <2>1, <2>2, <2>9
    <3>2. b.tags[right].split_right = w
      BY <1>2, <2>1, <2>6
    <3>3. g.tags[t].split_right = w /\ g.tags[t].split_left = b.tags[t].split_left
      BY <2>7, <2>11, <3>1, <3>2 DEF Swallowed
    <3>4. \A v \in B \ {t} : g.tags[v].real_size = b.tags[v].real_size
      BY <2>7, <3>1 DEF Swallowed
    <3> QED
      BY <1>1, <2>6, <3>3, <3>4
  <2>13. ~IsFree(g, w)
    <3> SUFFICES ASSUME w # NULL PROVE ~(g.tags[w].index >= 0)
      BY DEF IsFree
    <3>1. Sound(g, pg, B) /\ B \in SUBSET DOMAIN g.tags
      BY <2>7, <2>8 DEF Good, Sound
    <3>2. w \in B /\ w \in DOMAIN g.tags
      BY <2>10, <3>1
    <3> QED
      BY <3>1, <3>2, SoundTags
  <2>14. RightRound(g, t) = g
    BY <2>12, <2>13 DEF RightRound
  <2> QED
    BY <2>5, <2>7, <2>8, <2>10, <2>12, <2>14
<1>4. CASE ~IsFree(h, right)
  <2>1. RightRound(h, t) = h
    BY <1>4 DEF RightRound
  <2>2. right \in B \cup {NULL}
    BY <1>1, <1>2, <1>4, SoundTags DEF IsFree
  <2> QED
    BY <2>1, <2>2
<1> QED
  BY <1>3, <1>4

\* The loop to the left stops after one round.
LEMMA MeltLeftOnce ==
    ASSUME NEW h, NEW t, NEW s, LeftRound(<<h, t>>) = s, LeftRound(s) = s,
           Cardinality(DOMAIN h.tags) \in Nat \ {0}
    PROVE  MeltLeft(h, t) = s
<1> DEFINE c == Cardinality(DOMAIN h.tags)
           Walk(f) == [n \in Nat |-> IF n = 0 THEN <<h, t>> ELSE LeftRound(f[n - 1])]
           rounds == CHOOSE f : f = Walk(f)
           r == [n \in Nat |-> IF n = 0 THEN <<h, t>> ELSE s]
<1>1. MeltLeft(h, t) = rounds[c]
  BY DEF MeltLeft
<1>2. r = Walk(r)
  <2>1. ASSUME NEW n \in Nat
        PROVE  r[n] = Walk(r)[n]
    <3>1. CASE n = 0
      BY <3>1
    <3>2. CASE n # 0
      <4>1. n - 1 \in Nat
        BY <3>2
      <4>2. LeftRound(r[n - 1]) = s
        <5>1. CASE n - 1 = 0
          BY <5>1
        <5>2. CASE n - 1 # 0
          BY <4>1, <5>2
        <5> QED
          BY <5>1, <5>2
      <4>3. r[n] = s /\ Walk(r)[n] = LeftRound(r[n - 1])
        BY <3>2
      <4> QED
        BY <4>2, <4>3
    <3> QED
      BY <3>1, <3>2
  <2>2. r = [n \in Nat |-> r[n]] /\ Walk(r) = [n \in Nat |-> Walk(r)[n]]
    OBVIOUS
  <2> HIDE DEF r, Walk
  <2> QED
    BY <2>1, <2>2
<1>3. rounds = Walk(rounds)
  <2>1. \E f : f = Walk(f)
    BY <1>2
  <2> HIDE DEF Walk
  <2> QED
    BY <2>1
<1> HIDE DEF rounds
<1>4. /\ rounds[0] = <<h, t>>
      /\ \A n \in Nat : rounds[n + 1] = LeftRound(rounds[n])
  <2>1. rounds[0] = <<h, t>>
    BY <1>3
  <2>2. ASSUME NEW n \in Nat
        PROVE  rounds[n + 1] = LeftRound(rounds[n])
    <3>1. n + 1 \in Nat /\ n + 1 # 0 /\ (n + 1) - 1 = n
      OBVIOUS
    <3> QED
      BY <1>3, <3>1
  <2> QED
    BY <2>1, <2>2
<1>5. \A n \in Nat : rounds[n + 1] = s
  <2> DEFINE T == {n \in Nat : rounds[n + 1] # s}
  <2>1. T = {}
    <3> SUFFICES ASSUME T # {} PROVE FALSE
      OBVIOUS
    <3>1. T \in SUBSET Nat
      OBVIOUS
    <3>2. PICK n \in T : \A y \in T : n <= y
      BY <3>1, LeastNumber
    <3>3. n \in Nat /\ rounds[n + 1] # s
      BY <3>2
    <3>4. n # 0
      BY <1>4, <3>3
    <3> DEFINE m == n - 1
    <3>5. m \in Nat /\ n = m + 1 /\ m \notin T
      BY <3>2, <3>3, <3>4
    <3> HIDE DEF m
    <3>6. rounds[n] = s
      BY <3>5
    <3> QED
      BY <1>4, <3>3, <3>6
  <2> QED
    BY <2>1
<1>6. c - 1 \in Nat /\ (c - 1) + 1 = c
  OBVIOUS
<1> HIDE DEF c
<1> QED
  BY <1>1, <1>5, <1>6

\* So does the loop to the right.
LEMMA MeltRightOnce ==
    ASSUME NEW h, NEW t, NEW s, RightRound(h, t) = s, RightRound(s, t) = s,
           Cardinality(DOMAIN h.tags) \in Nat \ {0}
    PROVE  MeltRight(h, t) = s
<1> DEFINE c == Cardinality(DOMAIN h.tags)
           Walk(f) == [n \in Nat |-> IF n = 0 THEN h ELSE RightRound(f[n - 1], t)]
           rounds == CHOOSE f : f = Walk(f)
           r == [n \in Nat |-> IF n = 0 THEN h ELSE s]
<1>1. MeltRight(h, t) = rounds[c]
  BY DEF MeltRight
<1>2. r = Walk(r)
  <2>1. ASSUME NEW n \in Nat
        PROVE  r[n] = Walk(r)[n]
    <3>1. CASE n = 0
      BY <3>1
    <3>2. CASE n # 0
      <4>1. n - 1 \in Nat
        BY <3>2
      <4>2. RightRound(r[n - 1], t) = s
        <5>1. CASE n - 1 = 0
          BY <5>1
        <5>2. CASE n - 1 # 0
          BY <4>1, <5>2
        <5> QED
          BY <5>1, <5>2
      <4>3. r[n] = s /\ Walk(r)[n] = RightRound(r[n - 1], t)
        BY <3>2
      <4> QED
        BY <4>2, <4>3
    <3> QED
      BY <3>1, <3>2
  <2>2. r = [n \in Nat |-> r[n]] /\ Walk(r) = [n \in Nat |-> Walk(r)[n]]
    OBVIOUS
  <2> HIDE DEF r, Walk
  <2> QED
    BY <2>1, <2>2
<1>3. rounds = Walk(rounds)
  <2>1. \E f : f = Walk(f)
    BY <1>2
  <2> HIDE DEF Walk
  <2> QED
    BY <2>1
<1> HIDE DEF rounds
<1>4. /\ rounds[0] = h
      /\ \A n \in Nat : rounds[n + 1] = RightRound(rounds[n], t)
  <2>1. rounds[0] = h
    BY <1>3
  <2>2. ASSUME NEW n \in Nat
        PROVE  rounds[n + 1] = RightRound(rounds[n], t)
    <3>1. n + 1 \in Nat /\ n + 1 # 0 /\ (n + 1) - 1 = n
      OBVIOUS
    <3> QED
      BY <1>3, <3>1
  <2> QED
    BY <2>1, <2>2
<1>5. \A n \in Nat : rounds[n + 1] = s
  <2> DEFINE T == {n \in Nat : rounds[n + 1] # s}
  <2>1. T = {}
    <3> SUFFICES ASSUME T # {} PROVE FALSE
      OBVIOUS
    <3>1. T \in SUBSET Nat
      OBVIOUS
    <3>2. PICK n \in T : \A y \in T : n <= y
      BY <3>1, LeastNumber
    <3>3. n \in Nat /\ rounds[n + 1] # s
      BY <3>2
    <3>4. n # 0
      BY <1>4, <3>3
    <3> DEFINE m == n - 1
    <3>5. m \in Nat /\ n = m + 1 /\ m \notin T
      BY <3>2, <3>3, <3>4
    <3> HIDE DEF m
    <3>6. rounds[n] = s
      BY <3>5
    <3> QED
      BY <1>4, <3>3, <3>6
  <2> QED
    BY <2>1
<1>6. c - 1 \in Nat /\ (c - 1) + 1 = c
  OBVIOUS
<1> HIDE DEF c
<1> QED
  BY <1>1, <1>5, <1>6

\* The pieces of A are as long in g as in h.
SameSizes(g, h, A) == \A u \in A : g.tags[u].real_size = h.tags[u].real_size

\* free puts a piece into the list of its size, and counts it if it is whole.
LEMMA InsertGood ==
    ASSUME NEW h, NEW pg, NEW B, Good(h, pg, B), NEW t \in B, NEW i,
           i = ListOf(h.tags[t].real_size), ~GoesBack(h, t, i),
           h.tags[t].split_left \in B \cup {NULL}, h.tags[t].split_right \in B \cup {NULL},
           NEW n, n = IF Whole(h.tags[t]) THEN h.completePages[i] + 1
                      ELSE h.completePages[i]
    PROVE  /\ Good(insert_tag(Counted(h, i, n), t, i), pg, B \ {t})
           /\ SameSizes(insert_tag(Counted(h, i, n), t, i), h, B)
<1> DEFINE f == Counted(h, i, n)
           g == insert_tag(f, t, i)
           C == B \ {t}
<1>1. Sound(h, pg, B) /\ Counts(h, B) /\ IsHeap(h) /\ B \in SUBSET DOMAIN h.tags
  BY DEF Good, Sound
<1>2. t \in DOMAIN h.tags /\ h.tags[t].real_size \in Nat
  BY <1>1, SoundTags
<1>3. i \in Exponents
  BY <1>2, ListExists
<1>4. \A e \in Exponents :
         /\ h.completePages[e] = Cardinality(Waiting(h, B, e))
         /\ h.completePages[e] \in Nat /\ h.completePages[e] <= MaxComplete
         /\ IsFiniteSet(Waiting(h, B, e))
  BY <1>1, WaitingFinite DEF Counts, IsHeap
<1>5. n \in Nat /\ n <= MaxComplete
  BY <1>3, <1>4, Widths DEF GoesBack, Whole
<1>6. /\ IsHeap(f) /\ f.tags = h.tags /\ f.freePages = h.freePages
      /\ \A d \in Exponents : f.completePages[d] = IF d = i THEN n ELSE h.completePages[d]
  BY <1>1, <1>3, <1>5, CountedFields
<1> HIDE DEF f
<1>7. Sound(f, pg, B) /\ \A e : Waiting(f, B, e) = Waiting(h, B, e)
  BY <1>1, <1>6, CountedSound
<1>8. IsHeap(g) /\ Inserted(g, f, t, i)
  BY <1>2, <1>3, <1>6, InsertFields
<1> HIDE DEF g
<1>9. /\ Sound(g, pg, C)
      /\ \A e \in Exponents :
            Waiting(g, C, e) = Waiting(f, B, e) \cup {u \in {t} : e = i /\ Whole(f.tags[t])}
  <2>1. Sound(g, pg, C) /\ Joins(g, C, f, B, t, i)
    BY <1>3, <1>6, <1>7, <1>8, InsertSound
  <2> QED
    BY <2>1 DEF Joins
<1>10. g.completePages = f.completePages
  BY <1>8 DEF Inserted
<1>11. Counts(g, C)
  <2> SUFFICES ASSUME NEW e \in Exponents
               PROVE  /\ g.completePages[e] = Cardinality(Waiting(g, C, e))
                      /\ g.completePages[e] <= MaxComplete
    BY DEF Counts
  <2> DEFINE W == Waiting(h, B, e)
  <2>1. CASE e = i /\ Whole(h.tags[t])
    <3>1. Waiting(g, C, e) = W \cup {t}
      BY <1>6, <1>7, <1>9, <2>1
    <3>2. t \notin W
      BY DEF Waiting, InList
    <3>3. Cardinality(W \cup {t}) = Cardinality(W) + 1
      BY <1>4, <3>2, FS_AddElement
    <3> QED
      BY <1>3, <1>4, <1>5, <1>6, <1>10, <2>1, <3>1, <3>3
  <2>2. CASE ~(e = i /\ Whole(h.tags[t]))
    <3>1. Waiting(g, C, e) = W
      BY <1>6, <1>7, <1>9, <2>2
    <3>2. g.completePages[e] = h.completePages[e]
      BY <1>6, <1>10, <2>2
    <3> QED
      BY <1>4, <3>1, <3>2
  <2> QED
    BY <2>1, <2>2
<1>12. \A u \in B : g.tags[u].real_size = h.tags[u].real_size
  BY <1>1, <1>6, <1>8 DEF Inserted, Places
<1> QED
  BY <1>9, <1>11, <1>12 DEF Good, SameSizes, f, g

\* free: a good heap without the piece; the other pieces in use stay.
LEMMA FreeGood ==
    ASSUME NEW h, NEW pg, NEW B, Good(h, pg, B), NEW t \in B
    PROVE  /\ Good(FreeResult(h, pg, t).heap, FreeResult(h, pg, t).pages, B \ {t})
           /\ SameSizes(FreeResult(h, pg, t).heap, h, B \ {t})
<1> DEFINE res == FreeResult(h, pg, t)
           A == B \ {t}
<1>1. PICK k, u : /\ LeftRound(<<h, t>>) = <<k, u>> /\ Melting(k, h, pg, B, t, u)
                  /\ LeftRound(<<k, u>>) = <<k, u>>
                  /\ k.tags[u].split_left \in A \cup {NULL}
  BY LeftRoundGood
<1> DEFINE C == A \cup {u}
           g == RightRound(k, u)
           r == g.tags[u]
           i == ListOf(r.real_size)
           n == IF Whole(r) THEN g.completePages[i] + 1 ELSE g.completePages[i]
           first == u \div PageSize
<1>2. /\ Good(k, pg, C) /\ u \notin A /\ u \in C /\ C \ {u} = A
      /\ \A v \in A : k.tags[v].real_size = h.tags[v].real_size
  BY <1>1 DEF Melting
<1>3. \A x, D : Good(x, pg, D) /\ D # {} => Cardinality(DOMAIN x.tags) \in Nat \ {0}
  <2> SUFFICES ASSUME NEW x, NEW D, Good(x, pg, D), D # {}
               PROVE  Cardinality(DOMAIN x.tags) \in Nat \ {0}
    OBVIOUS
  <2>1. IsFiniteSet(DOMAIN x.tags) /\ DOMAIN x.tags # {}
    BY DEF Good, Sound, IsHeap
  <2> QED
    BY <2>1, FS_CardinalityType, FS_EmptySet
<1>4. MeltLeft(h, t) = <<k, u>>
  <2>1. Cardinality(DOMAIN h.tags) \in Nat \ {0}
    BY <1>3
  <2> QED
    BY <1>1, <2>1, MeltLeftOnce
<1>5. /\ Good(g, pg, C) /\ RightRound(g, u) = g
      /\ g.tags[u].split_right \in C \cup {NULL}
      /\ g.tags[u].split_left = k.tags[u].split_left
      /\ \A v \in C \ {u} : g.tags[v].real_size = k.tags[v].real_size
  <2> HIDE DEF C
  <2> QED
    BY <1>2, RightRoundGood
<1>6. MeltRight(k, u) = g
  <2>1. Cardinality(DOMAIN k.tags) \in Nat \ {0}
    BY <1>2, <1>3
  <2> HIDE DEF g
  <2> QED
    BY <1>5, <2>1, MeltRightOnce DEF g
<1> HIDE DEF g
<1>7. res = IF GoesBack(g, u, i)
            THEN [heap |-> Dropped(g, u), pages |-> pg \ (first..first + PagesBack(r) - 1)]
            ELSE [heap |-> insert_tag(Counted(g, i, n), u, i), pages |-> pg]
  BY <1>4, <1>6 DEF FreeResult, Dropped, Counted, Whole
<1>8. \A v \in A : g.tags[v].real_size = h.tags[v].real_size
  BY <1>2, <1>5
<1>9. CASE GoesBack(g, u, i)
  <2>1. Whole(g.tags[u])
    BY <1>9 DEF GoesBack, Whole
  <2>2. /\ Good(Dropped(g, u), pg \ (first..first + PagesBack(r) - 1), A)
        /\ \A v \in A : Dropped(g, u).tags[v] = g.tags[v]
    <3>1. u \in C /\ Good(g, pg, C)
      BY <1>2, <1>5
    <3> HIDE DEF C
    <3>2. /\ Good(Dropped(g, u), pg \ (first..first + PagesBack(r) - 1), C \ {u})
          /\ \A v \in C \ {u} : Dropped(g, u).tags[v] = g.tags[v]
      BY <2>1, <3>1, DropGood
    <3> QED
      BY <1>2, <3>2
  <2>3. /\ res.heap = Dropped(g, u)
        /\ res.pages = pg \ (first..first + PagesBack(r) - 1)
    BY <1>7, <1>9
  <2> HIDE DEF res
  <2>4. Good(res.heap, res.pages, A)
    BY <2>2, <2>3
  <2>5. \A v \in A : res.heap.tags[v].real_size = h.tags[v].real_size
    BY <1>8, <2>2, <2>3
  <2> QED
    BY <2>4, <2>5 DEF SameSizes, res
<1>10. CASE ~GoesBack(g, u, i)
  <2> DEFINE f == insert_tag(Counted(g, i, n), u, i)
  <2>1. Good(f, pg, A) /\ \A v \in A : f.tags[v].real_size = g.tags[v].real_size
    <3>1. /\ u \in C /\ Good(g, pg, C) /\ A \subseteq C
          /\ g.tags[u].split_left \in C \cup {NULL}
          /\ g.tags[u].split_right \in C \cup {NULL}
      BY <1>1, <1>2, <1>5
    <3>2. i = ListOf(g.tags[u].real_size)
      OBVIOUS
    <3>3. n = IF Whole(g.tags[u]) THEN g.completePages[i] + 1 ELSE g.completePages[i]
      OBVIOUS
    <3> HIDE DEF C, i, n
    <3>4. Good(f, pg, C \ {u}) /\ SameSizes(f, g, C)
      BY <1>10, <3>1, <3>2, <3>3, InsertGood
    <3> HIDE DEF f
    <3> QED
      BY <1>2, <3>1, <3>4 DEF SameSizes
  <2>2. res.heap = f /\ res.pages = pg
    BY <1>7, <1>10
  <2> HIDE DEF res, f
  <2>3. Good(res.heap, res.pages, A)
    BY <2>1, <2>2
  <2>4. \A v \in A : res.heap.tags[v].real_size = h.tags[v].real_size
    BY <1>8, <2>1, <2>2
  <2> QED
    BY <2>3, <2>4 DEF SameSizes, res
<1> QED
  BY <1>9, <1>10

-----------------------------------------------------------------------------
(* The calls.                                                              *)

\* Every piece in use has room for its header and for what was asked for, as an
\* unsigned int.
Room(h, f) ==
    \A t \in DOMAIN f : f[t] \in Sizes /\ TagSize + UInt(f[t]) <= h.tags[t].real_size

HeapInv ==
    /\ Good(heap, pages, DOMAIN held) /\ Room(heap, held)
    /\ phase \in {"running", "page0", "overlap", "wrapped"}

\* The empty heap is good.
LEMMA InitInv ==
    ASSUME Init
    PROVE  HeapInv
<1> DEFINE h == EmptyHeap
           D == DOMAIN h.tags
<1>1. /\ heap = h /\ pages = {} /\ DOMAIN held = {} /\ phase = "running"
  BY DEF Init
<1>2. /\ h.tags = [t \in {} |-> NULL] /\ h.freePages = [e \in Exponents |-> NULL]
      /\ h.completePages = [e \in Exponents |-> 0]
      /\ h = [x \in HeapFields |-> h[x]]
  BY DEF EmptyHeap, HeapFields
<1>3. D = {} /\ NULL = 0
  BY <1>2 DEF NULL
<1> HIDE DEF h
<1>4. IsHeap(h)
  BY <1>2, <1>3, FS_EmptySet DEF IsHeap
<1>5. Separate(h) /\ Neighbours(h)
  BY <1>3 DEF Separate, Neighbours
<1>6. Covers(h, {})
  BY <1>3 DEF Covers, InPages
<1>7. Blocks(h)
  <2> DEFINE f == [t \in {} |-> 0]
  <2>1. f \in [D -> Nat]
    BY <1>3
  <2>2. InBlocks(h, f, f)
    BY <1>3 DEF InBlocks
  <2> HIDE DEF f
  <2> QED
    BY <2>1, <2>2 DEF Blocks
<1>8. Lists(h, {})
  <2> DEFINE f == [t \in {} |-> 0]
  <2>1. f \in [D -> Nat]
    BY <1>3
  <2>2. Descends(h, {}, f)
    BY <1>3 DEF Descends
  <2> HIDE DEF f
  <2>3. Ranked(h, {})
    BY <2>1, <2>2 DEF Ranked
  <2>4. \A e \in Exponents : h.freePages[e] = NULL
    BY <1>2
  <2>5. Linking(h, {})
    BY <1>3, <2>4 DEF Linking
  <2> QED
    BY <2>3, <2>5 DEF Lists
<1>9. Indexed(h, {}) /\ Apart(h, {})
  BY <1>3 DEF Indexed, Apart
<1>10. Counts(h, {})
  <2> SUFFICES ASSUME NEW e \in Exponents
               PROVE  /\ h.completePages[e] = Cardinality(Waiting(h, {}, e))
                      /\ h.completePages[e] <= MaxComplete
    BY DEF Counts
  <2>1. Waiting(h, {}, e) = {}
    BY <1>3 DEF Waiting, InList
  <2>2. Cardinality(Waiting(h, {}, e)) = 0
    BY <2>1, FS_EmptySet
  <2>3. h.completePages[e] = 0 /\ MaxComplete \in Nat
    BY <1>2, Widths
  <2> QED
    BY <2>2, <2>3
<1>11. Good(h, {}, {})
  BY <1>3, <1>4, <1>5, <1>6, <1>7, <1>8, <1>9, <1>10 DEF Good, Sound, Geometry
<1>12. Room(heap, held)
  BY <1>1 DEF Room
<1> QED
  BY <1>1, <1>11, <1>12 DEF HeapInv

\* What a call of malloc leaves behind.
LEMMA MallocInv ==
    ASSUME HeapInv, NEW size \in Sizes, NEW first \in 1..LastPage, malloc(size, first)
    PROVE  /\ HeapInv'
           /\ \E t : /\ t \notin DOMAIN held /\ held' = Plus(held, t, size)
                     /\ Good(heap', pages', DOMAIN held \cup {t})
                     /\ Room(heap', held')
<1> DEFINE B == DOMAIN held
           r == MallocResult(heap, pages, size, first)
           t == r.tag
<1>1. /\ phase = "running" /\ Served(heap, pages, size, first) /\ phase' = phase
      /\ heap' = r.heap /\ pages' = r.pages /\ held' = Plus(held, t, size)
  BY DEF malloc
<1>2. Good(heap, pages, B) /\ Room(heap, held)
  BY DEF HeapInv
<1>3. /\ Good(r.heap, r.pages, B \cup {t}) /\ t \notin B
      /\ TagSize + UInt(size) <= r.heap.tags[t].real_size
      /\ \A u \in B : r.heap.tags[u].real_size = heap.tags[u].real_size
  <2>1. size \in Nat /\ Served(heap, pages, size, first)
    BY <1>1, SizesAssumption
  <2> HIDE DEF B
  <2>2. Yields(r, heap, B, size)
    BY <1>2, <2>1, MallocGood
  <2> QED
    BY <2>2 DEF Yields
<1> HIDE DEF r
<1>4. DOMAIN held' = B \cup {t} /\ held'[t] = size /\ \A u \in B : held'[u] = held[u]
  BY <1>1, <1>3 DEF Plus
<1>5. Good(heap', pages', DOMAIN held')
  BY <1>1, <1>3, <1>4
<1>6. Room(heap', held')
  BY <1>1, <1>2, <1>3, <1>4 DEF Room
<1> QED
  BY <1>1, <1>3, <1>4, <1>5, <1>6 DEF HeapInv

\* What a call of free leaves behind.
LEMMA FreeInv ==
    ASSUME HeapInv, NEW t \in DOMAIN held, free(t)
    PROVE  /\ HeapInv'
           /\ DOMAIN held' = DOMAIN held \ {t}
           /\ \A u \in DOMAIN held \ {t} : held'[u] = held[u]
<1> DEFINE B == DOMAIN held
           f == FreeResult(heap, pages, t)
<1>1. /\ phase' = phase /\ heap' = f.heap /\ pages' = f.pages
      /\ held' = [u \in B \ {t} |-> held[u]]
  BY DEF free, Restrict
<1>2. Good(heap, pages, B) /\ Room(heap, held)
  BY DEF HeapInv
<1>3. /\ Good(f.heap, f.pages, B \ {t})
      /\ \A u \in B \ {t} : f.heap.tags[u].real_size = heap.tags[u].real_size
  <2>1. Good(f.heap, f.pages, B \ {t}) /\ SameSizes(f.heap, heap, B \ {t})
    BY <1>2, FreeGood
  <2> HIDE DEF f
  <2> QED
    BY <2>1 DEF SameSizes
<1> HIDE DEF f
<1>4. DOMAIN held' = B \ {t} /\ \A u \in B \ {t} : held'[u] = held[u]
  BY <1>1
<1>5. Good(heap', pages', DOMAIN held')
  BY <1>1, <1>3, <1>4
<1>6. Room(heap', held')
  BY <1>1, <1>2, <1>3, <1>4 DEF Room
<1> QED
  BY <1>1, <1>4, <1>5, <1>6 DEF HeapInv

\* What a call of realloc leaves behind; h is the heap between malloc and free.
LEMMA ReallocInv ==
    ASSUME HeapInv, NEW t \in DOMAIN held, NEW size \in Sizes, NEW first \in 1..LastPage,
           realloc(t, size, first)
    PROVE  /\ HeapInv'
           /\ \E h, pg, u :
                 /\ u \notin DOMAIN held
                 /\ Good(h, pg, DOMAIN held \cup {u})
                 /\ Room(h, Plus(held, u, size))
                 /\ DOMAIN held' = (DOMAIN held \ {t}) \cup {u}
                 /\ held'[u] = size
                 /\ \A v \in DOMAIN held \ {t} : held'[v] = held[v]
<1> DEFINE B == DOMAIN held
           r == MallocResult(heap, pages, size, first)
           u == r.tag
           h == r.heap
           pg == r.pages
           f == FreeResult(h, pg, t)
           C == B \cup {u}
           rest == [v \in B \ {t} |-> held[v]]
<1>1. /\ phase' = phase /\ Served(heap, pages, size, first)
      /\ heap' = f.heap /\ pages' = f.pages /\ held' = Plus(rest, u, size)
  BY DEF realloc, Restrict
<1>2. Good(heap, pages, B) /\ Room(heap, held)
  BY DEF HeapInv
<1>3. /\ Good(h, pg, C) /\ u \notin B
      /\ TagSize + UInt(size) <= h.tags[u].real_size
      /\ \A v \in B : h.tags[v].real_size = heap.tags[v].real_size
  <2>1. size \in Nat /\ Served(heap, pages, size, first)
    BY <1>1, SizesAssumption
  <2> HIDE DEF B
  <2>2. Yields(r, heap, B, size)
    BY <1>2, <2>1, MallocGood
  <2> QED
    BY <2>2 DEF Yields
<1> HIDE DEF r
<1>4. t \in C /\ t # u /\ C \ {t} = (B \ {t}) \cup {u}
  BY <1>3
<1>5. /\ Good(f.heap, f.pages, C \ {t})
      /\ \A v \in C \ {t} : f.heap.tags[v].real_size = h.tags[v].real_size
  <2> HIDE DEF C
  <2>1. Good(f.heap, f.pages, C \ {t}) /\ SameSizes(f.heap, h, C \ {t})
    BY <1>3, <1>4, FreeGood
  <2> HIDE DEF f
  <2> QED
    BY <2>1 DEF SameSizes
<1> HIDE DEF f
<1>6. DOMAIN rest = B \ {t} /\ \A v \in B \ {t} : rest[v] = held[v]
  OBVIOUS
<1> HIDE DEF rest
<1>7. /\ DOMAIN held' = (B \ {t}) \cup {u} /\ held'[u] = size
      /\ \A v \in B \ {t} : held'[v] = held[v]
  <2>1. /\ DOMAIN held' = DOMAIN rest \cup {u} /\ held'[u] = size
        /\ \A v \in DOMAIN rest \ {u} : held'[v] = rest[v]
    BY <1>1 DEF Plus
  <2> QED
    BY <1>3, <1>6, <2>1
<1> DEFINE both == Plus(held, u, size)
<1>8. DOMAIN both = B \cup {u} /\ both[u] = size /\ \A v \in B : both[v] = held[v]
  BY <1>3 DEF Plus
<1> HIDE DEF both
<1>9. Room(h, both)
  BY <1>2, <1>3, <1>8 DEF Room
<1>10. Good(heap', pages', DOMAIN held')
  BY <1>1, <1>4, <1>5, <1>7
<1>11. Room(heap', held')
  <2>1. heap'.tags[u].real_size = h.tags[u].real_size
    BY <1>1, <1>4, <1>5
  <2>2. \A v \in B \ {t} : heap'.tags[v].real_size = heap.tags[v].real_size
    BY <1>1, <1>3, <1>4, <1>5
  <2> QED
    BY <1>2, <1>3, <1>7, <2>1, <2>2 DEF Room
<1>12. HeapInv'
  BY <1>1, <1>10, <1>11 DEF HeapInv
<1> QED
  BY <1>3, <1>7, <1>9, <1>12 DEF both

\* Where the model stops the heap is left as it is.
LEMMA StopChangesNothing ==
    ASSUME NEW size, NEW first,
           HookFails(size, first) \/ \E t \in DOMAIN held : CopyOverruns(t, size, first)
    PROVE  /\ heap' = heap /\ pages' = pages /\ held' = held
           /\ phase' \in {"page0", "overlap", "wrapped"}
  BY DEF HookFails, CopyOverruns

\* Every step keeps the invariant.
LEMMA NextInv ==
    ASSUME HeapInv, [Next]_vars
    PROVE  HeapInv'
<1>1. ASSUME NEW size \in Sizes, NEW first \in 1..LastPage, malloc(size, first)
      PROVE  HeapInv'
  BY <1>1, MallocInv
<1>2. ASSUME NEW size \in Sizes, NEW first \in 1..LastPage,
             HookFails(size, first) \/ \E t \in DOMAIN held : CopyOverruns(t, size, first)
      PROVE  HeapInv'
  BY <1>2, StopChangesNothing DEF HeapInv
<1>3. ASSUME NEW t \in DOMAIN held, free(t)
      PROVE  HeapInv'
  BY <1>3, FreeInv
<1>4. ASSUME NEW t \in DOMAIN held, NEW size \in Sizes, NEW first \in 1..LastPage,
             realloc(t, size, first)
      PROVE  HeapInv'
  BY <1>4, ReallocInv
<1>5. CASE UNCHANGED vars
  BY <1>5 DEF vars, HeapInv
<1>6. CASE Stopped
  BY <1>5, <1>6 DEF Stopped
<1> QED
  BY <1>1, <1>2, <1>3, <1>4, <1>5, <1>6 DEF Next

\* The invariant of the heap holds always.
LEMMA AlwaysInv == Spec => []HeapInv
<1>1. Init => HeapInv
  BY InitInv
<1>2. HeapInv /\ [Next]_vars => HeapInv'
  BY NextInv
<1> QED
  BY <1>1, <1>2, PTL DEF Spec

-----------------------------------------------------------------------------
(* What follows for the properties.                                        *)

\* The fields of the state have their types.
LEMMA InvTypes ==
    ASSUME HeapInv
    PROVE  TypeOK
<1> DEFINE B == DOMAIN held
<1>1. /\ IsHeap(heap) /\ B \in SUBSET DOMAIN heap.tags /\ pages \subseteq 1..LastPage
      /\ Linking(heap, B) /\ Counts(heap, B) /\ Room(heap, held)
  BY DEF HeapInv, Good, Sound, Lists
<1>2. \A t \in DOMAIN tags : tags[t] \in Tag
  BY <1>1, TagTypes DEF IsHeap, tags
<1>3. heap.freePages \in [Exponents -> DOMAIN tags \cup {NULL}]
  <2>1. \A e \in Exponents : heap.freePages[e] \in DOMAIN tags \cup {NULL}
    BY <1>1 DEF Linking, tags
  <2> QED
    BY <1>1, <2>1 DEF IsHeap
<1>4. heap.completePages \in [Exponents -> 0..MaxComplete]
  <2>1. \A e \in Exponents : heap.completePages[e] \in 0..MaxComplete
    BY <1>1, Widths DEF Counts, IsHeap
  <2> QED
    BY <1>1, <2>1 DEF IsHeap
<1>5. \A t \in DOMAIN held : held[t] \in Nat
  BY <1>1, SizesAssumption DEF Room
<1> QED
  BY <1>1, <1>2, <1>3, <1>4, <1>5 DEF TypeOK, HeapInv, tags

\* The pieces cover the pages, and do not overlap.
LEMMA InvTiled ==
    ASSUME HeapInv
    PROVE  Tiled
<1> DEFINE X == UNION {t..End(t) - 1 : t \in DOMAIN tags}
           Y == UNION {p * PageSize..p * PageSize + PageSize - 1 : p \in pages}
<1>1. /\ Sound(heap, pages, DOMAIN held) /\ Separate(heap) /\ Covers(heap, pages)
      /\ pages \subseteq 1..LastPage
  BY DEF HeapInv, Good, Sound, Geometry
<1>2. \A t \in DOMAIN tags : /\ t \in Nat /\ End(t) = EndOf(heap, t) /\ End(t) \in Nat
  BY <1>1, SoundTags DEF tags, End, EndOf
<1>3. \A b : b \in X <=> b \in Nat /\ \E t \in DOMAIN tags : t <= b /\ b < EndOf(heap, t)
  <2>1. \A b : b \in X <=> \E t \in DOMAIN tags : b \in t..End(t) - 1
    OBVIOUS
  <2>2. ASSUME NEW t \in DOMAIN tags, NEW b
        PROVE  b \in t..End(t) - 1 <=> b \in Nat /\ t <= b /\ b < EndOf(heap, t)
    <3> DEFINE n == End(t)
    <3>1. t \in Nat /\ n \in Nat /\ n = EndOf(heap, t)
      BY <1>2
    <3> HIDE DEF n
    <3>2. b \in t..n - 1 <=> b \in Nat /\ t <= b /\ b < n
      BY <3>1
    <3> QED
      BY <3>1, <3>2 DEF n
  <2> HIDE DEF X
  <2> QED
    BY <2>1, <2>2
<1>4. \A b : b \in Y <=> b \in Nat /\ InPages(pages, b)
  <2>1. \A b : b \in Y <=>
                  \E p \in pages : b \in p * PageSize..p * PageSize + PageSize - 1
    OBVIOUS
  <2>2. ASSUME NEW p \in pages, NEW b
        PROVE  b \in p * PageSize..p * PageSize + PageSize - 1 <=>
                  b \in Nat /\ p * PageSize <= b /\ b < p * PageSize + PageSize
    <3> DEFINE n == p * PageSize
    <3>1. p \in Nat /\ PageSize \in Nat
      BY <1>1, Widths
    <3>2. n \in Nat
      BY <3>1
    <3> HIDE DEF n
    <3>3. b \in n..n + PageSize - 1 <=> b \in Nat /\ n <= b /\ b < n + PageSize
      BY <3>1, <3>2
    <3> QED
      BY <3>3 DEF n
  <2> HIDE DEF Y
  <2> QED
    BY <2>1, <2>2 DEF InPages
<1>5. \A b : b \in X <=> b \in Y
  <2> HIDE DEF X, Y
  <2> QED
    BY <1>1, <1>3, <1>4 DEF Covers, tags
<1>6. X = Y
  <2> HIDE DEF X, Y
  <2> QED
    BY <1>5
<1>7. \A t, u \in DOMAIN tags : t < u => End(t) <= u
  BY <1>1, <1>2 DEF Separate, tags
<1> QED
  BY <1>6, <1>7 DEF Tiled

\* Neighbours agree, and no two of them are free.
LEMMA InvLinks ==
    ASSUME HeapInv
    PROVE  LinksAgree /\ Melted
<1> DEFINE B == DOMAIN held
<1>1. Sound(heap, pages, B) /\ Neighbours(heap) /\ Apart(heap, B)
  BY DEF HeapInv, Good, Sound, Geometry
<1>2. ASSUME NEW t \in DOMAIN tags, NEW u \in DOMAIN tags
      PROVE  /\ tags[t].split_right = u => u = End(t)
             /\ tags[t].split_right = u <=> tags[u].split_left = t
  <2>1. t # NULL /\ u # NULL /\ End(t) = EndOf(heap, t)
    BY <1>1, SoundTags DEF tags, End, EndOf
  <2> QED
    BY <1>1, <2>1 DEF Neighbours, tags
<1>3. \A t \in DOMAIN tags \ B : tags[t].split_right \notin DOMAIN tags \ B
  BY <1>1, SoundTags DEF Apart, tags
<1> QED
  BY <1>2, <1>3 DEF LinksAgree, Melted, FreeTags

\* The lists and the counts.
LEMMA InvTables ==
    ASSUME HeapInv
    PROVE  TablesExact
<1> DEFINE B == DOMAIN held
<1>1. /\ Sound(heap, pages, B) /\ IsHeap(heap) /\ Lists(heap, B) /\ Linking(heap, B)
      /\ Indexed(heap, B) /\ Counts(heap, B) /\ B \in SUBSET DOMAIN heap.tags
  BY DEF HeapInv, Good, Sound, Lists
<1>2. \A e \in Exponents : Reach(e) = InList(heap, B, e)
  BY <1>1, ReachExact DEF Reach, tags
<1>3. \A e \in Exponents : Reach(e) = {t \in FreeTags : ListOf(tags[t].real_size) = e}
  <2> SUFFICES ASSUME NEW e \in Exponents
               PROVE  InList(heap, B, e) = {t \in FreeTags : ListOf(tags[t].real_size) = e}
    BY <1>2
  <2>1. \A t \in DOMAIN heap.tags \ B :
           heap.tags[t].index = ListOf(heap.tags[t].real_size)
    BY <1>1 DEF Indexed
  <2>2. FreeTags = DOMAIN heap.tags \ B /\ tags = heap.tags
    BY DEF FreeTags, tags
  <2> QED
    BY <2>1, <2>2 DEF InList
<1>4. ASSUME NEW t \in DOMAIN tags
      PROVE  /\ t \notin FreeTags <=> tags[t].index = -1
             /\ t \in FreeTags => tags[t].index = ListOf(tags[t].real_size)
             /\ tags[t].next # NULL => tags[tags[t].next].prev = t
             /\ tags[t].prev # NULL => tags[tags[t].prev].next = t
  <2>1. t \in FreeTags <=> t \notin B
    BY DEF FreeTags
  <2>2. CASE t \in B
    <3>1. tags[t].index = -1 /\ tags[t].next = NULL /\ tags[t].prev = NULL
      BY <1>1, <2>2 DEF Linking, tags
    <3> QED
      BY <2>1, <2>2, <3>1
  <2>3. CASE t \notin B
    <3>1. /\ tags[t].next # NULL => tags[tags[t].next].prev = t
          /\ tags[t].prev # NULL => tags[tags[t].prev].next = t
          /\ tags[t].index \in Exponents
      BY <1>1, <2>3 DEF Linking, tags
    <3>2. -1 \notin Exponents
      BY Widths DEF Exponents
    <3>3. tags[t].index = ListOf(tags[t].real_size)
      BY <1>1, <2>3 DEF Indexed, tags
    <3> QED
      BY <2>1, <2>3, <3>1, <3>2, <3>3
  <2> QED
    BY <2>2, <2>3
<1>5. ListsExact
  BY <1>3, <1>4 DEF ListsExact
<1>6. CompleteExact
  <2> SUFFICES ASSUME NEW e \in Exponents
               PROVE  heap.completePages[e] =
                         Cardinality({t \in Reach(e) : /\ tags[t].split_left = NULL
                                                       /\ tags[t].split_right = NULL})
    BY DEF CompleteExact
  <2>1. {t \in Reach(e) : tags[t].split_left = NULL /\ tags[t].split_right = NULL}
           = Waiting(heap, B, e)
    BY <1>2 DEF Waiting, Whole, tags
  <2>2. heap.completePages[e] = Cardinality(Waiting(heap, B, e))
    BY <1>1 DEF Counts
  <2> QED
    BY <2>1, <2>2
<1> QED
  BY <1>5, <1>6 DEF TablesExact

\* The boundary tags are right after every call: the pieces tile the pages that
\* the heap has, neighbours agree about each other, and no two free pieces lie
\* side by side.
THEOREM HeapTagsExact == Spec => []TagsExact
<1>1. HeapInv => TagsExact
  BY InvTypes, InvTiled, InvLinks DEF TagsExact
<1> QED
  BY <1>1, AlwaysInv, PTL

\* The tables that malloc and free steer by are right after every call: a list
\* consists of the free pieces of its size, and l_completePages counts the whole
\* blocks among them.
THEOREM HeapTablesExact == Spec => []TablesExact
<1>1. HeapInv => TablesExact
  BY InvTables
<1> QED
  BY <1>1, AlwaysInv, PTL

\* A payload is always inside its piece, as far as an unsigned int counts its
\* size: for every size, those of 4 GiB and more included.
THEOREM HeapPayloadFits == Spec => []PayloadFits
<1>1. ASSUME HeapInv
      PROVE  PayloadFits
  <2> SUFFICES ASSUME NEW t \in DOMAIN held
               PROVE  t + TagSize + UInt(held[t]) <= End(t)
    BY DEF PayloadFits
  <2> DEFINE n == tags[t].real_size
             s == UInt(held[t])
  <2>1. Sound(heap, pages, DOMAIN held) /\ t \in DOMAIN heap.tags /\ Room(heap, held)
    BY <1>1 DEF HeapInv, Good, Sound
  <2>2. t \in Nat /\ n \in Nat
    BY <2>1, SoundTags DEF tags
  <2>3. s \in Nat /\ TagSize + s <= n /\ TagSize \in Nat
    BY <2>1, Widths, SizesAssumption, UIntNat DEF Room, tags
  <2>4. End(t) = t + n
    BY DEF End
  <2> HIDE DEF n, s
  <2>5. t + TagSize + s <= End(t)
    BY <2>2, <2>3, <2>4
  <2> QED
    BY <2>5 DEF s
<1>2. HeapInv => PayloadFits
  BY <1>1
<1> QED
  BY <1>2, AlwaysInv, PTL

\* Two pieces in use have no byte in common.
LEMMA PiecesApart ==
    ASSUME NEW h, NEW pg, NEW B, Good(h, pg, B), NEW t \in B, NEW u \in B, t # u,
           NEW s \in Nat, NEW z \in Nat,
           TagSize + s <= h.tags[t].real_size, TagSize + z <= h.tags[u].real_size
    PROVE  Promise!Bytes([ptr |-> t + TagSize, size |-> s])
              \cap Promise!Bytes([ptr |-> u + TagSize, size |-> z]) = {}
<1>1. /\ Sound(h, pg, B) /\ Separate(h) /\ t \in DOMAIN h.tags /\ u \in DOMAIN h.tags
  BY DEF Good, Sound, Geometry
<1> DEFINE n == h.tags[t].real_size
           m == h.tags[u].real_size
<1>2. t \in Nat /\ u \in Nat /\ n \in Nat /\ m \in Nat /\ TagSize \in Nat
  BY <1>1, SoundTags, Widths
<1>3. (t < u => t + n <= u) /\ (u < t => u + m <= t)
  BY <1>1 DEF Separate, EndOf
<1>4. TagSize + s <= n /\ TagSize + z <= m
  OBVIOUS
<1> HIDE DEF n, m
<1>5. (t + TagSize..t + TagSize + s - 1) \cap (u + TagSize..u + TagSize + z - 1) = {}
  BY <1>2, <1>3, <1>4
<1> QED
  BY <1>5 DEF Promise!Bytes

\* The payload of the tag t.
Payload(t, size) == [ptr |-> t + TagSize, size |-> UInt(size)]

Live(f) == {Payload(t, f[t]) : t \in DOMAIN f}

\* Payloads of different tags are different.
LEMMA PayloadsDiffer ==
    ASSUME NEW t \in Nat, NEW u \in Nat, t # u, NEW s, NEW z
    PROVE  Payload(t, s) # Payload(u, z)
<1>1. t + TagSize # u + TagSize
  BY Widths
<1>2. Payload(t, s).ptr = t + TagSize /\ Payload(u, z).ptr = u + TagSize
  BY DEF Payload
<1> QED
  BY <1>1, <1>2

\* A payload in a piece of its own overlaps none of those that callers have.
LEMMA PayloadApart ==
    ASSUME NEW h, NEW pg, NEW f, NEW u, u \notin DOMAIN f, NEW size \in Sizes,
           Good(h, pg, DOMAIN f \cup {u}), Room(h, Plus(f, u, size))
    PROVE  /\ Promise!Apart(Payload(u, size), Live(f))
           /\ Payload(u, size) \notin Live(f)
<1> DEFINE both == Plus(f, u, size)
           B == DOMAIN f \cup {u}
<1>1. DOMAIN both = B /\ both[u] = size /\ \A v \in DOMAIN f : both[v] = f[v]
  BY DEF Plus
<1>2. Room(h, both)
  OBVIOUS
<1> HIDE DEF both
<1>3. /\ TagSize + UInt(size) <= h.tags[u].real_size /\ UInt(size) \in Nat
      /\ \A v \in DOMAIN f : /\ UInt(f[v]) \in Nat
                              /\ TagSize + UInt(f[v]) <= h.tags[v].real_size
  BY <1>1, <1>2, SizesAssumption, UIntNat DEF Room
<1>4. B \subseteq Nat
  BY DEF Good, Sound, IsHeap
<1>5. ASSUME NEW v \in DOMAIN f
      PROVE  /\ Promise!Bytes(Payload(u, size)) \cap Promise!Bytes(Payload(v, f[v])) = {}
             /\ Payload(u, size) # Payload(v, f[v])
  <2> DEFINE z == f[v]
  <2>1. /\ u \in B /\ v \in B /\ u # v /\ UInt(z) \in Nat
        /\ TagSize + UInt(z) <= h.tags[v].real_size
        /\ u \in Nat /\ v \in Nat /\ Good(h, pg, B)
    BY <1>3, <1>4
  <2> HIDE DEF z, B
  <2>2. Promise!Bytes(Payload(u, size)) \cap Promise!Bytes(Payload(v, z)) = {}
    BY <1>3, <2>1, PiecesApart DEF Payload
  <2>3. Payload(u, size) # Payload(v, z)
    BY <2>1, PayloadsDiffer
  <2> QED
    BY <2>2, <2>3 DEF z
<1> QED
  BY <1>5 DEF Live, Promise!Apart

\* What callers see of a step of the heap is a step of an allocator.
LEMMA StepAllocates ==
    ASSUME HeapInv, [Next]_vars
    PROVE  [Promise!Next]_(Live(held))
<1> DEFINE B == DOMAIN held
           L == Live(held)
           M == Live(held')
<1>1. B \subseteq Nat
  BY DEF HeapInv, Good, Sound, IsHeap
<1>2. ASSUME NEW size \in Sizes, NEW first \in 1..LastPage, malloc(size, first)
      PROVE  \E x \in M \ L : M = L \cup {x} /\ Promise!Apart(x, L)
  <2>1. PICK t : /\ t \notin B /\ held' = Plus(held, t, size)
                 /\ Good(heap', pages', B \cup {t}) /\ Room(heap', held')
    BY <1>2, MallocInv
  <2>2. DOMAIN held' = B \cup {t} /\ held'[t] = size /\ \A u \in B : held'[u] = held[u]
    BY <2>1 DEF Plus
  <2>3. Promise!Apart(Payload(t, size), L) /\ Payload(t, size) \notin L
    BY <2>1, PayloadApart
  <2>4. M = L \cup {Payload(t, size)}
    BY <2>2 DEF Live
  <2> QED
    BY <2>3, <2>4
<1>3. ASSUME NEW t \in B, free(t)
      PROVE  \E x \in L : M = L \ {x}
  <2>1. DOMAIN held' = B \ {t} /\ \A u \in B \ {t} : held'[u] = held[u]
    BY <1>3, FreeInv
  <2>2. \A u \in B \ {t} : Payload(t, held[t]) # Payload(u, held[u])
    BY <1>1, PayloadsDiffer
  <2>3. M = L \ {Payload(t, held[t])} /\ Payload(t, held[t]) \in L
    BY <2>1, <2>2 DEF Live
  <2> QED
    BY <2>3
<1>4. ASSUME NEW t \in B, NEW size \in Sizes, NEW first \in 1..LastPage,
             realloc(t, size, first)
      PROVE  \E x \in L, y \in M \ L : M = (L \ {x}) \cup {y} /\ Promise!Apart(y, L)
  <2>1. PICK h, pg, u : /\ u \notin B /\ Good(h, pg, B \cup {u})
                        /\ Room(h, Plus(held, u, size))
                        /\ DOMAIN held' = (B \ {t}) \cup {u} /\ held'[u] = size
                        /\ \A v \in B \ {t} : held'[v] = held[v]
    BY <1>4, ReallocInv
  <2>2. Promise!Apart(Payload(u, size), L) /\ Payload(u, size) \notin L
    BY <2>1, PayloadApart
  <2>3. \A v \in B \ {t} : Payload(t, held[t]) # Payload(v, held[v])
    BY <1>1, PayloadsDiffer
  <2>4. /\ M = (L \ {Payload(t, held[t])}) \cup {Payload(u, size)}
        /\ Payload(t, held[t]) \in L /\ Payload(u, size) \in M
    BY <2>1, <2>3 DEF Live
  <2> QED
    BY <2>2, <2>4
<1>5. /\ L = {[ptr |-> t + TagSize, size |-> UInt(held[t])] : t \in DOMAIN held}
      /\ M = {[ptr |-> t + TagSize, size |-> UInt(held'[t])] : t \in DOMAIN held'}
  BY DEF Live, Payload
<1>6. ASSUME \E x \in M \ L : M = L \cup {x} /\ Promise!Apart(x, L)
      PROVE  Promise!Next
  BY <1>5, <1>6 DEF Promise!Next, Promise!Allocate
<1>7. ASSUME \E x \in L : M = L \ {x}
      PROVE  Promise!Next
  BY <1>5, <1>7 DEF Promise!Next, Promise!Release
<1>8. ASSUME \E x \in L, y \in M \ L : M = (L \ {x}) \cup {y} /\ Promise!Apart(y, L)
      PROVE  Promise!Next
  BY <1>5, <1>8 DEF Promise!Next, Promise!Move
<1>9. ASSUME held' = held
      PROVE  L' = L
  BY <1>9 DEF Live
<1>10. ASSUME NEW size \in Sizes, NEW first \in 1..LastPage,
              HookFails(size, first) \/ \E t \in DOMAIN held : CopyOverruns(t, size, first)
       PROVE  L' = L
  BY <1>9, <1>10, StopChangesNothing
<1>11. CASE Stopped \/ UNCHANGED vars
  BY <1>9, <1>11 DEF Stopped, vars
<1> QED
  BY <1>2, <1>3, <1>4, <1>6, <1>7, <1>8, <1>10, <1>11 DEF Next

\* The heap keeps the promise of an allocator: malloc hands out memory that
\* nobody has, free gives back what it is given and nothing else, and realloc
\* gets its new piece apart from the old one before it frees that.  The size of
\* a piece is what an unsigned int keeps of it, and the promise ends where the
\* page layer gives the heap pages that are not new.
THEOREM HeapIsAllocator == Spec => IsAllocator
<1>1. Init => Promise!Init
  BY DEF Init, Promise!Init
<1>2. HeapInv /\ [Next]_vars =>
         [Promise!Next]_({[ptr |-> t + TagSize, size |-> UInt(held[t])] : t \in DOMAIN held})
  BY StepAllocates DEF Live, Payload
<1> QED
  BY <1>1, <1>2, AlwaysInv, PTL DEF Spec, IsAllocator, Promise!Spec
=============================================================================
