----------------------------- MODULE VecProofs -----------------------------
(* What the operations of Vec do to the slots of a vector, for every       *)
(* vector and every element.                                               *)
EXTENDS Vec, TLAPS

\* A well-formed vector: no more slots in use than there are slots.
WellFormed(v, S) == v \in VecOf(S) /\ v.length <= Capacity(v)

\* The elements in use are pairwise different.
NoRepeat(v) ==
    \A i, j \in 1..v.length : v.data[i] = v.data[j] => i = j

\* vec_expand_ keeps the slots it has and makes room for one more.
LEMMA ExpandKeepsSlots ==
    ASSUME NEW S, NEW v, WellFormed(v, S)
    PROVE  /\ vec_expand(v) \in VecOf(S)
           /\ vec_expand(v).length = v.length
           /\ v.length < Capacity(vec_expand(v))
           /\ Capacity(v) <= Capacity(vec_expand(v))
           /\ \A i \in 1..Capacity(v) : vec_expand(v).data[i] = v.data[i]
           /\ \A i \in 1..Capacity(vec_expand(v)) :
                 vec_expand(v).data[i] \in S \cup {Junk}
           /\ \A i \in 1..Capacity(vec_expand(v)) :
                 i > Capacity(v) => vec_expand(v).data[i] = Junk
<1> DEFINE n == IF Capacity(v) = 0 THEN 1 ELSE 2 * Capacity(v)
           d == [i \in 1..n |-> IF i <= Capacity(v) THEN v.data[i] ELSE Junk]
<1>1. /\ v.data \in Seq(S \cup {Junk})
      /\ v.length \in Nat
      /\ Capacity(v) \in Nat
      /\ v.length <= Capacity(v)
      /\ v = [data |-> v.data, length |-> v.length]
      /\ \A i \in 1..Capacity(v) : v.data[i] \in S \cup {Junk}
  BY DEF WellFormed, VecOf, Capacity
<1>2. CASE v.length + 1 > Capacity(v)
  <2>1. n \in Nat /\ n > Capacity(v)
    BY <1>1
  <2>2. d \in Seq(S \cup {Junk}) /\ Len(d) = n
    BY <1>1, <2>1
  <2>3. vec_expand(v) = [data |-> d, length |-> v.length]
    BY <1>1, <1>2 DEF vec_expand
  <2>4. \A i \in 1..n : d[i] = IF i <= Capacity(v) THEN v.data[i] ELSE Junk
    OBVIOUS
  <2> HIDE DEF d, n
  <2>5. vec_expand(v).data = d /\ vec_expand(v).length = v.length
    BY <2>3
  <2>6. Capacity(vec_expand(v)) = n
    BY <2>2, <2>5 DEF Capacity
  <2>7. vec_expand(v) \in VecOf(S)
    BY <1>1, <2>2, <2>3 DEF VecOf
  <2> QED
    BY <1>1, <2>1, <2>4, <2>5, <2>6, <2>7
<1>3. CASE ~(v.length + 1 > Capacity(v))
  BY <1>1, <1>3 DEF vec_expand, WellFormed
<1> QED
  BY <1>2, <1>3

\* vec_push puts x behind the elements in use and changes none of them.
LEMMA PushAppends ==
    ASSUME NEW S, NEW v, WellFormed(v, S), NEW x \in S
    PROVE  /\ WellFormed(vec_push(v, x), S)
           /\ vec_push(v, x).length = v.length + 1
           /\ vec_push(v, x).data[v.length + 1] = x
           /\ \A i \in 1..v.length : vec_push(v, x).data[i] = v.data[i]
           /\ \A i \in 1..Capacity(vec_push(v, x)) :
                 \/ vec_push(v, x).data[i] \in {x, Junk}
                 \/ i \in 1..Capacity(v) /\ vec_push(v, x).data[i] = v.data[i]
<1> DEFINE w == vec_expand(v)
           d == [w.data EXCEPT ![w.length + 1] = x]
<1>1. /\ w.data \in Seq(S \cup {Junk})
      /\ w.length = v.length
      /\ v.length \in Nat
      /\ Capacity(v) \in Nat
      /\ v.length < Len(w.data)
      /\ v.length <= Capacity(v)
      /\ Capacity(v) <= Len(w.data)
      /\ \A i \in 1..Capacity(v) : w.data[i] = v.data[i]
      /\ \A i \in 1..Len(w.data) : i > Capacity(v) => w.data[i] = Junk
  <2>1. /\ w \in VecOf(S)
        /\ w.length = v.length
        /\ v.length < Capacity(w)
        /\ Capacity(v) <= Capacity(w)
        /\ \A i \in 1..Capacity(v) : w.data[i] = v.data[i]
        /\ \A i \in 1..Capacity(w) : i > Capacity(v) => w.data[i] = Junk
    BY ExpandKeepsSlots
  <2>2. v \in VecOf(S) /\ v.length <= Capacity(v)
    BY DEF WellFormed
  <2> HIDE DEF w
  <2>3. /\ v.length \in Nat /\ Capacity(v) \in Nat
        /\ w.data \in Seq(S \cup {Junk}) /\ Capacity(w) = Len(w.data)
    BY <2>1, <2>2 DEF VecOf, Capacity
  <2> QED
    BY <2>1, <2>2, <2>3
<1> HIDE DEF w
<1>2. d \in Seq(S \cup {Junk}) /\ Len(d) = Len(w.data)
  BY <1>1
<1>3. \A i \in 1..Len(d) : d[i] = IF i = v.length + 1 THEN x ELSE w.data[i]
  BY <1>1, <1>2
<1> HIDE DEF d
<1>4. vec_push(v, x) = [data |-> d, length |-> v.length + 1]
  BY <1>1 DEF vec_push, w, d
<1>5. vec_push(v, x).data = d /\ vec_push(v, x).length = v.length + 1
  BY <1>4
<1>6. Capacity(vec_push(v, x)) = Len(d)
  BY <1>5 DEF Capacity
<1>7. WellFormed(vec_push(v, x), S)
  <2>1. vec_push(v, x) \in VecOf(S)
    BY <1>1, <1>2, <1>4 DEF VecOf
  <2> QED
    BY <1>1, <1>2, <1>5, <1>6, <2>1 DEF WellFormed
<1>8. \A i \in 1..Len(d) :
         \/ d[i] \in {x, Junk}
         \/ i \in 1..Capacity(v) /\ d[i] = v.data[i]
  BY <1>1, <1>2, <1>3
<1> QED
  BY <1>1, <1>2, <1>3, <1>5, <1>6, <1>7, <1>8

\* vec_splice_ of one slot closes the hole and writes no new value anywhere.
LEMMA SpliceCloses ==
    ASSUME NEW S, NEW v, WellFormed(v, S), NEW s \in 0..v.length - 1
    PROVE  /\ WellFormed(vec_splice(v, s, 1), S)
           /\ vec_splice(v, s, 1).length = v.length - 1
           /\ \A i \in 1..v.length - 1 :
                 vec_splice(v, s, 1).data[i] =
                     IF i <= s THEN v.data[i] ELSE v.data[i + 1]
           /\ Capacity(vec_splice(v, s, 1)) = Capacity(v)
           /\ \A i \in 1..Capacity(v) : \E j \in 1..Capacity(v) :
                 vec_splice(v, s, 1).data[i] = v.data[j]
<1> DEFINE d == [i \in 1..Capacity(v) |->
                   IF s < i /\ i <= v.length - 1 THEN v.data[i + 1] ELSE v.data[i]]
<1>1. /\ v.data \in Seq(S \cup {Junk})
      /\ v.length \in Nat
      /\ Capacity(v) \in Nat
      /\ v.length <= Capacity(v)
      /\ \A i \in 1..Capacity(v) : v.data[i] \in S \cup {Junk}
      /\ s \in Nat /\ s < v.length
  BY DEF WellFormed, VecOf, Capacity
<1>2. d \in Seq(S \cup {Junk}) /\ Len(d) = Capacity(v)
  BY <1>1
<1>3. vec_splice(v, s, 1) = [data |-> d, length |-> v.length - 1]
  BY DEF vec_splice
<1>4. \A i \in 1..Capacity(v) : \E j \in 1..Capacity(v) : d[i] = v.data[j]
  BY <1>1
<1>5. \A i \in 1..v.length - 1 : d[i] = IF i <= s THEN v.data[i] ELSE v.data[i + 1]
  BY <1>1
<1> HIDE DEF d
<1>6. vec_splice(v, s, 1).data = d /\ vec_splice(v, s, 1).length = v.length - 1
  BY <1>3
<1>7. Capacity(vec_splice(v, s, 1)) = Capacity(v)
  BY <1>2, <1>6 DEF Capacity
<1>8. vec_splice(v, s, 1) \in VecOf(S)
  BY <1>1, <1>2, <1>3 DEF VecOf
<1>9. WellFormed(vec_splice(v, s, 1), S)
  BY <1>1, <1>6, <1>7, <1>8 DEF WellFormed
<1> QED
  BY <1>4, <1>5, <1>6, <1>7, <1>9

\* vec_remove of an element that is there once takes out that one alone.
LEMMA RemoveTakesOne ==
    ASSUME NEW S, NEW v, WellFormed(v, S), NoRepeat(v), NEW x \in Elements(v)
    PROVE  /\ WellFormed(vec_remove(v, x), S)
           /\ vec_remove(v, x).length = v.length - 1
           /\ NoRepeat(vec_remove(v, x))
           /\ Elements(vec_remove(v, x)) = Elements(v) \ {x}
           /\ Capacity(vec_remove(v, x)) = Capacity(v)
           /\ \A i \in 1..Capacity(v) : \E j \in 1..Capacity(v) :
                 vec_remove(v, x).data[i] = v.data[j]
<1>1. /\ v.length \in Nat
      /\ Capacity(v) \in Nat
      /\ v.length <= Capacity(v)
  BY DEF WellFormed, VecOf, Capacity
<1>2. PICK k \in 1..v.length : v.data[k] = x
  BY DEF Elements
<1>3. vec_find(v, x) = k - 1
  <2>1. \A i \in 0..v.length - 1 : v.data[i + 1] = x => i = k - 1
    BY <1>1, <1>2 DEF NoRepeat
  <2>2. /\ k - 1 \in 0..v.length - 1
        /\ v.data[(k - 1) + 1] = x
        /\ \A j \in 0..(k - 1) - 1 : v.data[j + 1] # x
    BY <1>1, <1>2, <2>1
  <2> QED
    BY <2>1, <2>2 DEF vec_find
<1> DEFINE w == vec_splice(v, k - 1, 1)
<1>4. vec_remove(v, x) = w
  BY <1>1, <1>2, <1>3 DEF vec_remove
<1>5. /\ WellFormed(w, S)
      /\ w.length = v.length - 1
      /\ \A i \in 1..v.length - 1 :
            w.data[i] = IF i <= k - 1 THEN v.data[i] ELSE v.data[i + 1]
      /\ Capacity(w) = Capacity(v)
      /\ \A i \in 1..Capacity(v) : \E j \in 1..Capacity(v) : w.data[i] = v.data[j]
  BY <1>1, <1>2, SpliceCloses
<1> HIDE DEF w
<1>6. NoRepeat(w)
  BY <1>1, <1>2, <1>5 DEF NoRepeat
<1>7. Elements(w) = Elements(v) \ {x}
  <2>1. ASSUME NEW y \in Elements(w) PROVE y \in Elements(v) /\ y # x
    BY <1>1, <1>2, <1>5 DEF Elements, NoRepeat
  <2>2. ASSUME NEW y \in Elements(v), y # x PROVE y \in Elements(w)
    <3>1. PICK m \in 1..v.length : v.data[m] = y
      BY DEF Elements
    <3>2. CASE m < k
      BY <1>1, <1>2, <1>5, <3>1, <3>2 DEF Elements
    <3>3. CASE m > k
      <4>1. m - 1 \in 1..w.length /\ w.data[m - 1] = y
        BY <1>1, <1>2, <1>5, <3>1, <3>3
      <4> QED
        BY <4>1 DEF Elements
    <3> QED
      BY <1>2, <2>2, <3>1, <3>2, <3>3
  <2> QED
    BY <2>1, <2>2
<1> QED
  BY <1>4, <1>5, <1>6, <1>7
=============================================================================
