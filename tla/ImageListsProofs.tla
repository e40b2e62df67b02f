--------------------------- MODULE ImageListsProofs ---------------------------
(***************************************************************************)
(* A proof, for every set of variants, images and requests and for all     *)
(* limits, that ProductImages implements ImageLists: every commit is one   *)
(* operation on the list of a scope, whatever is read before it and        *)
(* whatever fails after it.                                                *)
(***************************************************************************)
EXTENDS ProductImagesProofs, SequenceTheorems

-----------------------------------------------------------------------------
(* Sets of images that are numbered without a gap, and their lists.        *)

\* pos numbers the images in S from 0 up.
Numbers(pos, S) ==
    /\ S \in SUBSET Image /\ IsFiniteSet(S)
    /\ \A i \in S : pos[i] \in 0..(Cardinality(S) - 1)
    /\ \A i, j \in S : pos[i] = pos[j] => i = j

\* l has each image in S at its number.
Lined(l, pos, S) ==
    /\ l \in Seq(Image)
    /\ Len(l) = Cardinality(S)
    /\ \A i \in S : pos[i] + 1 \in 1..Len(l) /\ l[pos[i] + 1] = i

InOrder(pos, S) ==
    [n \in 1..Cardinality(S) |-> CHOOSE i \in S : pos[i] = n - 1]

LEMMA NumberingIsOnto ==
    ASSUME NEW pos, NEW S, Numbers(pos, S), NEW n \in 0..(Cardinality(S) - 1)
    PROVE  \E i \in S : pos[i] = n
<1>1. PICK f : f = [i \in S |-> pos[i]]
  OBVIOUS
<1>2. Cardinality(S) \in Nat
  BY FS_CardinalityType DEF Numbers
<1>3. PICK m : m = Cardinality(S) - 1
  OBVIOUS
<1>4. m \in Int /\ Cardinality(S) = m + 1 /\ m >= 0 /\ n \in 0..m
  BY <1>2, <1>3
<1>5. IsFiniteSet(0..m) /\ Cardinality(0..m) = Cardinality(S)
  <2>1. IsFiniteSet(0..m) /\ Cardinality(0..m) = IF 0 > m THEN 0 ELSE m - 0 + 1
    BY <1>4, FS_Interval
  <2> QED BY <1>4, <2>1
<1>6. f \in Injection(S, 0..m)
  BY <1>1, <1>3 DEF Numbers, Injection, IsInjective
<1>7. f \in Surjection(S, 0..m)
  BY <1>5, <1>6, FS_Injection
<1>8. \E i \in S : f[i] = n
  BY <1>4, <1>7 DEF Surjection
<1> QED BY <1>1, <1>8

\* How many elements have a smaller number.
LEMMA NumberCounts ==
    ASSUME NEW pos, NEW S, Numbers(pos, S), NEW i \in S
    PROVE  Cardinality({j \in S : pos[j] < pos[i]}) = pos[i]
<1>1. PICK T, n : T = {j \in S : pos[j] < pos[i]} /\ n = pos[i]
  OBVIOUS
<1>2. Cardinality(S) \in Nat /\ n \in Nat /\ n < Cardinality(S)
  BY <1>1, FS_CardinalityType DEF Numbers
<1>3. IsFiniteSet(T)
  <2>1. T \in SUBSET S
    BY <1>1
  <2> QED BY <2>1, FS_Subset DEF Numbers
<1>4. PICK f : f = [j \in T |-> pos[j]]
  OBVIOUS
<1>5. f \in [T -> 0..(n - 1)]
  BY <1>1, <1>2, <1>4 DEF Numbers
<1>6. IsFiniteSet(0..(n - 1)) /\ Cardinality(0..(n - 1)) = n
  <2>1. PICK m : m = n - 1
    OBVIOUS
  <2>2. m \in Int /\ n = m + 1
    BY <1>2, <2>1
  <2>3. IsFiniteSet(0..m) /\ Cardinality(0..m) = IF 0 > m THEN 0 ELSE m - 0 + 1
    BY <2>2, FS_Interval
  <2> QED BY <1>2, <2>1, <2>2, <2>3
<1>7. f \in Injection(T, 0..(n - 1))
  BY <1>1, <1>4, <1>5 DEF Numbers, Injection, IsInjective
<1>8. f \in Surjection(T, 0..(n - 1))
  <2>1. ASSUME NEW k \in 0..(n - 1)
        PROVE  \E j \in T : f[j] = k
    <3>1. k \in 0..(Cardinality(S) - 1)
      BY <1>2
    <3>2. PICK j \in S : pos[j] = k
      BY <3>1, NumberingIsOnto
    <3> QED BY <1>1, <1>2, <1>4, <3>2
  <2> QED BY <1>5, <2>1 DEF Surjection
<1>9. Cardinality(T) = Cardinality(0..(n - 1))
  BY <1>6, <1>7, <1>8, FS_Injection
<1> QED BY <1>1, <1>6, <1>9

\* The list of a numbered set has its elements at their numbers, and no other
\* sequence has.
LEMMA ListIsLined ==
    ASSUME NEW pos, NEW S, Numbers(pos, S)
    PROVE  Lined(InOrder(pos, S), pos, S)
<1>1. PICK l, c : l = InOrder(pos, S) /\ c = Cardinality(S)
  OBVIOUS
<1>2. c \in Nat
  BY <1>1, FS_CardinalityType DEF Numbers
<1>3. l = [n \in 1..c |-> CHOOSE i \in S : pos[i] = n - 1]
  BY <1>1 DEF InOrder
<1>4. ASSUME NEW n \in 1..c
      PROVE  l[n] \in S /\ pos[l[n]] = n - 1
  <2>1. n - 1 \in 0..(Cardinality(S) - 1)
    BY <1>1, <1>2
  <2>2. \E i \in S : pos[i] = n - 1
    BY <2>1, NumberingIsOnto
  <2>3. l[n] = CHOOSE i \in S : pos[i] = n - 1
    BY <1>3
  <2> QED BY <2>2, <2>3
<1>5. l \in [1..c -> Image]
  BY <1>3, <1>4 DEF Numbers
<1>6. l \in Seq(Image) /\ Len(l) = c
  BY <1>2, <1>5
<1>7. ASSUME NEW i \in S
      PROVE  pos[i] + 1 \in 1..c /\ l[pos[i] + 1] = i
  <2>1. pos[i] + 1 \in 1..c /\ pos[i] \in Nat
    BY <1>1, <1>2 DEF Numbers
  <2>2. l[pos[i] + 1] \in S /\ pos[l[pos[i] + 1]] = pos[i]
    BY <1>4, <2>1
  <2> QED BY <2>1, <2>2 DEF Numbers
<1> QED BY <1>1, <1>6, <1>7 DEF Lined

LEMMA LinedIsList ==
    ASSUME NEW pos, NEW S, Numbers(pos, S), NEW l, Lined(l, pos, S)
    PROVE  l = InOrder(pos, S)
<1>1. PICK m, c : m = InOrder(pos, S) /\ c = Cardinality(S)
  OBVIOUS
<1>2. Lined(m, pos, S)
  BY <1>1, ListIsLined
<1>3. ASSUME NEW n \in 1..c
      PROVE  l[n] = m[n]
  <2>1. n - 1 \in 0..(Cardinality(S) - 1) /\ (n - 1) + 1 = n
    BY <1>1, FS_CardinalityType DEF Numbers
  <2>2. PICK i \in S : pos[i] = n - 1
    BY <2>1, NumberingIsOnto
  <2> QED BY <1>2, <2>1, <2>2 DEF Lined
<1> QED BY <1>1, <1>2, <1>3, SeqEqual DEF Lined

-----------------------------------------------------------------------------
(* What the operations of ImageLists do to the list of a numbered set.     *)

LEMMA RemoveAtIndices ==
    ASSUME NEW S, NEW l \in Seq(S), NEW at \in 1..Len(l)
    PROVE  /\ Lists!RemoveAt(l, at) \in Seq(S)
           /\ Len(Lists!RemoveAt(l, at)) = Len(l) - 1
           /\ \A k \in 1..(Len(l) - 1) :
                 Lists!RemoveAt(l, at)[k] = IF k < at THEN l[k] ELSE l[k + 1]
<1>1. PICK n : n = Len(l)
  OBVIOUS
<1>2. n \in Nat /\ at \in 1..n /\ \A k \in 1..n : l[k] \in S
  BY <1>1, LenProperties, ElementOfSeq
<1>3. PICK a, b : a = SubSeq(l, 1, at - 1) /\ b = SubSeq(l, at + 1, n)
  OBVIOUS
<1>4. /\ a \in Seq(S) /\ Len(a) = at - 1
      /\ \A k \in 1..(at - 1) : a[k] = l[k]
  <2>1. 1 \in Int /\ at - 1 \in Int /\ \A k \in 1..(at - 1) : l[k] \in S
    BY <1>2
  <2>2. /\ a \in Seq(S) /\ Len(a) = IF 1 <= at - 1 THEN (at - 1) - 1 + 1 ELSE 0
        /\ \A k \in 1..((at - 1) - 1 + 1) : a[k] = l[1 + k - 1]
    BY <1>3, <2>1, SubSeqProperties
  <2> QED BY <1>2, <2>2
<1>5. /\ b \in Seq(S) /\ Len(b) = n - at
      /\ \A k \in 1..(n - at) : b[k] = l[at + k]
  <2>1. at + 1 \in Int /\ n \in Int /\ \A k \in (at + 1)..n : l[k] \in S
    BY <1>2
  <2>2. /\ b \in Seq(S) /\ Len(b) = IF at + 1 <= n THEN n - (at + 1) + 1 ELSE 0
        /\ \A k \in 1..(n - (at + 1) + 1) : b[k] = l[at + 1 + k - 1]
    BY <1>3, <2>1, SubSeqProperties
  <2> QED BY <1>2, <2>2
<1>6. Lists!RemoveAt(l, at) = a \o b
  BY <1>1, <1>3 DEF Lists!RemoveAt
<1>7. /\ a \o b \in Seq(S) /\ Len(a \o b) = n - 1
      /\ \A k \in 1..(n - 1) : (a \o b)[k] = IF k <= at - 1 THEN a[k] ELSE b[k - (at - 1)]
  <2>1. /\ a \o b \in Seq(S) /\ Len(a \o b) = Len(a) + Len(b)
        /\ \A k \in 1..(Len(a) + Len(b)) :
              (a \o b)[k] = IF k <= Len(a) THEN a[k] ELSE b[k - Len(a)]
    BY <1>4, <1>5, ConcatProperties
  <2> QED BY <1>2, <1>4, <1>5, <2>1
<1>8. ASSUME NEW k \in 1..(n - 1)
      PROVE  (a \o b)[k] = IF k < at THEN l[k] ELSE l[k + 1]
  <2>1. CASE k < at
    BY <1>2, <1>4, <1>7, <2>1
  <2>2. CASE ~(k < at)
    <3>1. k - (at - 1) \in 1..(n - at) /\ at + (k - (at - 1)) = k + 1
      BY <1>2, <2>2
    <3> QED BY <1>2, <1>5, <1>7, <2>2, <3>1
  <2> QED BY <2>1, <2>2
<1> QED BY <1>1, <1>6, <1>7, <1>8

\* m is l with e as its element number to.
IsInserted(m, l, to, e, S) ==
    /\ m \in Seq(S) /\ Len(m) = Len(l) + 1
    /\ \A k \in 1..(Len(l) + 1) :
          m[k] = IF k < to THEN l[k] ELSE IF k = to THEN e ELSE l[k - 1]

LEMMA InsertAtIndices ==
    ASSUME NEW S, NEW l \in Seq(S), NEW to \in 1..(Len(l) + 1), NEW e \in S
    PROVE  IsInserted(Lists!InsertAt(l, to, e), l, to, e, S)
<1>1. PICK n : n = Len(l)
  OBVIOUS
<1>2. n \in Nat /\ to \in 1..(n + 1) /\ \A k \in 1..n : l[k] \in S
  BY <1>1, LenProperties, ElementOfSeq
<1>3. PICK a, b, c : a = SubSeq(l, 1, to - 1) /\ b = SubSeq(l, to, n) /\ c = <<e>>
  OBVIOUS
<1>4. /\ a \in Seq(S) /\ Len(a) = to - 1
      /\ \A k \in 1..(to - 1) : a[k] = l[k]
  <2>1. 1 \in Int /\ to - 1 \in Int /\ \A k \in 1..(to - 1) : l[k] \in S
    BY <1>2
  <2>2. /\ a \in Seq(S) /\ Len(a) = IF 1 <= to - 1 THEN (to - 1) - 1 + 1 ELSE 0
        /\ \A k \in 1..((to - 1) - 1 + 1) : a[k] = l[1 + k - 1]
    BY <1>3, <2>1, SubSeqProperties
  <2> QED BY <1>2, <2>2
<1>5. /\ b \in Seq(S) /\ Len(b) = n - to + 1
      /\ \A k \in 1..(n - to + 1) : b[k] = l[to + k - 1]
  <2>1. to \in Int /\ n \in Int /\ \A k \in to..n : l[k] \in S
    BY <1>2
  <2>2. /\ b \in Seq(S) /\ Len(b) = IF to <= n THEN n - to + 1 ELSE 0
        /\ \A k \in 1..(n - to + 1) : b[k] = l[to + k - 1]
    BY <1>3, <2>1, SubSeqProperties
  <2> QED BY <1>2, <2>2
<1>6. c \in Seq(S) /\ Len(c) = 1 /\ c[1] = e
  BY <1>3
<1>7. PICK d : d = a \o c
  OBVIOUS
<1>8. /\ d \in Seq(S) /\ Len(d) = to
      /\ \A k \in 1..to : d[k] = IF k < to THEN l[k] ELSE e
  <2>1. /\ d \in Seq(S) /\ Len(d) = Len(a) + Len(c)
        /\ \A k \in 1..(Len(a) + Len(c)) :
              d[k] = IF k <= Len(a) THEN a[k] ELSE c[k - Len(a)]
    BY <1>4, <1>6, <1>7, ConcatProperties
  <2>2. Len(a) + Len(c) = to /\ to - Len(a) = 1
    BY <1>2, <1>4, <1>6
  <2>3. \A k \in 1..to : k < to => k <= Len(a) /\ k \in 1..(to - 1)
    BY <1>2, <1>4
  <2>4. \A k \in 1..to : ~(k < to) => k = to /\ ~(k <= Len(a))
    BY <1>2, <1>4
  <2> QED BY <1>4, <1>6, <2>1, <2>2, <2>3, <2>4
<1>9. Lists!InsertAt(l, to, e) = d \o b
  BY <1>1, <1>3, <1>7 DEF Lists!InsertAt
<1>10. /\ d \o b \in Seq(S) /\ Len(d \o b) = n + 1
       /\ \A k \in 1..(n + 1) : (d \o b)[k] = IF k <= to THEN d[k] ELSE b[k - to]
  <2>1. /\ d \o b \in Seq(S) /\ Len(d \o b) = Len(d) + Len(b)
        /\ \A k \in 1..(Len(d) + Len(b)) :
              (d \o b)[k] = IF k <= Len(d) THEN d[k] ELSE b[k - Len(d)]
    BY <1>5, <1>8, ConcatProperties
  <2>2. Len(d) = to /\ Len(d) + Len(b) = n + 1
    BY <1>2, <1>5, <1>8
  <2> QED BY <2>1, <2>2
<1>11. ASSUME NEW k \in 1..(n + 1)
       PROVE  (d \o b)[k] = IF k < to THEN l[k] ELSE IF k = to THEN e ELSE l[k - 1]
  <2>1. CASE k <= to
    BY <1>2, <1>8, <1>10, <2>1
  <2>2. CASE ~(k <= to)
    <3>1. k - to \in 1..(n - to + 1) /\ to + (k - to) - 1 = k - 1
      BY <1>2, <2>2
    <3> QED BY <1>2, <1>5, <1>10, <2>2, <3>1
  <2> QED BY <2>1, <2>2
<1> QED BY <1>1, <1>9, <1>10, <1>11 DEF IsInserted

\* An image that gets the next number goes to the end.
LEMMA AppendLines ==
    ASSUME NEW pos, NEW S, Numbers(pos, S), NEW l, Lined(l, pos, S),
           NEW i \in Image \ S,
           NEW new, new[i] = Cardinality(S), \A j \in S : new[j] = pos[j]
    PROVE  Numbers(new, S \cup {i}) /\ Lined(Append(l, i), new, S \cup {i})
<1>1. PICK n, T : n = Cardinality(S) /\ T = S \cup {i}
  OBVIOUS
<1>2. n \in Nat /\ IsFiniteSet(T) /\ Cardinality(T) = n + 1
  BY <1>1, FS_CardinalityType, FS_AddElement DEF Numbers
<1>3. Numbers(new, T)
  <2>1. \A j \in T : new[j] \in 0..n /\ (new[j] = n => j = i)
    BY <1>1, <1>2 DEF Numbers
  <2>2. \A j, k \in T : new[j] = new[k] => j = k
    BY <1>1, <2>1 DEF Numbers
  <2>3. T \in SUBSET Image
    BY <1>1 DEF Numbers
  <2>4. Cardinality(T) - 1 = n
    BY <1>2
  <2> QED BY <1>2, <2>1, <2>2, <2>3, <2>4 DEF Numbers
<1>4. l \in Seq(Image) /\ Len(l) = n
  BY <1>1 DEF Lined
<1>5. PICK m : m = Append(l, i)
  OBVIOUS
<1>6. /\ m \in Seq(Image) /\ Len(m) = n + 1 /\ m[n + 1] = i
      /\ \A k \in 1..n : m[k] = l[k]
  BY <1>4, <1>5, AppendProperties
<1>7. ASSUME NEW j \in T
      PROVE  new[j] + 1 \in 1..Len(m) /\ m[new[j] + 1] = j
  <2>1. CASE j = i
    BY <1>1, <1>2, <1>6, <2>1
  <2>2. CASE j \in S
    <3>1. pos[j] + 1 \in 1..n /\ l[pos[j] + 1] = j /\ new[j] = pos[j]
      BY <1>4, <2>2 DEF Lined
    <3> QED BY <1>2, <1>6, <3>1
  <2> QED BY <1>1, <2>1, <2>2
<1> QED BY <1>1, <1>2, <1>3, <1>5, <1>6, <1>7 DEF Lined

\* reorder, on the numbers and on the list.
LEMMA MoveLines ==
    ASSUME NEW pos, NEW S, Numbers(pos, S), NEW l, Lined(l, pos, S),
           NEW i \in S, NEW to \in 0..(Cardinality(S) - 1),
           NEW new, \A j \in S : new[j] = Moved(pos[j], pos[i], to)
    PROVE  /\ Numbers(new, S)
           /\ Lined(Lists!InsertAt(Lists!RemoveAt(l, pos[i] + 1), to + 1, i), new, S)
<1>1. PICK n, from : n = Cardinality(S) /\ from = pos[i]
  OBVIOUS
<1>2. n \in Nat /\ to \in 0..(n - 1) /\ \A j \in S : pos[j] \in 0..(n - 1)
  BY <1>1, FS_CardinalityType DEF Numbers
<1>3. from \in 0..(n - 1)
  BY <1>1, <1>2
<1>4. Numbers(new, S)
  <2>1. ASSUME NEW j \in S, NEW k \in S
        PROVE  new[j] \in 0..(n - 1) /\ (new[j] = new[k] => j = k)
    <3>1. /\ new[j] = Moved(pos[j], from, to) /\ new[k] = Moved(pos[k], from, to)
          /\ pos[j] \in 0..(n - 1) /\ pos[k] \in 0..(n - 1)
      BY <1>1, <1>2
    <3>2. new[j] \in 0..(n - 1) /\ (new[j] = new[k] => pos[j] = pos[k])
      BY <1>2, <1>3, <3>1, MovedIsPermutation
    <3> QED BY <3>2 DEF Numbers
  <2> QED BY <1>1, <2>1 DEF Numbers
<1>5. /\ l \in Seq(Image) /\ Len(l) = n /\ i \in Image
      /\ \A j \in S : l[pos[j] + 1] = j
  BY <1>1 DEF Lined, Numbers
<1>6. PICK rest : rest = Lists!RemoveAt(l, from + 1)
  OBVIOUS
<1>7. /\ rest \in Seq(Image) /\ Len(rest) = n - 1
      /\ \A k \in 1..(n - 1) : rest[k] = IF k < from + 1 THEN l[k] ELSE l[k + 1]
  <2>1. from + 1 \in 1..Len(l)
    BY <1>2, <1>3, <1>5
  <2> QED BY <1>5, <1>6, <2>1, RemoveAtIndices
<1>8. PICK m, place : place = to + 1 /\ m = Lists!InsertAt(rest, place, i)
  OBVIOUS
<1>9. /\ m \in Seq(Image) /\ Len(m) = n
      /\ \A k \in 1..n : m[k] = IF k < to + 1 THEN rest[k]
                                 ELSE IF k = to + 1 THEN i ELSE rest[k - 1]
  <2>1. Len(rest) + 1 = n /\ place \in 1..n
    BY <1>2, <1>7, <1>8
  <2>2. place \in 1..(Len(rest) + 1)
    BY <2>1
  <2>3. rest \in Seq(Image) /\ i \in Image
    BY <1>5, <1>7
  <2>4. IsInserted(Lists!InsertAt(rest, place, i), rest, place, i, Image)
    BY <2>2, <2>3, InsertAtIndices
  <2> QED BY <1>8, <2>1, <2>4 DEF IsInserted
<1>10. ASSUME NEW j \in S
       PROVE  new[j] + 1 \in 1..Len(m) /\ m[new[j] + 1] = j
  <2>1. PICK at, k : at = pos[j] /\ k = new[j]
    OBVIOUS
  <2>2. /\ at \in 0..(n - 1) /\ k \in 0..(n - 1) /\ k = Moved(at, from, to)
        /\ l[at + 1] = j
    BY <1>1, <1>2, <1>4, <1>5, <2>1 DEF Numbers
  <2>3. CASE at = from
    <3>1. k = to /\ j = i
      BY <1>1, <2>1, <2>2, <2>3 DEF Moved, Numbers
    <3> QED BY <1>2, <1>9, <2>1, <3>1
  <2>4. CASE at # from
    <3>1. PICK x : x = IF at > from THEN at - 1 ELSE at
      OBVIOUS
    <3>2. /\ x \in Nat /\ x + 1 \in 1..(n - 1)
          /\ at > from => ~(x + 1 < from + 1) /\ (x + 1) + 1 = at + 1
          /\ ~(at > from) => x + 1 < from + 1 /\ x = at
      BY <1>2, <1>3, <2>2, <2>4, <3>1
    <3>3. rest[x + 1] = j
      BY <1>7, <2>2, <3>2
    <3>4. k = IF x >= to THEN x + 1 ELSE x
      BY <2>2, <2>4, <3>1 DEF Moved
    <3>5. CASE x >= to
      <4>1. k + 1 \in 1..n /\ ~(k + 1 < to + 1) /\ k + 1 # to + 1 /\ (k + 1) - 1 = x + 1
        BY <1>2, <3>2, <3>4, <3>5
      <4> QED BY <1>9, <2>1, <3>3, <4>1
    <3>6. CASE ~(x >= to)
      <4>1. k + 1 \in 1..n /\ k + 1 < to + 1 /\ k = x
        BY <1>2, <3>2, <3>4, <3>6
      <4> QED BY <1>9, <2>1, <3>3, <4>1
    <3> QED BY <3>5, <3>6
  <2> QED BY <2>3, <2>4
<1> QED BY <1>1, <1>4, <1>6, <1>8, <1>9, <1>10 DEF Lined

\* The order of the positions is all that a ranking depends on.
LEMMA RankingOrder ==
    ASSUME NEW S, NEW rank \in Rankings(S), S \in SUBSET Image, IsFiniteSet(S),
           \A i \in S : position[i] \in Nat,
           \A i, j \in S : position[i] = position[j] => i = j
    PROVE  /\ Numbers(rank, S)
           /\ \A i \in S : rank[i] = Cardinality({j \in S : position[j] < position[i]})
<1>1. Numbers(rank, S)
  BY RankingType DEF Numbers
<1>2. ASSUME NEW i \in S
      PROVE  rank[i] = Cardinality({j \in S : position[j] < position[i]})
  <2>1. ASSUME NEW j \in S
        PROVE  rank[j] < rank[i] <=> position[j] < position[i]
    <3>1. /\ rank[i] \in Nat /\ rank[j] \in Nat
          /\ position[i] \in Nat /\ position[j] \in Nat
      BY <1>1, FS_CardinalityType DEF Numbers
    <3>2. /\ position[j] < position[i] => rank[j] < rank[i]
          /\ position[i] < position[j] => rank[i] < rank[j]
      BY DEF Rankings
    <3>3. position[i] = position[j] => rank[i] = rank[j]
      OBVIOUS
    <3> QED BY <3>1, <3>2, <3>3
  <2>2. PICK A, B : /\ A = {j \in S : rank[j] < rank[i]}
                    /\ B = {j \in S : position[j] < position[i]}
    OBVIOUS
  <2>3. A \subseteq B /\ B \subseteq A
    BY <2>1, <2>2
  <2>4. A = B
    BY <2>3, Zenon
  <2>5. Cardinality(A) = rank[i]
    BY <1>1, <2>2, NumberCounts
  <2> QED BY <2>2, <2>4, <2>5
<1> QED BY <1>1, <1>2

\* What a statement reads of a scope without a gap is its positions ...
LEMMA RankIsPosition ==
    ASSUME NEW S, Numbers(position, S), NEW rank \in Rankings(S), NEW i \in S
    PROVE  rank[i] = position[i]
<1>1. /\ S \in SUBSET Image /\ IsFiniteSet(S)
      /\ \A j, k \in S : position[j] = position[k] => j = k
  BY DEF Numbers
<1>2. \A j \in S : position[j] \in Nat
  BY FS_CardinalityType DEF Numbers
<1>3. rank[i] = Cardinality({j \in S : position[j] < position[i]})
  BY <1>1, <1>2, RankingOrder
<1> QED BY <1>3, NumberCounts

\* ... and without the image that goes, those above it move down.
LEMMA RankWithout ==
    ASSUME NEW S, Numbers(position, S), NEW i \in S, NEW rank \in Rankings(S \ {i})
    PROVE  /\ Numbers(rank, S \ {i})
           /\ \A j \in S \ {i} :
                 rank[j] = IF position[j] > position[i] THEN position[j] - 1 ELSE position[j]
<1>1. PICK T : T = S \ {i}
  OBVIOUS
<1>2. IsFiniteSet(T) /\ T \in SUBSET Image
  BY <1>1, FS_RemoveElement DEF Numbers
<1>3. /\ \A j \in S : position[j] \in Nat
      /\ \A j, k \in S : position[j] = position[k] => j = k
  BY FS_CardinalityType DEF Numbers
<1>4. /\ Numbers(rank, T)
      /\ \A j \in T : rank[j] = Cardinality({k \in T : position[k] < position[j]})
  BY <1>1, <1>2, <1>3, RankingOrder
<1>5. ASSUME NEW j \in T
      PROVE  rank[j] = IF position[j] > position[i] THEN position[j] - 1 ELSE position[j]
  <2>1. PICK B : B = {k \in S : position[k] < position[j]}
    OBVIOUS
  <2>2. Cardinality(B) = position[j] /\ position[j] \in Nat /\ position[i] \in Nat
    BY <1>1, <1>3, <2>1, NumberCounts
  <2>3. IsFiniteSet(B)
    <3>1. B \in SUBSET S
      BY <2>1
    <3> QED BY <3>1, FS_Subset DEF Numbers
  <2>4. CASE position[j] > position[i]
    <3>1. {k \in T : position[k] < position[j]} = B \ {i} /\ i \in B
      BY <1>1, <2>1, <2>2, <2>4
    <3>2. Cardinality(B \ {i}) = Cardinality(B) - 1
      BY <2>3, <3>1, FS_RemoveElement
    <3> QED BY <1>4, <2>2, <2>4, <3>1, <3>2
  <2>5. CASE ~(position[j] > position[i])
    <3>1. {k \in T : position[k] < position[j]} = B
      BY <1>1, <2>1, <2>2, <2>5
    <3> QED BY <1>4, <2>2, <2>5, <3>1
  <2> QED BY <2>4, <2>5
<1> QED BY <1>1, <1>4, <1>5

LEMMA RemoveLines ==
    ASSUME NEW S, Numbers(position, S), NEW l, Lined(l, position, S), NEW i \in S,
           NEW rank \in Rankings(S \ {i}), NEW new, \A j \in S \ {i} : new[j] = rank[j]
    PROVE  /\ Numbers(new, S \ {i})
           /\ Lined(Lists!RemoveAt(l, position[i] + 1), new, S \ {i})
<1>1. PICK n, at, T : n = Cardinality(S) /\ at = position[i] /\ T = S \ {i}
  OBVIOUS
<1>2. /\ n \in Nat /\ at \in 0..(n - 1) /\ Cardinality(T) = n - 1
      /\ \A j \in S : position[j] \in 0..(n - 1)
  BY <1>1, FS_CardinalityType, FS_RemoveElement DEF Numbers
<1>3. /\ Numbers(rank, T)
      /\ \A j \in T : rank[j] = IF position[j] > at THEN position[j] - 1 ELSE position[j]
  BY <1>1, RankWithout
<1>4. Numbers(new, T)
  BY <1>1, <1>3 DEF Numbers
<1>5. l \in Seq(Image) /\ Len(l) = n /\ \A j \in S : l[position[j] + 1] = j
  BY <1>1 DEF Lined
<1>6. PICK m : m = Lists!RemoveAt(l, at + 1)
  OBVIOUS
<1>7. /\ m \in Seq(Image) /\ Len(m) = n - 1
      /\ \A k \in 1..(n - 1) : m[k] = IF k < at + 1 THEN l[k] ELSE l[k + 1]
  <2>1. at + 1 \in 1..Len(l)
    BY <1>2, <1>5
  <2> QED BY <1>5, <1>6, <2>1, RemoveAtIndices
<1>8. ASSUME NEW j \in T
      PROVE  new[j] + 1 \in 1..(n - 1) /\ m[new[j] + 1] = j
  <2>1. PICK p, k : p = position[j] /\ k = new[j]
    OBVIOUS
  <2>2. /\ p \in 0..(n - 1) /\ p # at /\ l[p + 1] = j
        /\ k = IF p > at THEN p - 1 ELSE p
    BY <1>1, <1>2, <1>3, <1>5, <2>1 DEF Numbers
  <2>3. k + 1 \in 1..(n - 1) /\ k \in Nat
    BY <1>2, <2>2
  <2>4. CASE p > at
    <3>1. ~(k + 1 < at + 1) /\ (k + 1) + 1 = p + 1
      BY <1>2, <2>2, <2>4
    <3> QED BY <1>7, <2>1, <2>2, <2>3, <3>1
  <2>5. CASE ~(p > at)
    <3>1. k + 1 < at + 1 /\ k + 1 = p + 1
      BY <1>2, <2>2, <2>5
    <3> QED BY <1>7, <2>1, <2>2, <2>3, <3>1
  <2> QED BY <2>4, <2>5
<1> QED BY <1>1, <1>2, <1>4, <1>6, <1>7, <1>8 DEF Lined

-----------------------------------------------------------------------------
(* The lists of a state, and when a step is a step of ImageLists.          *)

LEMMA ListsOfState ==
    ASSUME IInv, NEW s \in Scope
    PROVE  /\ Numbers(position, ImagesOf(s))
           /\ Lined(ListOf(s), position, ImagesOf(s))
<1>1. Dense(s) /\ position \in [Image -> Nat]
  BY DenseScopes DEF IInv, TypeOK, Tables
<1>2. PICK S : S = ImagesOf(s)
  OBVIOUS
<1>3. /\ IsFiniteSet(S) /\ S \in SUBSET Image /\ Cardinality(S) \in Nat
      /\ \A i \in S : position[i] \in Nat /\ position[i] < Cardinality(S)
      /\ \A i, j \in S : position[i] = position[j] => i = j
  BY <1>1, <1>2, FiniteScope DEF Dense, CountScope, ImagesOf
<1>4. Numbers(position, S)
  BY <1>3 DEF Numbers
<1>5. ListOf(s) = InOrder(position, S)
  BY <1>2 DEF ListOf, InOrder, CountScope
<1> QED BY <1>2, <1>4, <1>5, ListIsLined

LEMMA NextList ==
    ASSUME NEW s, NEW S, S = ImagesOf(s)', Numbers(position', S),
           NEW l, Lined(l, position', S)
    PROVE  ListOf(s)' = l
<1>1. ListOf(s)' = InOrder(position', S)
  BY DEF ListOf, InOrder, CountScope
<1> QED BY <1>1, LinedIsList

LEMMA SameList ==
    ASSUME IInv, NEW s \in Scope, ImagesOf(s)' = ImagesOf(s),
           \A i \in ImagesOf(s) : position'[i] = position[i]
    PROVE  ListOf(s)' = ListOf(s)
<1>1. Numbers(position', ImagesOf(s)) /\ Lined(ListOf(s), position', ImagesOf(s))
  BY ListsOfState DEF Numbers, Lined
<1> QED BY <1>1, NextList

\* The images of a list are those of its scope.
LEMMA ListMembers ==
    ASSUME IInv, NEW s \in Scope
    PROVE  /\ ListOf(s) \in Seq(Image) /\ Len(ListOf(s)) = CountScope(s)
           /\ \A n \in 1..CountScope(s) : ListOf(s)[n] \in ImagesOf(s)
<1>1. /\ Numbers(position, ImagesOf(s)) /\ Lined(ListOf(s), position, ImagesOf(s))
      /\ CountScope(s) = Cardinality(ImagesOf(s)) /\ CountScope(s) \in Nat
  BY ListsOfState, FiniteScope DEF CountScope
<1>2. ASSUME NEW n \in 1..CountScope(s)
      PROVE  ListOf(s)[n] \in ImagesOf(s)
  <2>1. n - 1 \in 0..(Cardinality(ImagesOf(s)) - 1) /\ (n - 1) + 1 = n
    BY <1>1
  <2>2. PICK i \in ImagesOf(s) : position[i] = n - 1
    BY <1>1, <2>1, NumberingIsOnto
  <2> QED BY <1>1, <2>1, <2>2 DEF Lined
<1> QED BY <1>1, <1>2 DEF Lined

LEMMA IsAdd ==
    ASSUME NEW s \in Scope, NEW i \in Image, Live(s), Len(ListOf(s)) < Limit(s),
           \A t \in Scope : \A n \in 1..Len(ListOf(t)) : ListOf(t)[n] # i,
           ListOf(s)' = Append(ListOf(s), i),
           \A t \in Scope \ {s} : ListOf(t)' = ListOf(t),
           \A t \in Scope : Live(t)' <=> Live(t)
    PROVE  Lists!Next
<1>1. Lists!Add(s, i)
  BY DEF Lists!Add, Lists!Contains
<1> QED BY <1>1 DEF Lists!Next

LEMMA IsMove ==
    ASSUME NEW s \in Scope, NEW from \in DOMAIN ListOf(s), NEW to \in DOMAIN ListOf(s),
           ListOf(s)' = Lists!InsertAt(Lists!RemoveAt(ListOf(s), from), to, ListOf(s)[from]),
           \A t \in Scope \ {s} : ListOf(t)' = ListOf(t),
           \A t \in Scope : Live(t)' <=> Live(t)
    PROVE  Lists!Next
<1>1. Lists!Move(s, from, to)
  BY DEF Lists!Move
<1> QED BY <1>1 DEF Lists!Next

LEMMA IsTake ==
    ASSUME NEW s \in Scope, NEW at \in DOMAIN ListOf(s),
           ListOf(s)' = Lists!RemoveAt(ListOf(s), at),
           \A t \in Scope \ {s} : ListOf(t)' = ListOf(t),
           \A t \in Scope : Live(t)' <=> Live(t)
    PROVE  Lists!Next
<1>1. Lists!Take(s, at)
  BY DEF Lists!Take
<1> QED BY <1>1 DEF Lists!Next

LEMMA IsClose ==
    ASSUME NEW S, S = Scope \/ \E s \in Scope : S = {s},
           \A t \in S : ListOf(t)' = <<>> /\ ~Live(t)',
           \A t \in Scope \ S : ListOf(t)' = ListOf(t) /\ (Live(t)' <=> Live(t))
    PROVE  Lists!Next
<1>1. Lists!Close(S)
  BY DEF Lists!Close
<1> QED BY <1>1 DEF Lists!Next

\* A step that leaves the rows alone leaves the lists alone.
LEMMA IsQuiet ==
    ASSUME UNCHANGED rows
    PROVE  UNCHANGED Lists!vars
<1>1. \A s : ListOf(s)' = ListOf(s) /\ (Live(s)' <=> Live(s))
  BY DEF rows, ListOf, CountScope, ImagesOf, Live
<1> QED BY <1>1 DEF Lists!vars

-----------------------------------------------------------------------------
(* The commits.                                                            *)

LEMMA InsertAdds ==
    ASSUME IInv, NEW r \in Request, Insert(r)
    PROVE  Lists!Next \/ UNCHANGED Lists!vars
<1>1. PICK i, s : i = tx[r].image /\ s = tx[r].scope
  OBVIOUS
<1>2. tx[r].pc = "insert" /\ WellFormed(tx[r]) /\ Knows(tx[r])
  BY InState DEF Insert, At
<1>3. /\ i \in Image /\ s \in Scope /\ ~HasRow(i) /\ Live(s)
      /\ tx[r].position = CountScope(s) /\ CountScope(s) < Limit(s)
  BY <1>1, <1>2 DEF WellFormed, Uploading, Knows
<1>4. CASE UNCHANGED rows
  BY <1>4, IsQuiet
<1>5. CASE /\ scope' = [scope EXCEPT ![i] = s]
           /\ position' = [position EXCEPT ![i] = CountScope(s)]
           /\ UNCHANGED <<deleted, retired>>
  <2>1. PICK S, l : S = ImagesOf(s) /\ l = ListOf(s)
    OBVIOUS
  <2>2. scope \in [Image -> Scope \cup {None}] /\ position \in [Image -> Nat] /\ None \notin Scope
    BY ProductImagesAssumption DEF IInv, TypeOK
  <2>3. i \notin S /\ ImagesOf(s)' = S \cup {i}
    BY <1>3, <1>5, <2>1, <2>2 DEF ImagesOf, HasRow
  <2>4. Numbers(position, S) /\ Lined(l, position, S) /\ CountScope(s) = Cardinality(S)
    BY <1>3, <2>1, ListsOfState DEF CountScope
  <2>5. position'[i] = Cardinality(S) /\ \A j \in S : position'[j] = position[j]
    BY <1>3, <1>5, <2>1, <2>2, <2>3, <2>4 DEF ImagesOf
  <2>6. Numbers(position', S \cup {i}) /\ Lined(Append(l, i), position', S \cup {i})
    BY <1>3, <2>3, <2>4, <2>5, AppendLines
  <2>7. ListOf(s)' = Append(ListOf(s), i)
    BY <2>1, <2>3, <2>6, NextList
  <2>8. ASSUME NEW t \in Scope \ {s}
        PROVE  ListOf(t)' = ListOf(t)
    <3>1. ImagesOf(t)' = ImagesOf(t) /\ \A j \in ImagesOf(t) : position'[j] = position[j]
      BY <1>3, <1>5, <2>2 DEF ImagesOf, HasRow
    <3> QED BY <3>1, SameList
  <2>9. ASSUME NEW t \in Scope, NEW n \in 1..Len(ListOf(t))
        PROVE  ListOf(t)[n] # i
    BY <1>3, <2>2, ListMembers DEF ImagesOf, HasRow
  <2>10. Len(ListOf(s)) < Limit(s) /\ \A t \in Scope : Live(t)' <=> Live(t)
    BY <1>3, <1>5, ListMembers DEF Live
  <2> QED BY <1>3, <2>7, <2>8, <2>9, <2>10, IsAdd
<1> QED BY <1>1, <1>3, <1>4, <1>5 DEF Insert

LEMMA MoveMoves ==
    ASSUME IInv, NEW r \in Request, Move(r)
    PROVE  Lists!Next \/ UNCHANGED Lists!vars
<1>1. PICK i, s, to : i = tx[r].image /\ s = scope[i] /\ to = tx[r].position
  OBVIOUS
<1>2. PICK S, l : S = ImagesOf(s) /\ l = ListOf(s)
  OBVIOUS
<1>3. i \in Image /\ to \in Nat
  BY <1>1, InState DEF Move, At, WellFormed, Transactions
<1>4. CASE Refuse(r)
  BY <1>4, IsQuiet DEF Refuse
<1>5. ASSUME HasRow(i), ~(to >= Cardinality(S)), NEW rank \in Rankings(S),
             position' = [j \in Image |-> IF j \in S THEN Moved(rank[j], rank[i], to)
                                         ELSE position[j]],
             UNCHANGED <<deleted, retired, scope>>
      PROVE  Lists!Next
  <2>1. /\ scope \in [Image -> Scope \cup {None}] /\ s \in Scope
        /\ i \in S /\ S \in SUBSET Image
    BY <1>1, <1>2, <1>3, <1>5 DEF IInv, TypeOK, HasRow, ImagesOf
  <2>2. Numbers(position, S) /\ Lined(l, position, S)
    BY <1>2, <2>1, ListsOfState
  <2>3. \A j \in S : position'[j] = Moved(position[j], position[i], to)
    <3>1. \A j \in S : rank[j] = position[j]
      BY <1>5, <2>2, RankIsPosition
    <3>2. \A j \in S : position'[j] = Moved(rank[j], rank[i], to)
      BY <1>5, <2>1
    <3> QED BY <2>1, <3>1, <3>2
  <2>4. PICK from : from = position[i] + 1
    OBVIOUS
  <2>5. /\ Cardinality(S) \in Nat /\ to \in 0..(Cardinality(S) - 1)
        /\ Len(l) = Cardinality(S) /\ l \in Seq(Image)
        /\ from \in 1..Len(l) /\ to + 1 \in 1..Len(l) /\ l[from] = i
    <3>1. Cardinality(S) \in Nat
      BY <2>2, FS_CardinalityType DEF Numbers
    <3>2. to \in 0..(Cardinality(S) - 1) /\ to + 1 \in 1..Cardinality(S)
      BY <1>3, <1>5, <3>1
    <3>3. /\ Len(l) = Cardinality(S) /\ l \in Seq(Image)
          /\ from \in 1..Len(l) /\ l[from] = i
      BY <2>1, <2>2, <2>4 DEF Lined
    <3> QED BY <3>1, <3>2, <3>3
  <2>6. PICK m : m = Lists!InsertAt(Lists!RemoveAt(l, from), to + 1, l[from])
    OBVIOUS
  <2>7. Numbers(position', S) /\ Lined(m, position', S)
    BY <2>1, <2>2, <2>3, <2>4, <2>5, <2>6, MoveLines
  <2>8. ImagesOf(s)' = S
    BY <1>2, <1>5 DEF ImagesOf
  <2>9. ListOf(s)' = m
    BY <2>7, <2>8, NextList
  <2>10. ASSUME NEW t \in Scope \ {s}
         PROVE  ListOf(t)' = ListOf(t)
    <3>1. ImagesOf(t)' = ImagesOf(t) /\ \A j \in ImagesOf(t) : position'[j] = position[j]
      BY <1>2, <1>5 DEF ImagesOf
    <3> QED BY <3>1, SameList
  <2>11. from \in DOMAIN l /\ to + 1 \in DOMAIN l
    BY <2>5
  <2>12. \A t \in Scope : Live(t)' <=> Live(t)
    BY <1>5 DEF Live
  <2> QED BY <1>2, <2>1, <2>6, <2>9, <2>10, <2>11, <2>12, IsMove
<1> QED BY <1>1, <1>2, <1>4, <1>5 DEF Move

LEMMA RemoveTakes ==
    ASSUME IInv, NEW r \in Request, Remove(r)
    PROVE  Lists!Next \/ UNCHANGED Lists!vars
<1>1. PICK i, s : i = tx[r].image /\ s = scope[i]
  OBVIOUS
<1>2. PICK S, l : S = ImagesOf(s) /\ l = ListOf(s)
  OBVIOUS
<1>3. i \in Image
  BY <1>1, InState DEF Remove, At, WellFormed
<1>4. CASE Refuse(r)
  BY <1>4, IsQuiet DEF Refuse
<1>5. ASSUME HasRow(i), scope' = [scope EXCEPT ![i] = None],
             NEW rank \in Rankings(S \ {i}),
             position' = [j \in Image |-> IF j \in S \ {i} THEN rank[j]
                                         ELSE IF j = i THEN 0 ELSE position[j]],
             UNCHANGED <<deleted, retired>>
      PROVE  Lists!Next
  <2>1. /\ scope \in [Image -> Scope \cup {None}] /\ s \in Scope /\ None \notin Scope
        /\ i \in S /\ S \in SUBSET Image
    BY <1>1, <1>2, <1>3, <1>5, ProductImagesAssumption DEF IInv, TypeOK, HasRow, ImagesOf
  <2>2. Numbers(position, S) /\ Lined(l, position, S)
    BY <1>2, <2>1, ListsOfState
  <2>3. \A j \in S \ {i} : position'[j] = rank[j]
    BY <1>5, <2>1
  <2>4. PICK at, m : at = position[i] + 1 /\ m = Lists!RemoveAt(l, at)
    OBVIOUS
  <2>5. Numbers(position', S \ {i}) /\ Lined(m, position', S \ {i})
    BY <1>5, <2>1, <2>2, <2>3, <2>4, RemoveLines
  <2>6. ImagesOf(s)' = S \ {i}
    BY <1>2, <1>5, <2>1 DEF ImagesOf
  <2>7. ListOf(s)' = m
    BY <2>5, <2>6, NextList
  <2>8. ASSUME NEW t \in Scope \ {s}
        PROVE  ListOf(t)' = ListOf(t)
    <3>1. ImagesOf(t)' = ImagesOf(t) /\ \A j \in ImagesOf(t) : position'[j] = position[j]
      BY <1>1, <1>2, <1>5, <2>1 DEF ImagesOf
    <3> QED BY <3>1, SameList
  <2>9. at \in DOMAIN l
    BY <2>1, <2>2, <2>4, LenProperties DEF Lined
  <2>10. \A t \in Scope : Live(t)' <=> Live(t)
    BY <1>5 DEF Live
  <2> QED BY <1>2, <2>1, <2>4, <2>7, <2>8, <2>9, <2>10, IsTake
<1> QED BY <1>1, <1>2, <1>4, <1>5 DEF Remove

\* A scope without an image has the empty list.
LEMMA EmptyList ==
    ASSUME NEW s, ImagesOf(s)' = {}
    PROVE  ListOf(s)' = <<>>
<1>1. CountScope(s)' = 0
  BY FS_EmptySet DEF CountScope
<1> QED BY <1>1 DEF ListOf

LEMMA RemoveVariantCloses ==
    ASSUME IInv, NEW r \in Request, RemoveVariant(r)
    PROVE  Lists!Next \/ UNCHANGED Lists!vars
<1>1. PICK v : v = tx[r].scope
  OBVIOUS
<1>2. v \in Variant /\ v \in Scope /\ None \notin Scope
  BY <1>1, InState, ProductImagesAssumption DEF RemoveVariant, At, WellFormed, Scope
<1>3. CASE Refuse(r)
  BY <1>3, IsQuiet DEF Refuse
<1>4. CASE retired' = retired \cup {v} /\ DeleteRows(ImagesOf(v)) /\ UNCHANGED deleted
  <2>1. scope' = [i \in Image |-> IF i \in ImagesOf(v) THEN None ELSE scope[i]]
    BY <1>4 DEF DeleteRows
  <2>2. ImagesOf(v)' = {}
    BY <1>2, <2>1 DEF ImagesOf
  <2>3. ListOf(v)' = <<>> /\ ~Live(v)'
    BY <1>4, <2>2, EmptyList DEF Live
  <2>4. ASSUME NEW t \in Scope \ {v}
        PROVE  ListOf(t)' = ListOf(t) /\ (Live(t)' <=> Live(t))
    <3>1. ImagesOf(t)' = ImagesOf(t) /\ \A j \in ImagesOf(t) : position'[j] = position[j]
      BY <1>2, <1>4, <2>1 DEF DeleteRows, ImagesOf
    <3> QED BY <1>4, <3>1, SameList DEF Live
  <2>5. PICK S : S = {v}
    OBVIOUS
  <2>6. /\ \E s \in Scope : S = {s}
        /\ \A t \in S : ListOf(t)' = <<>> /\ ~Live(t)'
        /\ \A t \in Scope \ S : ListOf(t)' = ListOf(t) /\ (Live(t)' <=> Live(t))
    <3>1. \A t \in S : t = v
      BY <2>5
    <3>2. \A t \in Scope \ S : t \in Scope \ {v}
      BY <2>5
    <3> QED BY <1>2, <2>3, <2>4, <2>5, <3>1, <3>2
  <2> QED BY <2>6, IsClose
<1> QED BY <1>1, <1>3, <1>4 DEF RemoveVariant

LEMMA RemoveProductCloses ==
    ASSUME IInv, NEW r \in Request, RemoveProduct(r)
    PROVE  Lists!Next
<1>1. deleted' = TRUE /\ scope' = [i \in Image |-> IF HasRow(i) THEN None ELSE scope[i]]
  BY DEF RemoveProduct, DeleteRows
<1>2. None \notin Scope
  BY ProductImagesAssumption
<1>3. ASSUME NEW t \in Scope
      PROVE  ListOf(t)' = <<>> /\ ~Live(t)'
  <2>1. ImagesOf(t)' = {}
    BY <1>1, <1>2 DEF ImagesOf, HasRow
  <2> QED BY <1>1, <2>1, EmptyList DEF Live
<1> QED BY <1>3, IsClose

-----------------------------------------------------------------------------
(* The theorem.                                                            *)

LEMMA InitLists == Init => Lists!Init
<1> SUFFICES ASSUME Init PROVE Lists!Init
  OBVIOUS
<1>1. ASSUME NEW s \in Scope
      PROVE  ListOf(s) = <<>> /\ Live(s)
  <2>1. ImagesOf(s) = {}
    BY ProductImagesAssumption DEF Init, ImagesOf
  <2>2. CountScope(s) = 0
    BY <2>1, FS_EmptySet DEF CountScope
  <2> QED BY <2>2 DEF Init, ListOf, Live
<1> QED BY <1>1 DEF Lists!Init

LEMMA StepLists == IInv /\ [Next]_vars => [Lists!Next]_(Lists!vars)
<1> SUFFICES ASSUME IInv, [Next]_vars PROVE Lists!Next \/ UNCHANGED Lists!vars
  OBVIOUS
<1>1. ASSUME NEW r \in Request, Begin(r) \/ Abort(r) \/ LockProduct(r) \/ CheckUpload(r)
                                \/ Store(r) \/ Undo(r) \/ CleanUp(r)
      PROVE  UNCHANGED rows
  BY <1>1 DEF Begin, Abort, LockProduct, CheckUpload, Store, Undo, CleanUp, Refuse
<1>2. ASSUME NEW r \in Request, Step(r)
      PROVE  Lists!Next \/ UNCHANGED Lists!vars
  BY <1>1, <1>2, IsQuiet, InsertAdds, MoveMoves, RemoveTakes, RemoveVariantCloses,
     RemoveProductCloses DEF Step
<1>3. CASE UNCHANGED vars
  BY <1>3, IsQuiet DEF vars, rows
<1> QED BY <1>1, <1>2, <1>3, IsQuiet DEF Next

\* Whatever uploads, moves and deletions do at once, fail at or die at, what is
\* committed is one operation after the other on the lists of ImageLists: an
\* image is added at the end of an open list below its limit, one is moved, one
\* is taken out, or a list is closed for good.
THEOREM CommitsAreListOperations == Spec => ImplementsImageLists
<1>1. Spec => Lists!Spec
  BY InitLists, StepLists, Inductive, PTL DEF Spec, Lists!Spec
<1> QED BY <1>1 DEF ImplementsImageLists
=============================================================================
