--------------------------- MODULE LinkedListProofs ---------------------------
(***************************************************************************)
(* The pointers of linkedlist.c always form one well linked list, and each *)
(* function changes that list as ListSequence allows, whatever the number  *)
(* of entries and their priorities.                                        *)
(***************************************************************************)
EXTENDS LinkedList, FiniteSetTheorems, SequenceTheorems, WellFoundedInduction, TLAPS

Pointers == [left  : [Cell \cup {Base} -> Cell \cup {Base, NULL}],
             right : [Cell \cup {Base} -> Cell \cup {NULL}]]

(* Some sequence of cells is represented.                                  *)
Linked(h) == h \in Pointers /\ h.left[Base] = NULL /\ \E s \in Seq(Cell) : Represents(h, s)

(* A set of numbers that is not empty has a least one.                     *)
LEMMA LeastNumber ==
  ASSUME NEW T, T \subseteq Nat, T # {}
  PROVE  \E k \in T : \A j \in T : k <= j
<1>1. IsWellFoundedOn(OpToRel(<, Nat), Nat)
  BY NatLessThanWellFounded
<1>2. \E k \in T : \A j \in T : ~ (<<j, k>> \in OpToRel(<, Nat))
  BY <1>1, WFMin
<1>3. \A j, k \in T : ~ (<<j, k>> \in OpToRel(<, Nat)) => k <= j
  BY DEF OpToRel
<1>4. QED BY <1>2, <1>3

(* Positions of a sequence of cells.                                       *)
LEMMA AtProperties ==
  ASSUME NEW s \in Seq(Cell)
  PROVE  /\ Len(s) \in Nat
         /\ At(s, 0) = Base
         /\ \A k \in 1..Len(s) : At(s, k) = s[k] /\ s[k] \in Cell
         /\ At(s, Len(s) + 1) = NULL
         /\ \A k \in Nat : At(s, k) # NULL => k <= Len(s)
BY ListAssumption DEF At

(* Two walks along the same right pointers are the same walk.              *)
LEMMA WalkUnique ==
  ASSUME NEW h, NEW s \in Seq(Cell), NEW t \in Seq(Cell), IsWalk(h, s), IsWalk(h, t)
  PROVE  s = t
<1> DEFINE D == {k \in 1..(Len(s) + 1) : At(s, k) # At(t, k)}
<1>1. Len(s) \in Nat /\ Len(t) \in Nat
  OBVIOUS
<1>2. D = {}
  <2>1. SUFFICES ASSUME D # {} PROVE FALSE
    OBVIOUS
  <2>2. PICK k \in D : \A j \in D : k <= j
    <3>1. D \subseteq Nat
      BY <1>1
    <3>2. QED
      <4> HIDE DEF D
      <4> QED BY <2>1, <3>1, LeastNumber
  <2>3. k - 1 \in 0..Len(s) /\ At(s, k - 1) = At(t, k - 1)
    BY <1>1, <2>2 DEF At
  <2>4. At(s, k - 1) # NULL
    BY <1>1, <2>3, AtProperties, ListAssumption DEF At
  <2>5. k - 1 \in 0..Len(t)
    BY <1>1, <2>3, <2>4, AtProperties
  <2>6. h.right[At(s, k - 1)] = At(s, k) /\ h.right[At(t, k - 1)] = At(t, k)
    BY <1>1, <2>3, <2>5 DEF IsWalk
  <2>7. QED BY <2>2, <2>3, <2>6
<1>3. At(t, Len(s) + 1) = NULL
  BY <1>1, <1>2, AtProperties
<1>4. Len(t) <= Len(s)
  BY <1>1, <1>3, ListAssumption DEF At
<1>5. \A k \in 1..Len(s) : At(t, k) = s[k]
  BY <1>1, <1>2 DEF At
<1>6. Len(s) <= Len(t)
  <2>1. SUFFICES ASSUME Len(t) < Len(s) PROVE FALSE
    BY <1>1
  <2>2. Len(s) \in 1..Len(s) /\ Len(s) # 0 /\ Len(s) \notin 1..Len(t)
    BY <1>1, <2>1
  <2>3. At(t, Len(s)) = NULL
    BY <2>2 DEF At
  <2>4. s[Len(s)] \in Cell /\ At(t, Len(s)) = s[Len(s)]
    BY <1>5, <2>2
  <2>5. QED BY <2>3, <2>4, ListAssumption
<1>7. \A k \in 1..Len(s) : s[k] = t[k]
  BY <1>1, <1>5, <1>6 DEF At
<1>8. QED BY <1>1, <1>4, <1>6, <1>7, SeqEqual

(* The loop over the list visits the sequence that is represented.         *)
LEMMA VisitedIsRepresented ==
  ASSUME NEW h, NEW s \in Seq(Cell), Represents(h, s)
  PROVE  Visited(h) = s
<1> DEFINE Walks == UNION {[1..n -> Cell] : n \in 0..Cardinality(Cell)}
<1>1. Len(s) \in Nat /\ s \in [1..Len(s) -> Cell] /\ IsFiniteSet(Cell)
  BY ListAssumption
<1>2. Cardinality(Cell) \in Nat
  BY <1>1, FS_CardinalityType
<1>3. IsFiniteSet(1..Len(s)) /\ Cardinality(1..Len(s)) = Len(s)
  BY <1>1, FS_Interval
<1>4. s \in Injection(1..Len(s), Cell)
  BY <1>1 DEF Represents, Injection, IsInjective
<1>5. Len(s) <= Cardinality(Cell)
  BY <1>1, <1>3, <1>4, FS_Injection
<1>6. s \in Walks
  BY <1>1, <1>2, <1>5
<1>7. \A t \in Walks : t \in Seq(Cell)
  OBVIOUS
<1>8. IsWalk(h, s)
  BY DEF Represents
<1>9. \A t \in Walks : IsWalk(h, t) => t = s
  BY <1>7, <1>8, WalkUnique
<1>10. QED BY <1>6, <1>8, <1>9 DEF Visited
-----------------------------------------------------------------------------
(* What insertion does to positions, ...                                   *)
LEMMA Inserted ==
  ASSUME NEW s \in Seq(Cell), NEW k \in 1..(Len(s) + 1), NEW new \in Cell
  PROVE  LET t == InsertAt(s, k, new) IN
         /\ t \in Seq(Cell)
         /\ Len(t) = Len(s) + 1
         /\ \A i \in 1..(Len(s) + 1) :
              t[i] = IF i < k THEN s[i] ELSE IF i = k THEN new ELSE s[i - 1]
<1> DEFINE front == SubSeq(s, 1, k - 1)
           back == SubSeq(s, k, Len(s))
<1>1. Len(s) \in Nat /\ \A i \in 1..Len(s) : s[i] \in Cell
  OBVIOUS
<1>2. /\ front \in Seq(Cell) /\ Len(front) = k - 1
      /\ \A i \in 1..(k - 1) : front[i] = s[i]
  BY <1>1, SubSeqProperties
<1>3. /\ back \in Seq(Cell) /\ Len(back) = Len(s) - k + 1
      /\ \A i \in 1..(Len(s) - k + 1) : back[i] = s[k + i - 1]
  BY <1>1, SubSeqProperties
<1>4. <<new>> \in Seq(Cell) /\ Len(<<new>>) = 1 /\ <<new>>[1] = new
  OBVIOUS
<1> HIDE DEF front, back
<1>5. /\ front \o <<new>> \in Seq(Cell) /\ Len(front \o <<new>>) = k
      /\ \A i \in 1..k : (front \o <<new>>)[i] = IF i < k THEN s[i] ELSE new
  BY <1>1, <1>2, <1>4, ConcatProperties
<1>6. InsertAt(s, k, new) = (front \o <<new>>) \o back
  BY DEF InsertAt, front, back
<1>7. \A i \in 1..(Len(s) + 1) :
        (front \o <<new>> \o back)[i] = IF i <= k THEN (front \o <<new>>)[i] ELSE back[i - k]
  BY <1>1, <1>3, <1>5, ConcatProperties
<1>8. \A i \in 1..(Len(s) + 1) : i > k => back[i - k] = s[i - 1]
  <2>1. SUFFICES ASSUME NEW i \in 1..(Len(s) + 1), i > k PROVE back[i - k] = s[i - 1]
    OBVIOUS
  <2>2. i - k \in 1..(Len(s) - k + 1) /\ k + (i - k) - 1 = i - 1
    BY <1>1, <2>1
  <2>3. QED BY <1>3, <2>2
<1>9. /\ front \o <<new>> \o back \in Seq(Cell)
      /\ Len(front \o <<new>> \o back) = Len(s) + 1
  BY <1>1, <1>3, <1>5, ConcatProperties
<1>10. QED BY <1>1, <1>5, <1>6, <1>7, <1>8, <1>9

LEMMA InsertedAt ==
  ASSUME NEW s \in Seq(Cell), NEW j \in 0..Len(s), NEW new \in Cell
  PROVE  \A i \in 0..(Len(s) + 2) :
           At(InsertAt(s, j + 1, new), i) =
             IF i <= j THEN At(s, i) ELSE IF i = j + 1 THEN new ELSE At(s, i - 1)
<1> DEFINE t == InsertAt(s, j + 1, new)
<1>1. Len(s) \in Nat /\ j + 1 \in 1..(Len(s) + 1)
  OBVIOUS
<1>2. /\ Len(t) = Len(s) + 1
      /\ \A i \in 1..(Len(s) + 1) :
           t[i] = IF i < j + 1 THEN s[i] ELSE IF i = j + 1 THEN new ELSE s[i - 1]
  BY <1>1, Inserted
<1> HIDE DEF t
<1>3. SUFFICES ASSUME NEW i \in 0..(Len(s) + 2)
               PROVE  At(t, i) = IF i <= j THEN At(s, i) ELSE IF i = j + 1 THEN new ELSE At(s, i - 1)
  BY DEF t
<1>4. CASE i \in 1..(Len(s) + 1)
  BY <1>1, <1>2, <1>4 DEF At
<1>5. CASE i = 0 \/ i = Len(s) + 2
  BY <1>1, <1>2, <1>5 DEF At
<1>6. QED BY <1>1, <1>4, <1>5

(* ... and what removal does.                                              *)
LEMMA Removed ==
  ASSUME NEW s \in Seq(Cell), NEW k \in 1..Len(s)
  PROVE  LET t == RemoveAt(s, k) IN
         /\ t \in Seq(Cell)
         /\ Len(t) = Len(s) - 1
         /\ \A i \in 1..(Len(s) - 1) : t[i] = IF i < k THEN s[i] ELSE s[i + 1]
<1> DEFINE front == SubSeq(s, 1, k - 1)
           back == SubSeq(s, k + 1, Len(s))
<1>1. Len(s) \in Nat /\ \A i \in 1..Len(s) : s[i] \in Cell
  OBVIOUS
<1>2. /\ front \in Seq(Cell) /\ Len(front) = k - 1
      /\ \A i \in 1..(k - 1) : front[i] = s[i]
  BY <1>1, SubSeqProperties
<1>3. /\ back \in Seq(Cell) /\ Len(back) = Len(s) - k
      /\ \A i \in 1..(Len(s) - k) : back[i] = s[k + i]
  BY <1>1, SubSeqProperties
<1> HIDE DEF front, back
<1>4. RemoveAt(s, k) = front \o back
  BY DEF RemoveAt, front, back
<1>5. \A i \in 1..(Len(s) - 1) : (front \o back)[i] = IF i < k THEN front[i] ELSE back[i - k + 1]
  BY <1>1, <1>2, <1>3, ConcatProperties
<1>6. \A i \in 1..(Len(s) - 1) : i >= k => back[i - k + 1] = s[i + 1]
  <2>1. SUFFICES ASSUME NEW i \in 1..(Len(s) - 1), i >= k PROVE back[i - k + 1] = s[i + 1]
    OBVIOUS
  <2>2. i - k + 1 \in 1..(Len(s) - k) /\ k + (i - k + 1) = i + 1
    BY <1>1, <2>1
  <2>3. QED BY <1>3, <2>2
<1>7. front \o back \in Seq(Cell) /\ Len(front \o back) = Len(front) + Len(back)
  BY <1>2, <1>3, ConcatProperties
<1>8. Len(front \o back) = Len(s) - 1
  BY <1>1, <1>2, <1>3, <1>7
<1>9. \A i \in 1..(Len(s) - 1) : (front \o back)[i] = IF i < k THEN s[i] ELSE s[i + 1]
  <2>1. SUFFICES ASSUME NEW i \in 1..(Len(s) - 1)
                 PROVE  (front \o back)[i] = IF i < k THEN s[i] ELSE s[i + 1]
    OBVIOUS
  <2>2. CASE i < k
    <3>1. i \in 1..(k - 1)
      BY <1>1, <2>2
    <3>2. QED BY <1>2, <1>5, <2>2, <3>1
  <2>3. CASE ~ (i < k)
    <3>1. i >= k
      BY <1>1, <2>3
    <3>2. QED BY <1>5, <1>6, <2>3, <3>1
  <2>4. QED BY <2>2, <2>3
<1>10. QED BY <1>4, <1>7, <1>8, <1>9

LEMMA RemovedAt ==
  ASSUME NEW s \in Seq(Cell), NEW k \in 1..Len(s)
  PROVE  \A i \in 0..Len(s) :
           At(RemoveAt(s, k), i) = IF i < k THEN At(s, i) ELSE At(s, i + 1)
<1> DEFINE t == RemoveAt(s, k)
<1>1. /\ Len(s) \in Nat /\ Len(t) = Len(s) - 1
      /\ \A i \in 1..(Len(s) - 1) : t[i] = IF i < k THEN s[i] ELSE s[i + 1]
  BY Removed
<1> HIDE DEF t
<1>2. SUFFICES ASSUME NEW i \in 0..Len(s)
               PROVE  At(t, i) = IF i < k THEN At(s, i) ELSE At(s, i + 1)
  BY DEF t
<1>3. CASE i = 0
  BY <1>1, <1>3 DEF At
<1>4. CASE i \in 1..(Len(s) - 1)
  <2>1. At(t, i) = t[i]
    BY <1>1, <1>4 DEF At
  <2>2. i < k => At(s, i) = s[i]
    BY <1>1, <1>4 DEF At
  <2>3. ~ (i < k) => At(s, i + 1) = s[i + 1]
    BY <1>1, <1>4 DEF At
  <2>4. QED BY <1>1, <1>4, <2>1, <2>2, <2>3
<1>5. CASE i = Len(s) /\ i # 0
  <2>1. ~ (i < k)
    BY <1>1, <1>5
  <2>2. At(t, i) = NULL /\ At(s, i + 1) = NULL
    BY <1>1, <1>5 DEF At
  <2>3. QED BY <2>1, <2>2
<1>6. QED BY <1>1, <1>3, <1>4, <1>5
-----------------------------------------------------------------------------
(* In a list, a position other than the base's and the end's holds a cell, *)
(* and no two positions hold the same one.                                 *)
LEMMA Positions ==
  ASSUME NEW h \in Pointers, NEW s \in Seq(Cell), Represents(h, s)
  PROVE  /\ \A k \in 0..Len(s) : At(s, k) \in Cell \cup {Base} /\ h.right[At(s, k)] = At(s, k + 1)
         /\ \A k \in 1..Len(s) : At(s, k) \in Cell /\ h.left[At(s, k)] = At(s, k - 1)
         /\ \A j, k \in 0..Len(s) : At(s, j) = At(s, k) => j = k
         /\ \A c \in Cell : (\A k \in 0..Len(s) : At(s, k) # c) => h.left[c] = NULL /\ h.right[c] = NULL
<1>1. Len(s) \in Nat /\ DOMAIN s = 1..Len(s) /\ \A k \in 1..Len(s) : s[k] \in Cell
  OBVIOUS
<1>2. \A k \in 0..Len(s) : At(s, k) \in Cell \cup {Base} /\ h.right[At(s, k)] = At(s, k + 1)
  <2>1. \A k \in 0..Len(s) : h.right[At(s, k)] = At(s, k + 1)
    BY DEF Represents, IsWalk
  <2>2. \A k \in 0..Len(s) : At(s, k) \in Cell \cup {Base}
    BY <1>1 DEF At
  <2>3. QED BY <2>1, <2>2
<1>3. \A k \in 1..Len(s) : At(s, k) \in Cell /\ h.left[At(s, k)] = At(s, k - 1)
  <2>1. \A k \in 1..Len(s) : At(s, k) = s[k]
    BY <1>1 DEF At
  <2>2. \A k \in 1..Len(s) : h.left[s[k]] = At(s, k - 1)
    BY DEF Represents
  <2>3. QED BY <1>1, <2>1, <2>2
<1>4. \A j, k \in 0..Len(s) : At(s, j) = At(s, k) => j = k
  <2>1. SUFFICES ASSUME NEW j \in 0..Len(s), NEW k \in 0..Len(s), j < k PROVE At(s, j) # At(s, k)
    BY <1>1
  <2>2. At(s, k) = s[k] /\ s[k] \in Cell /\ k \in DOMAIN s
    BY <1>1, <2>1 DEF At
  <2>3. CASE j = 0
    BY <2>2, <2>3, ListAssumption DEF At
  <2>4. CASE j > 0
    <3>1. At(s, j) = s[j] /\ j \in DOMAIN s
      BY <1>1, <2>1, <2>4 DEF At
    <3>2. QED BY <2>1, <2>2, <3>1 DEF Represents, IsInjective
  <2>5. QED BY <2>3, <2>4
<1>5. \A c \in Cell : (\A k \in 0..Len(s) : At(s, k) # c) => h.left[c] = NULL /\ h.right[c] = NULL
  <2>1. \A k \in 1..Len(s) : At(s, k) = s[k] /\ k \in 0..Len(s)
    BY <1>1 DEF At
  <2>2. QED BY <2>1 DEF Represents
<1>6. QED BY <1>2, <1>3, <1>4, <1>5

(* And conversely.                                                         *)
LEMMA RepresentsByPositions ==
  ASSUME NEW h, NEW s \in Seq(Cell),
         \A k \in 0..Len(s) : h.right[At(s, k)] = At(s, k + 1),
         \A k \in 1..Len(s) : h.left[At(s, k)] = At(s, k - 1),
         \A j, k \in 1..Len(s) : At(s, j) = At(s, k) => j = k,
         \A c \in Cell : (\A k \in 1..Len(s) : At(s, k) # c) => h.left[c] = NULL /\ h.right[c] = NULL
  PROVE  Represents(h, s)
<1>1. Len(s) \in Nat /\ DOMAIN s = 1..Len(s) /\ \A k \in 1..Len(s) : At(s, k) = s[k]
  BY DEF At
<1>2. QED BY <1>1 DEF Represents, IsWalk, IsInjective

(* The two branches of add_next, object by object.                         *)
LEMMA AddNextInside ==
  ASSUME NEW h \in Pointers, NEW a \in Cell \cup {Base}, NEW b \in Cell, NEW new \in Cell,
         a # b, a # new, b # new, h.right[a] = b
  PROVE  LET g == AddNext(h, a, new) IN
         /\ g \in Pointers
         /\ g.left[a] = h.left[a] /\ g.right[a] = new
         /\ g.left[new] = a /\ g.right[new] = b
         /\ g.left[b] = new /\ g.right[b] = h.right[b]
         /\ \A c \in Cell \cup {Base} : c # a /\ c # new /\ c # b =>
              g.left[c] = h.left[c] /\ g.right[c] = h.right[c]
BY ListAssumption DEF Pointers, AddNext

LEMMA AddNextLast ==
  ASSUME NEW h \in Pointers, NEW a \in Cell \cup {Base}, NEW new \in Cell,
         a # new, h.right[a] = NULL
  PROVE  LET g == AddNext(h, a, new) IN
         /\ g \in Pointers
         /\ g.left[a] = h.left[a] /\ g.right[a] = new
         /\ g.left[new] = a /\ g.right[new] = h.right[new]
         /\ \A c \in Cell \cup {Base} : c # a /\ c # new =>
              g.left[c] = h.left[c] /\ g.right[c] = h.right[c]
BY ListAssumption DEF Pointers, AddNext

(* add_next after position j inserts there.                                *)
LEMMA AddNextInserts ==
  ASSUME NEW h \in Pointers, h.left[Base] = NULL,
         NEW s \in Seq(Cell), Represents(h, s), NEW j \in 0..Len(s),
         NEW new \in Cell, \A k \in 1..Len(s) : s[k] # new
  PROVE  LET g == AddNext(h, At(s, j), new) IN
         /\ g \in Pointers /\ g.left[Base] = NULL
         /\ Represents(g, InsertAt(s, j + 1, new))
<1> DEFINE g == AddNext(h, At(s, j), new)
           t == InsertAt(s, j + 1, new)
           P(k) == At(s, k)
<1>1. Len(s) \in Nat /\ j + 1 \in 1..(Len(s) + 1)
  OBVIOUS
<1>2. \A k \in 0..Len(s) : P(k) # new
  BY <1>1, ListAssumption DEF At
<1>3. /\ \A k \in 0..Len(s) : P(k) \in Cell \cup {Base} /\ h.right[P(k)] = P(k + 1)
      /\ \A k \in 1..Len(s) : P(k) \in Cell /\ h.left[P(k)] = P(k - 1)
      /\ \A k, l \in 0..Len(s) : P(k) = P(l) => k = l
      /\ \A c \in Cell : (\A k \in 0..Len(s) : P(k) # c) => h.left[c] = NULL /\ h.right[c] = NULL
  BY Positions
<1>4. h.left[new] = NULL /\ h.right[new] = NULL
  BY <1>2, <1>3
<1>5. h.right[P(j)] = P(j + 1) /\ P(0) = Base /\ P(Len(s) + 1) = NULL
  BY <1>1, <1>3, AtProperties
<1>6. /\ g \in Pointers
      /\ g.left[P(j)] = h.left[P(j)] /\ g.right[P(j)] = new
      /\ g.left[new] = P(j) /\ g.right[new] = P(j + 1)
      /\ j < Len(s) => g.left[P(j + 1)] = new /\ g.right[P(j + 1)] = h.right[P(j + 1)]
      /\ \A c \in Cell \cup {Base} : c # P(j) /\ c # new /\ c # P(j + 1) =>
           g.left[c] = h.left[c] /\ g.right[c] = h.right[c]
  <2>1. CASE j = Len(s)
    <3>1. P(j) \in Cell \cup {Base} /\ P(j) # new /\ h.right[P(j)] = NULL /\ P(j + 1) = NULL
      BY <1>1, <1>2, <1>3, <1>5, <2>1
    <3>2. QED BY <1>1, <1>4, <2>1, <3>1, AddNextLast
  <2>2. CASE j < Len(s)
    <3>1. /\ P(j) \in Cell \cup {Base} /\ P(j + 1) \in Cell /\ P(j) # new
          /\ P(j + 1) # new /\ P(j) # P(j + 1) /\ h.right[P(j)] = P(j + 1)
      BY <1>1, <1>2, <1>3, <2>2
    <3>2. QED BY <3>1, AddNextInside
  <2>3. QED BY <1>1, <2>1, <2>2
<1>7. /\ t \in Seq(Cell) /\ Len(t) = Len(s) + 1
      /\ \A i \in 0..(Len(s) + 2) :
           At(t, i) = IF i <= j THEN P(i) ELSE IF i = j + 1 THEN new ELSE P(i - 1)
  BY <1>1, Inserted, InsertedAt
<1> HIDE DEF P, g, t
<1>8. \A k \in 0..Len(t) : g.right[At(t, k)] = At(t, k + 1)
  <2>1. SUFFICES ASSUME NEW k \in 0..Len(t) PROVE g.right[At(t, k)] = At(t, k + 1)
    OBVIOUS
  <2>2. CASE k < j
    <3>1. At(t, k) = P(k) /\ At(t, k + 1) = P(k + 1) /\ k \in 0..Len(s) /\ k + 1 \in 0..Len(s)
      BY <1>1, <1>7, <2>2
    <3>2. P(k) # P(j) /\ P(k) # new
      BY <1>1, <1>2, <1>3, <2>2, <3>1
    <3>3. g.right[P(k)] = h.right[P(k)]
      <4>1. j + 1 \in 0..Len(s) => P(k) # P(j + 1)
        BY <1>1, <1>3, <2>2, <3>1
      <4>2. j = Len(s) => P(k) # P(j + 1)
        BY <1>1, <1>3, <1>5, <3>1, ListAssumption
      <4>3. QED BY <1>1, <1>3, <1>6, <3>1, <3>2, <4>1, <4>2
    <3>4. QED BY <1>3, <3>1, <3>3
  <2>3. CASE k = j
    BY <1>1, <1>6, <1>7, <2>3
  <2>4. CASE k = j + 1
    BY <1>1, <1>6, <1>7, <2>4
  <2>5. CASE k > j + 1
    <3>1. At(t, k) = P(k - 1) /\ At(t, k + 1) = P(k) /\ k - 1 \in 1..Len(s) /\ j < Len(s)
      BY <1>1, <1>7, <2>5
    <3>2. P(k - 1) \in Cell /\ P(k - 1) # P(j) /\ P(k - 1) # new /\ h.right[P(k - 1)] = P(k)
      BY <1>1, <1>2, <1>3, <2>5, <3>1
    <3>3. g.right[P(k - 1)] = h.right[P(k - 1)]
      BY <1>6, <3>1, <3>2
    <3>4. QED BY <3>1, <3>2, <3>3
  <2>6. QED BY <1>1, <2>1, <2>2, <2>3, <2>4, <2>5
<1>9. \A k \in 1..Len(t) : g.left[At(t, k)] = At(t, k - 1)
  <2>1. SUFFICES ASSUME NEW k \in 1..Len(t) PROVE g.left[At(t, k)] = At(t, k - 1)
    OBVIOUS
  <2>2. CASE k <= j
    <3>1. At(t, k) = P(k) /\ At(t, k - 1) = P(k - 1) /\ k \in 1..Len(s)
      BY <1>1, <1>7, <2>2
    <3>2. P(k) \in Cell /\ P(k) # new /\ h.left[P(k)] = P(k - 1)
      BY <1>2, <1>3, <3>1
    <3>3. P(k) # P(j + 1)
      <4>1. j + 1 \in 0..Len(s) => P(k) # P(j + 1)
        BY <1>1, <1>3, <2>2, <3>1
      <4>2. j = Len(s) => P(k) # P(j + 1)
        BY <1>5, <3>2, ListAssumption
      <4>3. QED BY <1>1, <4>1, <4>2
    <3>4. QED BY <1>6, <3>1, <3>2, <3>3
  <2>3. CASE k = j + 1
    BY <1>1, <1>6, <1>7, <2>3
  <2>4. CASE k = j + 2
    <3>1. At(t, k) = P(j + 1) /\ At(t, k - 1) = new /\ j < Len(s)
      BY <1>1, <1>7, <2>4
    <3>2. QED BY <1>6, <3>1
  <2>5. CASE k > j + 2
    <3>1. At(t, k) = P(k - 1) /\ At(t, k - 1) = P(k - 2) /\ k - 1 \in 1..Len(s) /\ j + 1 \in 0..Len(s)
      BY <1>1, <1>7, <2>5
    <3>2. P(k - 1) \in Cell /\ P(k - 1) # new /\ h.left[P(k - 1)] = P(k - 2)
      BY <1>1, <1>2, <1>3, <3>1
    <3>3. P(k - 1) # P(j + 1) /\ P(k - 1) # P(j)
      BY <1>1, <1>3, <2>5, <3>1
    <3>4. QED BY <1>6, <3>1, <3>2, <3>3
  <2>6. QED BY <1>1, <2>1, <2>2, <2>3, <2>4, <2>5
<1>10. \A k, l \in 1..Len(t) : At(t, k) = At(t, l) => k = l
  <2>1. SUFFICES ASSUME NEW k \in 1..Len(t), NEW l \in 1..Len(t), k < l PROVE At(t, k) # At(t, l)
    BY <1>1, <1>7
  <2>2. CASE l <= j
    <3>1. At(t, k) = P(k) /\ At(t, l) = P(l) /\ k \in 0..Len(s) /\ l \in 0..Len(s)
      BY <1>1, <1>7, <2>1, <2>2
    <3>2. QED BY <1>3, <2>1, <3>1
  <2>3. CASE l = j + 1
    BY <1>1, <1>2, <1>7, <2>1, <2>3
  <2>4. CASE l > j + 1
    <3>1. At(t, l) = P(l - 1) /\ l - 1 \in 1..Len(s)
      BY <1>1, <1>7, <2>1, <2>4
    <3>2. At(t, k) = new \/ \E i \in 0..Len(s) : i < l - 1 /\ At(t, k) = P(i)
      <4>1. CASE k <= j
        BY <1>1, <1>7, <2>1, <2>4, <4>1
      <4>2. CASE k = j + 1
        BY <1>1, <1>7, <4>2
      <4>3. CASE k > j + 1
        <5>1. At(t, k) = P(k - 1) /\ k - 1 \in 0..Len(s) /\ k - 1 < l - 1
          BY <1>1, <1>7, <2>1, <4>3
        <5>2. QED BY <5>1
      <4>4. QED BY <1>1, <2>1, <4>1, <4>2, <4>3
    <3>3. QED BY <1>1, <1>2, <1>3, <3>1, <3>2
  <2>5. QED BY <1>1, <2>1, <2>2, <2>3, <2>4
<1>11. \A c \in Cell : (\A k \in 1..Len(t) : At(t, k) # c) => g.left[c] = NULL /\ g.right[c] = NULL
  <2>1. SUFFICES ASSUME NEW c \in Cell, \A k \in 1..Len(t) : At(t, k) # c PROVE g.left[c] = NULL /\ g.right[c] = NULL
    OBVIOUS
  <2>2. \A k \in 1..Len(s) : P(k) # c
    <3>1. SUFFICES ASSUME NEW k \in 1..Len(s) PROVE P(k) # c
      OBVIOUS
    <3>2. CASE k <= j
      BY <1>1, <1>7, <2>1, <3>2
    <3>3. CASE k > j
      <4>1. k + 1 \in 1..Len(t) /\ At(t, k + 1) = P(k)
        BY <1>1, <1>7, <3>3
      <4>2. QED BY <2>1, <4>1
    <3>4. QED BY <1>1, <3>2, <3>3
  <2>3. c # new
    <3>1. j + 1 \in 1..Len(t) /\ At(t, j + 1) = new
      BY <1>1, <1>7
    <3>2. QED BY <2>1, <3>1
  <2>4. c # P(0)
    BY <1>5, ListAssumption
  <2>5. \A k \in 0..Len(s) : P(k) # c
    BY <2>2, <2>4
  <2>6. c # P(j) /\ c # P(j + 1)
    BY <1>1, <1>5, <2>5, ListAssumption
  <2>7. QED BY <1>3, <1>6, <2>3, <2>5, <2>6
<1>12. Represents(g, t)
  BY <1>7, <1>8, <1>9, <1>10, <1>11, RepresentsByPositions
<1>13. g.left[Base] = NULL
  BY <1>1, <1>3, <1>5, <1>6, ListAssumption, SMTT(30)
<1>14. QED BY <1>6, <1>12, <1>13 DEF g, t, P

(* add_before position j inserts at that position: it writes what add_next *)
(* after position j - 1 writes.                                            *)
LEMMA AddBeforeIsAddNext ==
  ASSUME NEW h \in Pointers, NEW s \in Seq(Cell), Represents(h, s), NEW j \in 1..Len(s),
         NEW new \in Cell, \A k \in 1..Len(s) : s[k] # new
  PROVE  AddBefore(h, s[j], new) = AddNext(h, At(s, j - 1), new)
<1> DEFINE a == At(s, j - 1)
           b == s[j]
<1>1. b = At(s, j) /\ j - 1 \in 0..Len(s)
  BY DEF At
<1>2. /\ a \in Cell \cup {Base} /\ b \in Cell /\ a # b /\ b # new
      /\ h.right[a] = b /\ h.left[b] = a
  BY <1>1, Positions
<1>3. a # NULL /\ b # NULL /\ a # new
  BY <1>2, ListAssumption DEF At
<1> HIDE DEF a, b
<1>4. AddBefore(h, b, new) = [left  |-> [h.left EXCEPT ![new] = a, ![b] = new],
                              right |-> [h.right EXCEPT ![a] = new, ![new] = b]]
  BY <1>2, <1>3 DEF AddBefore
<1>5. AddNext(h, a, new) = [left  |-> [h.left EXCEPT ![new] = a, ![b] = new],
                            right |-> [h.right EXCEPT ![a] = new, ![new] = b]]
  BY <1>2, <1>3 DEF AddNext
<1>6. QED BY <1>4, <1>5 DEF a, b

(* The two branches of remove that a listed cell can take.                 *)
LEMMA UnlinkObjects ==
  ASSUME NEW h \in Pointers, NEW a \in Cell \cup {Base}, NEW c \in Cell,
         NEW b \in Cell \cup {NULL}, a # c, b # c, a # b,
         h.left[c] = a, h.right[c] = b
  PROVE  LET g == Unlink(h, c) IN
         /\ g \in Pointers
         /\ g.left[c] = NULL /\ g.right[c] = NULL
         /\ g.left[a] = h.left[a] /\ g.right[a] = b
         /\ b # NULL => g.left[b] = a /\ g.right[b] = h.right[b]
         /\ \A x \in Cell \cup {Base} : x # a /\ x # c /\ x # b =>
              g.left[x] = h.left[x] /\ g.right[x] = h.right[x]
<1>1. CASE b = NULL
  BY <1>1, ListAssumption DEF Pointers, Unlink
<1>2. CASE b # NULL
  BY <1>2, ListAssumption DEF Pointers, Unlink
<1>3. QED BY <1>1, <1>2

(* remove takes the cell out of its position.                              *)
LEMMA UnlinkRemoves ==
  ASSUME NEW h \in Pointers, h.left[Base] = NULL,
         NEW s \in Seq(Cell), Represents(h, s), NEW j \in 1..Len(s)
  PROVE  LET g == Unlink(h, s[j]) IN
         /\ g \in Pointers /\ g.left[Base] = NULL
         /\ Represents(g, RemoveAt(s, j))
<1> DEFINE g == Unlink(h, s[j])
           t == RemoveAt(s, j)
           P(k) == At(s, k)
<1>1. Len(s) \in Nat /\ j - 1 \in 0..Len(s) /\ P(j) = s[j] /\ P(0) = Base /\ P(Len(s) + 1) = NULL
  BY DEF At
<1>2. /\ \A k \in 0..Len(s) : P(k) \in Cell \cup {Base} /\ h.right[P(k)] = P(k + 1)
      /\ \A k \in 1..Len(s) : P(k) \in Cell /\ h.left[P(k)] = P(k - 1)
      /\ \A k, l \in 0..Len(s) : P(k) = P(l) => k = l
      /\ \A c \in Cell : (\A k \in 0..Len(s) : P(k) # c) => h.left[c] = NULL /\ h.right[c] = NULL
  BY Positions
<1>3. P(j + 1) \in Cell \cup {NULL} /\ P(j - 1) # P(j) /\ P(j + 1) # P(j) /\ P(j - 1) # P(j + 1)
  <2>1. CASE j < Len(s)
    BY <1>1, <1>2, <2>1
  <2>2. CASE j = Len(s)
    BY <1>1, <1>2, <2>2, ListAssumption
  <2>3. QED BY <1>1, <2>1, <2>2
<1>4. /\ g \in Pointers
      /\ g.left[P(j)] = NULL /\ g.right[P(j)] = NULL
      /\ g.left[P(j - 1)] = h.left[P(j - 1)] /\ g.right[P(j - 1)] = P(j + 1)
      /\ P(j + 1) # NULL => g.left[P(j + 1)] = P(j - 1) /\ g.right[P(j + 1)] = h.right[P(j + 1)]
      /\ \A x \in Cell \cup {Base} : x # P(j - 1) /\ x # P(j) /\ x # P(j + 1) =>
           g.left[x] = h.left[x] /\ g.right[x] = h.right[x]
  <2>1. P(j - 1) \in Cell \cup {Base} /\ P(j) \in Cell /\ h.left[P(j)] = P(j - 1) /\ h.right[P(j)] = P(j + 1)
    BY <1>1, <1>2
  <2>2. QED BY <1>1, <1>3, <2>1, UnlinkObjects
<1>5. /\ t \in Seq(Cell) /\ Len(t) = Len(s) - 1
      /\ \A i \in 0..Len(s) : At(t, i) = IF i < j THEN P(i) ELSE P(i + 1)
  BY Removed, RemovedAt
<1> HIDE DEF P, g, t
<1>6. \A k \in 0..Len(t) : g.right[At(t, k)] = At(t, k + 1)
  <2>1. SUFFICES ASSUME NEW k \in 0..Len(t) PROVE g.right[At(t, k)] = At(t, k + 1)
    OBVIOUS
  <2>2. CASE k < j - 1
    <3>1. At(t, k) = P(k) /\ At(t, k + 1) = P(k + 1) /\ k \in 0..Len(s) /\ j \in 0..Len(s)
      BY <1>1, <1>5, <2>2
    <3>2. P(k) # P(j - 1) /\ P(k) # P(j) /\ P(k) \in Cell \cup {Base} /\ h.right[P(k)] = P(k + 1)
      BY <1>1, <1>2, <2>2, <3>1
    <3>3. P(k) # P(j + 1)
      <4>1. CASE j < Len(s)
        BY <1>1, <1>2, <2>2, <3>1, <4>1
      <4>2. CASE j = Len(s)
        BY <1>1, <3>2, <4>2, ListAssumption
      <4>3. QED BY <1>1, <4>1, <4>2
    <3>4. QED BY <1>4, <3>1, <3>2, <3>3
  <2>3. CASE k = j - 1
    <3>1. At(t, k) = P(j - 1) /\ At(t, k + 1) = P(j + 1)
      <4>1. k \in 0..Len(s) /\ k + 1 \in 0..Len(s) /\ k < j /\ k + 1 = j
        BY <1>1, <2>3
      <4>2. QED BY <1>1, <1>5, <2>3, <4>1
    <3>2. QED BY <1>4, <3>1
  <2>4. CASE k > j - 1
    <3>1. At(t, k) = P(k + 1) /\ At(t, k + 1) = P(k + 2) /\ k + 1 \in 0..Len(s) /\ j + 1 \in 0..Len(s)
      BY <1>1, <1>5, <2>4
    <3>2. P(k + 1) # P(j - 1) /\ P(k + 1) # P(j) /\ P(k + 1) \in Cell \cup {Base} /\ h.right[P(k + 1)] = P(k + 2)
      BY <1>1, <1>2, <2>4, <3>1
    <3>3. g.right[P(k + 1)] = h.right[P(k + 1)]
      <4>1. P(j + 1) # NULL
        BY <1>2, <3>1, ListAssumption
      <4>2. QED BY <1>4, <3>2, <4>1
    <3>4. QED BY <3>1, <3>2, <3>3
  <2>5. QED BY <1>1, <2>1, <2>2, <2>3, <2>4
<1>7. \A k \in 1..Len(t) : g.left[At(t, k)] = At(t, k - 1)
  <2>1. SUFFICES ASSUME NEW k \in 1..Len(t) PROVE g.left[At(t, k)] = At(t, k - 1)
    OBVIOUS
  <2>2. CASE k < j
    <3>1. At(t, k) = P(k) /\ At(t, k - 1) = P(k - 1) /\ k \in 1..Len(s)
      BY <1>1, <1>5, <2>2
    <3>2. P(k) # P(j) /\ P(k) \in Cell /\ h.left[P(k)] = P(k - 1)
      BY <1>1, <1>2, <2>2, <3>1
    <3>3. P(k) # P(j + 1)
      <4>1. CASE j < Len(s)
        BY <1>1, <1>2, <2>2, <3>1, <4>1
      <4>2. CASE j = Len(s)
        BY <1>1, <3>2, <4>2, ListAssumption
      <4>3. QED BY <1>1, <4>1, <4>2
    <3>4. QED BY <1>4, <3>1, <3>2, <3>3
  <2>3. CASE k = j
    <3>1. At(t, k) = P(j + 1) /\ At(t, k - 1) = P(j - 1) /\ j + 1 \in 0..Len(s)
      BY <1>1, <1>5, <2>3
    <3>2. P(j + 1) # NULL
      BY <1>2, <3>1, ListAssumption
    <3>3. QED BY <1>4, <3>1, <3>2
  <2>4. CASE k > j
    <3>1. At(t, k) = P(k + 1) /\ At(t, k - 1) = P(k) /\ k + 1 \in 1..Len(s) /\ j + 1 \in 0..Len(s)
      <4>1. /\ k \in 0..Len(s) /\ k - 1 \in 0..Len(s) /\ ~ (k < j) /\ ~ (k - 1 < j)
            /\ (k - 1) + 1 = k /\ k + 1 \in 1..Len(s) /\ j + 1 \in 0..Len(s)
        BY <1>1, <1>5, <2>4
      <4>2. At(t, k - 1) = P((k - 1) + 1)
        BY <1>5, <4>1
      <4>3. QED BY <1>5, <4>1, <4>2
    <3>2. P(k + 1) # P(j - 1) /\ P(k + 1) # P(j) /\ P(k + 1) # P(j + 1)
      BY <1>1, <1>2, <2>4, <3>1
    <3>3. P(k + 1) \in Cell /\ h.left[P(k + 1)] = P(k)
      BY <1>2, <3>1
    <3>4. QED BY <1>4, <3>1, <3>2, <3>3
  <2>5. QED BY <1>1, <2>1, <2>2, <2>3, <2>4
<1>8. \A k, l \in 1..Len(t) : At(t, k) = At(t, l) => k = l
  <2>1. SUFFICES ASSUME NEW k \in 1..Len(t), NEW l \in 1..Len(t), k < l PROVE At(t, k) # At(t, l)
    BY <1>1, <1>5
  <2>2. k \in 0..Len(s) /\ l \in 0..Len(s) /\ k + 1 \in 0..Len(s) /\ l + 1 \in 0..Len(s)
    BY <1>1, <1>5
  <2>3. QED BY <1>1, <1>2, <1>5, <2>1, <2>2
<1>9. \A c \in Cell : (\A k \in 1..Len(t) : At(t, k) # c) => g.left[c] = NULL /\ g.right[c] = NULL
  <2>1. SUFFICES ASSUME NEW c \in Cell, \A k \in 1..Len(t) : At(t, k) # c
                 PROVE  g.left[c] = NULL /\ g.right[c] = NULL
    OBVIOUS
  <2>2. CASE c = P(j)
    BY <1>4, <2>2
  <2>3. CASE c # P(j)
    <3>1. \A k \in 0..Len(s) : P(k) # c
      <4>1. SUFFICES ASSUME NEW k \in 0..Len(s) PROVE P(k) # c
        OBVIOUS
      <4>2. CASE k = 0
        BY <1>1, <4>2, ListAssumption
      <4>3. CASE 0 < k /\ k < j
        <5>1. k \in 1..Len(t) /\ At(t, k) = P(k)
          BY <1>1, <1>5, <4>3
        <5>2. QED BY <2>1, <5>1
      <4>4. CASE k > j
        <5>1. k - 1 \in 1..Len(t) /\ At(t, k - 1) = P(k)
          BY <1>1, <1>5, <4>4
        <5>2. QED BY <2>1, <5>1
      <4>5. QED BY <1>1, <2>3, <4>2, <4>3, <4>4
    <3>2. c # P(j - 1) /\ c # P(j + 1)
      <4>1. CASE j < Len(s)
        BY <1>1, <3>1, <4>1
      <4>2. CASE j = Len(s)
        BY <1>1, <3>1, <4>2, ListAssumption
      <4>3. QED BY <1>1, <4>1, <4>2
    <3>3. QED BY <1>2, <1>4, <2>3, <3>1, <3>2
  <2>4. QED BY <2>2, <2>3
<1>10. Represents(g, t)
  BY <1>5, <1>6, <1>7, <1>8, <1>9, RepresentsByPositions
<1>11. g.left[Base] = NULL
  <2>1. CASE j - 1 = 0
    BY <1>1, <1>4, <2>1
  <2>2. CASE j - 1 > 0
    <3>1. Base # P(j - 1) /\ Base # P(j)
      <4>1. j - 1 \in 1..Len(s) /\ j \in 1..Len(s)
        BY <1>1, <2>2
      <4>2. QED BY <1>2, <4>1, ListAssumption
    <3>2. Base # P(j + 1)
      BY <1>3, ListAssumption
    <3>3. QED BY <1>4, <3>1, <3>2
  <2>3. QED BY <1>1, <2>1, <2>2
<1>12. QED BY <1>4, <1>10, <1>11 DEF g, t

(* The loop of delete takes the first cell out until none is left.  It is  *)
(* a recursive function: one exists for every bound m, step by step, ...   *)
LEMMA LoopExists ==
  ASSUME NEW h, NEW s, NEW n \in Nat
  PROVE  \E f : f = [k \in 0..n |-> IF k = 0 THEN h ELSE Unlink(f[k - 1], s[k])]
<1> DEFINE E(m) == \E f : f = [k \in 0..m |-> IF k = 0 THEN h ELSE Unlink(f[k - 1], s[k])]
           T == {m \in Nat : ~ E(m)}
<1>1. E(0)
  <2>1. [k \in 0..0 |-> h] = [k \in 0..0 |-> IF k = 0 THEN h ELSE Unlink([l \in 0..0 |-> h][k - 1], s[k])]
    OBVIOUS
  <2>2. QED BY <2>1
<1>2. ASSUME NEW m \in Nat, E(m) PROVE E(m + 1)
  <2>1. PICK f : f = [k \in 0..m |-> IF k = 0 THEN h ELSE Unlink(f[k - 1], s[k])]
    BY <1>2
  <2> DEFINE g == [k \in 0..(m + 1) |-> IF k = m + 1 THEN Unlink(f[m], s[k]) ELSE f[k]]
  <2>2. g = [k \in 0..(m + 1) |-> IF k = 0 THEN h ELSE Unlink(g[k - 1], s[k])]
    <3>1. SUFFICES ASSUME NEW k \in 0..(m + 1)
                   PROVE  g[k] = IF k = 0 THEN h ELSE Unlink(g[k - 1], s[k])
      OBVIOUS
    <3>2. CASE k = m + 1
      BY <3>2
    <3>3. CASE k \in 0..m
      <4>1. g[k] = f[k] /\ (k # 0 => g[k - 1] = f[k - 1])
        BY <3>3
      <4>2. f[k] = IF k = 0 THEN h ELSE Unlink(f[k - 1], s[k])
        BY <2>1, <3>3
      <4> HIDE DEF g
      <4>3. QED BY <4>1, <4>2
    <3>4. QED BY <3>2, <3>3
  <2> HIDE DEF g
  <2>3. QED BY <2>2
<1>3. T = {}
  <2>1. SUFFICES ASSUME T # {} PROVE FALSE
    OBVIOUS
  <2>2. PICK m \in T : \A j \in T : m <= j
    <3>1. T \subseteq Nat
      OBVIOUS
    <3> HIDE DEF T
    <3>2. QED BY <2>1, <3>1, LeastNumber
  <2> HIDE DEF E
  <2>3. m # 0 /\ m - 1 \in Nat /\ ~ E(m)
    BY <1>1, <2>2
  <2>4. E(m - 1)
    BY <2>2, <2>3
  <2>5. (m - 1) + 1 = m
    BY <2>3
  <2>6. E((m - 1) + 1)
    BY <1>2, <2>3, <2>4
  <2>7. QED BY <2>3, <2>5, <2>6
<1>4. E(n)
  <2> HIDE DEF E
  <2>1. QED BY <1>3
<1>5. QED BY <1>4

(* What is left of s at position k begins with s[k], ...                   *)
LEMMA FirstRemoved ==
  ASSUME NEW s \in Seq(Cell), NEW k \in 1..Len(s)
  PROVE  \E r \in Seq(Cell) : /\ r = SubSeq(s, k, Len(s)) /\ 1 \in 1..Len(r) /\ r[1] = s[k]
                             /\ RemoveAt(r, 1) = SubSeq(s, k + 1, Len(s))
<1> DEFINE r == SubSeq(s, k, Len(s))
           q == SubSeq(s, k + 1, Len(s))
           n == Len(s)
<1>1. n \in Nat /\ \A i \in 1..n : s[i] \in Cell
  OBVIOUS
<1>2. r \in Seq(Cell) /\ Len(r) = n - k + 1 /\ \A i \in 1..(n - k + 1) : r[i] = s[k + i - 1]
  BY <1>1, SubSeqProperties
<1>3. q \in Seq(Cell) /\ Len(q) = n - k /\ \A i \in 1..(n - k) : q[i] = s[k + i]
  <2>1. /\ SubSeq(s, k + 1, n) \in Seq(Cell)
        /\ Len(SubSeq(s, k + 1, n)) = IF k + 1 <= n THEN n - (k + 1) + 1 ELSE 0
        /\ \A i \in 1..(n - (k + 1) + 1) : SubSeq(s, k + 1, n)[i] = s[(k + 1) + i - 1]
    BY <1>1, SubSeqProperties
  <2>2. \A i \in 1..(n - k) : (k + 1) + i - 1 = k + i
    BY <1>1
  <2>3. QED BY <1>1, <2>1, <2>2
<1> HIDE DEF r, q
<1>4. 1 \in 1..Len(r) /\ r[1] = s[k]
  <2>1. 1 \in 1..(n - k + 1) /\ k + 1 - 1 = k
    BY <1>1
  <2>2. QED BY <1>2, <2>1
<1>5. /\ RemoveAt(r, 1) \in Seq(Cell) /\ Len(RemoveAt(r, 1)) = Len(r) - 1
      /\ \A i \in 1..(Len(r) - 1) : RemoveAt(r, 1)[i] = IF i < 1 THEN r[i] ELSE r[i + 1]
  BY <1>2, <1>4, Removed
<1>6. \A i \in 1..(n - k) : RemoveAt(r, 1)[i] = q[i]
  <2>1. SUFFICES ASSUME NEW i \in 1..(n - k) PROVE RemoveAt(r, 1)[i] = q[i]
    OBVIOUS
  <2>2. i \in 1..(Len(r) - 1) /\ i + 1 \in 1..(n - k + 1) /\ k + (i + 1) - 1 = k + i /\ ~ (i < 1)
    BY <1>1, <1>2
  <2>3. QED BY <1>2, <1>3, <1>5, <2>2
<1>7. Len(RemoveAt(r, 1)) = Len(q) /\ Len(q) = n - k
  <2>1. Len(r) - 1 = n - k
    BY <1>1, <1>2
  <2>2. QED BY <1>3, <1>5, <2>1
<1>8. RemoveAt(r, 1) = q
  BY <1>3, <1>5, <1>6, <1>7, SeqEqual
<1>9. QED BY <1>2, <1>4, <1>8 DEF r, q

(* ... and after k rounds it has taken out the first k cells.              *)
LEMMA EmptiedIsEmpty ==
  ASSUME NEW h \in Pointers, h.left[Base] = NULL, NEW s \in Seq(Cell), Represents(h, s)
  PROVE  LET g == Emptied(h) IN
         g \in Pointers /\ g.left[Base] = NULL /\ Represents(g, <<>>)
<1> DEFINE n == Len(s)
           Body(f) == [k \in 0..n |-> IF k = 0 THEN h ELSE Unlink(f[k - 1], s[k])]
           Rest(k) == SubSeq(s, k + 1, n)
           after == CHOOSE f : f = Body(f)
           OK(k) == after[k] \in Pointers /\ after[k].left[Base] = NULL /\ Represents(after[k], Rest(k))
           T == {k \in 0..n : ~ OK(k)}
<1>1. n \in Nat /\ Visited(h) = s /\ \A k \in 1..n : s[k] \in Cell
  BY VisitedIsRepresented
<1>2. after = Body(after)
  BY <1>1, LoopExists
<1>3. Emptied(h) = after[n]
  BY <1>1, Zenon DEF Emptied
<1> HIDE DEF after
<1>4. after[0] = h /\ \A k \in 1..n : after[k] = Unlink(after[k - 1], s[k])
  BY <1>1, <1>2
<1>5. OK(0)
  <2>1. Rest(0) = s
    BY SubSeqFull
  <2>2. QED BY <1>4, <2>1
<1>6. ASSUME NEW k \in 1..n, OK(k - 1) PROVE OK(k)
  <2>1. (k - 1) + 1 = k /\ k - 1 \in 0..n
    BY <1>1
  <2>2. PICK r \in Seq(Cell) : r = Rest(k - 1) /\ 1 \in 1..Len(r) /\ r[1] = s[k] /\ RemoveAt(r, 1) = Rest(k)
    BY <2>1, FirstRemoved
  <2>3. /\ after[k - 1] \in Pointers /\ after[k - 1].left[Base] = NULL
        /\ Represents(after[k - 1], r) /\ after[k] = Unlink(after[k - 1], r[1])
    BY <1>4, <1>6, <2>2
  <2>4. /\ Unlink(after[k - 1], r[1]) \in Pointers
        /\ Unlink(after[k - 1], r[1]).left[Base] = NULL
        /\ Represents(Unlink(after[k - 1], r[1]), RemoveAt(r, 1))
    BY <2>2, <2>3, UnlinkRemoves
  <2>5. QED BY <2>2, <2>3, <2>4
<1>7. T = {}
  <2>1. SUFFICES ASSUME T # {} PROVE FALSE
    OBVIOUS
  <2>2. PICK k \in T : \A j \in T : k <= j
    <3>1. T \subseteq Nat
      BY <1>1
    <3> HIDE DEF T
    <3>2. QED BY <2>1, <3>1, LeastNumber
  <2> HIDE DEF OK
  <2>3. k \in 0..n /\ ~ OK(k) /\ k # 0
    BY <1>5, <2>2
  <2>4. k \in 1..n /\ k - 1 \in 0..n /\ k - 1 < k
    BY <1>1, <2>3
  <2>5. OK(k - 1)
    BY <1>1, <2>2, <2>4
  <2>6. QED BY <1>6, <2>3, <2>4, <2>5
<1>8. OK(n)
  <2> HIDE DEF OK
  <2>1. QED BY <1>1, <1>7
<1>9. Rest(n) = <<>>
  BY <1>1, SubSeqEmpty
<1>10. QED BY <1>3, <1>8, <1>9
-----------------------------------------------------------------------------
(* Where priority_insert puts a new cell: what comes before does not come  *)
(* after it in the order, and the other way round.                         *)
LEMMA PredecessorRange ==
  ASSUME NEW s \in Seq(Cell), NEW new \in Cell
  PROVE  /\ Predecessor(s, new) \in 0..Len(s)
         /\ Sorted(s) => /\ \A i \in 1..Predecessor(s, new) : ~ Before(new, s[i])
                         /\ \A i \in (Predecessor(s, new) + 1)..Len(s) : ~ Before(s[i], new)
<1> DEFINE later == {k \in 1..Len(s) : Before(new, s[k])}
           p == Predecessor(s, new)
<1>1. Len(s) \in Nat /\ \A k \in 1..Len(s) : s[k] \in Cell /\ Priority[s[k]] \in Int
  BY ListAssumption
<1>2. Priority[new] \in Int
  BY ListAssumption
<1>3. CASE Len(s) = 1
  <2>1. p = IF Before(s[1], new) THEN 1 ELSE 0
    BY <1>3 DEF Predecessor
  <2> HIDE DEF p
  <2>2. QED BY <1>1, <1>2, <1>3, <2>1 DEF Before, p
<1>4. CASE Len(s) # 1 /\ later # {}
  <2>1. PICK k \in later : \A j \in later : k <= j
    <3>1. later \subseteq Nat
      OBVIOUS
    <3> HIDE DEF later
    <3>2. QED BY <1>4, <3>1, LeastNumber
  <2>2. k - 1 \in 0..Len(s) /\ (k - 1) + 1 \in later /\ \A j \in later : k - 1 < j
    BY <1>1, <2>1
  <2>3. p = CHOOSE i \in 0..Len(s) : i + 1 \in later /\ \A j \in later : i < j
    BY <1>4 DEF Predecessor
  <2>4. p \in 0..Len(s) /\ p + 1 \in later /\ \A j \in later : p < j
    <3> HIDE DEF later, p
    <3>1. QED BY <2>2, <2>3
  <2> HIDE DEF p
  <2>5. \A i \in 1..p : ~ Before(new, s[i])
    BY <1>1, <2>4
  <2>6. ASSUME Sorted(s), NEW i \in (p + 1)..Len(s) PROVE ~ Before(s[i], new)
    <3>1. i \in 1..Len(s) /\ p + 1 \in 1..Len(s) /\ Before(new, s[p + 1])
      BY <1>1, <2>4
    <3>2. i = p + 1 \/ ~ Before(s[i], s[p + 1])
      BY <1>1, <2>4, <2>6, <3>1 DEF Sorted
    <3>3. QED BY <1>1, <1>2, <3>1, <3>2 DEF Before
  <2>7. QED BY <2>4, <2>5, <2>6 DEF p
<1>5. CASE Len(s) # 1 /\ later = {}
  <2>1. p = Len(s)
    BY <1>5 DEF Predecessor
  <2> HIDE DEF p
  <2>2. QED BY <1>1, <1>5, <2>1 DEF p
<1>6. QED BY <1>3, <1>4, <1>5

LEMMA SortedInsertion ==
  ASSUME NEW s \in Seq(Cell), NEW new \in Cell, Sorted(s)
  PROVE  Sorted(InsertAt(s, Predecessor(s, new) + 1, new))
<1> DEFINE p == Predecessor(s, new)
           t == InsertAt(s, p + 1, new)
<1>1. /\ Len(s) \in Nat /\ p \in 0..Len(s) /\ p + 1 \in 1..(Len(s) + 1)
      /\ \A i \in 1..p : ~ Before(new, s[i])
      /\ \A i \in (p + 1)..Len(s) : ~ Before(s[i], new)
  BY PredecessorRange
<1>2. /\ Len(t) = Len(s) + 1
      /\ \A i \in 1..(Len(s) + 1) :
           t[i] = IF i < p + 1 THEN s[i] ELSE IF i = p + 1 THEN new ELSE s[i - 1]
  BY <1>1, Inserted
<1> HIDE DEF p, t
<1>3. SUFFICES ASSUME NEW j \in 1..Len(t), NEW k \in 1..Len(t), j < k PROVE ~ Before(t[k], t[j])
  BY DEF Sorted, p, t
<1>4. CASE k < p + 1
  <2>1. t[j] = s[j] /\ t[k] = s[k] /\ j \in 1..Len(s) /\ k \in 1..Len(s)
    BY <1>1, <1>2, <1>3, <1>4
  <2>2. QED BY <1>3, <2>1 DEF Sorted
<1>5. CASE k = p + 1
  <2>1. t[j] = s[j] /\ t[k] = new /\ j \in 1..p
    BY <1>1, <1>2, <1>3, <1>5
  <2>2. QED BY <1>1, <2>1
<1>6. CASE k > p + 1
  <2>1. t[k] = s[k - 1] /\ k - 1 \in (p + 1)..Len(s) /\ k - 1 \in 1..Len(s)
    BY <1>1, <1>2, <1>3, <1>6
  <2>2. CASE j = p + 1
    <3>1. t[j] = new
      BY <1>1, <1>2, <2>2
    <3>2. QED BY <1>1, <2>1, <3>1
  <2>3. CASE j < p + 1
    <3>1. t[j] = s[j] /\ j \in 1..Len(s) /\ j < k - 1
      BY <1>1, <1>2, <1>6, <2>3
    <3>2. QED BY <2>1, <3>1 DEF Sorted
  <2>4. CASE j > p + 1
    <3>1. t[j] = s[j - 1] /\ j - 1 \in 1..Len(s) /\ j - 1 < k - 1
      BY <1>1, <1>2, <1>3, <2>4
    <3>2. QED BY <2>1, <3>1 DEF Sorted
  <2>5. QED BY <1>1, <1>2, <2>2, <2>3, <2>4
<1>7. QED BY <1>1, <1>2, <1>4, <1>5, <1>6
-----------------------------------------------------------------------------
(* The step of the sequence behind a step of the pointers.                 *)
ListStep(s, t) ==
  \/ \E new \in Cell, k \in 1..(Len(s) + 1) :
       (\A j \in 1..Len(s) : s[j] # new) /\ t = InsertAt(s, k, new)
  \/ \E k \in 1..Len(s) : t = RemoveAt(s, k)
  \/ t = <<>>

LEMMA VisitedOf ==
  ASSUME NEW h, Linked(h)
  PROVE  h \in Pointers /\ h.left[Base] = NULL /\ Visited(h) \in Seq(Cell) /\ Represents(h, Visited(h))
BY VisitedIsRepresented DEF Linked

LEMMA InsertionStep ==
  ASSUME NEW h, Linked(h), NEW g, NEW j \in 0..Len(Visited(h)),
         NEW new \in Cell, \A k \in 1..Len(Visited(h)) : Visited(h)[k] # new,
         g = AddNext(h, At(Visited(h), j), new)
  PROVE  Linked(g) /\ Visited(g) = InsertAt(Visited(h), j + 1, new) /\ ListStep(Visited(h), Visited(g))
<1> DEFINE s == Visited(h)
<1>1. h \in Pointers /\ h.left[Base] = NULL /\ s \in Seq(Cell) /\ Represents(h, s)
  BY VisitedOf
<1> HIDE DEF s
<1>2. g \in Pointers /\ g.left[Base] = NULL /\ Represents(g, InsertAt(s, j + 1, new))
  BY <1>1, AddNextInserts DEF s
<1>3. InsertAt(s, j + 1, new) \in Seq(Cell) /\ j + 1 \in 1..(Len(s) + 1)
  <2>1. j + 1 \in 1..(Len(s) + 1)
    BY <1>1 DEF s
  <2>2. QED BY <1>1, <2>1, Inserted
<1>4. Visited(g) = InsertAt(s, j + 1, new)
  BY <1>2, <1>3, VisitedIsRepresented
<1>5. QED BY <1>2, <1>3, <1>4 DEF Linked, ListStep, s

(* The new cell of priority_insert was reset already.                      *)
LEMMA PriorityInsertWrites ==
  ASSUME Linked(node), NEW new \in Cell \ Listed, doubly_linkedlist_priority_insert(new)
  PROVE  node' = AddNext(node, At(Visited(node), Predecessor(Visited(node), new)), new)
<1> DEFINE s == Visited(node)
           detached == [left  |-> [node.left EXCEPT ![new] = NULL],
                        right |-> [node.right EXCEPT ![new] = NULL]]
<1>1. node \in Pointers /\ s \in Seq(Cell) /\ Represents(node, s)
  BY VisitedOf
<1>2. node.left[new] = NULL /\ node.right[new] = NULL
  BY <1>1 DEF Represents, Listed
<1>3. [node.left EXCEPT ![new] = NULL] = node.left /\ [node.right EXCEPT ![new] = NULL] = node.right
  BY <1>1, <1>2 DEF Pointers
<1>4. detached = node
  BY <1>1, <1>3 DEF Pointers
<1>5. QED BY <1>4 DEF doubly_linkedlist_priority_insert

(* Every function keeps the list linked and steps as ListSequence does.    *)
LEMMA NextStep ==
  ASSUME Linked(node), Next
  PROVE  Linked(node') /\ ListStep(Visited(node), Visited(node'))
<1> DEFINE s == Visited(node)
           t == Visited(node')
<1>1. node \in Pointers /\ node.left[Base] = NULL /\ s \in Seq(Cell) /\ Represents(node, s)
  BY VisitedOf
<1>2. Len(s) \in Nat /\ \A k \in 1..Len(s) : s[k] \in Cell
  BY <1>1
<1>3. ASSUME NEW new \in Cell \ Listed, NEW current \in Listed \cup {Base},
             doubly_linkedlist_add_next(current, new)
      PROVE  Linked(node') /\ ListStep(s, t)
  <2>1. PICK j \in 0..Len(s) : current = At(s, j)
    BY <1>2 DEF Listed, At
  <2>2. QED BY <1>3, <2>1, InsertionStep DEF Listed, doubly_linkedlist_add_next
<1>4. ASSUME NEW new \in Cell \ Listed, NEW current \in Listed,
             doubly_linkedlist_add_before(current, new)
      PROVE  Linked(node') /\ ListStep(s, t)
  <2>1. PICK j \in 1..Len(s) : current = s[j]
    BY <1>2 DEF Listed
  <2>2. node' = AddNext(node, At(s, j - 1), new)
    BY <1>1, <1>4, <2>1, AddBeforeIsAddNext DEF Listed, doubly_linkedlist_add_before
  <2>3. j - 1 \in 0..Len(s)
    BY <1>2
  <2>4. QED BY <2>2, <2>3, InsertionStep DEF Listed
<1>5. ASSUME NEW new \in Cell \ Listed, doubly_linkedlist_add_last(new)
      PROVE  Linked(node') /\ ListStep(s, t)
  BY <1>2, <1>5, InsertionStep DEF Listed, doubly_linkedlist_add_last
<1>6. ASSUME NEW new \in Cell \ Listed, doubly_linkedlist_priority_insert(new)
      PROVE  Linked(node') /\ ListStep(s, t)
  <2>1. node' = AddNext(node, At(s, Predecessor(s, new)), new)
    BY <1>6, PriorityInsertWrites
  <2>2. QED BY <1>1, <2>1, PredecessorRange, InsertionStep DEF Listed
<1>7. ASSUME NEW current \in Listed, remove_doubly_linkedlist(current)
      PROVE  Linked(node') /\ ListStep(s, t)
  <2>1. PICK j \in 1..Len(s) : current = s[j]
    BY <1>2 DEF Listed
  <2>2. /\ node' \in Pointers /\ node'.left[Base] = NULL
        /\ Represents(node', RemoveAt(s, j)) /\ RemoveAt(s, j) \in Seq(Cell)
    BY <1>1, <1>7, <2>1, UnlinkRemoves, Removed DEF remove_doubly_linkedlist
  <2>3. t = RemoveAt(s, j)
    BY <2>2, VisitedIsRepresented
  <2>4. QED BY <2>2, <2>3 DEF Linked, ListStep
<1>8. ASSUME delete_doubly_linkedlist
      PROVE  Linked(node') /\ ListStep(s, t)
  <2>1. node' \in Pointers /\ node'.left[Base] = NULL /\ Represents(node', <<>>)
    BY <1>1, <1>8, EmptiedIsEmpty DEF delete_doubly_linkedlist
  <2>2. <<>> \in Seq(Cell)
    OBVIOUS
  <2>3. t = <<>>
    BY <2>1, <2>2, VisitedIsRepresented
  <2>4. QED BY <2>1, <2>2, <2>3 DEF Linked, ListStep
<1>9. QED BY <1>3, <1>4, <1>5, <1>6, <1>7, <1>8 DEF Next

LEMMA InitLinked ==
  ASSUME Init
  PROVE  Linked(node) /\ Visited(node) = <<>>
<1>1. node \in Pointers /\ node.left[Base] = NULL
  BY ListAssumption DEF Init, Pointers
<1>2. <<>> \in Seq(Cell) /\ Len(<<>>) = 0
  OBVIOUS
<1>3. Represents(node, <<>>)
  BY <1>2 DEF Init, Represents, IsWalk, IsInjective, At
<1>4. QED BY <1>1, <1>2, <1>3, VisitedIsRepresented DEF Linked

(* The inductive invariant.                                                *)
IInv == Linked(node)

(* The base always holds a list.                                           *)
THEOREM LinkedInvariant == Spec => []IInv
<1>1. Init => IInv
  BY InitLinked DEF IInv
<1>2. IInv /\ [Next]_node => IInv'
  <2>1. IInv /\ Next => Linked(node')
    BY NextStep DEF IInv
  <2>2. IInv /\ UNCHANGED node => Linked(node')
    BY DEF IInv
  <2>3. QED BY <2>1, <2>2 DEF IInv
<1>3. QED BY <1>1, <1>2, PTL DEF Spec

(* No function of linkedlist.c ever stores a pointer outside the list and  *)
(* its cells, and none writes a predecessor into the base.                 *)
THEOREM TypeCorrect == Spec => []TypeOK
<1>1. IInv => TypeOK
  BY DEF IInv, Linked, TypeOK, Pointers
<1>2. QED BY <1>1, LinkedInvariant, PTL

(* The cells with a predecessor are the listed ones, as many as the list   *)
(* is long.                                                                *)
LEMMA CountIsLength ==
  ASSUME NEW h \in Pointers, NEW s \in Seq(Cell), Represents(h, s)
  PROVE  Cardinality({c \in Cell : h.left[c] # NULL}) = Len(s)
<1> DEFINE C == {c \in Cell : h.left[c] # NULL}
<1>1. Len(s) \in Nat /\ DOMAIN s = 1..Len(s) /\ \A k \in 1..Len(s) : At(s, k) = s[k] /\ s[k] \in Cell
  BY DEF At
<1>2. \A k \in 1..Len(s) : h.left[s[k]] # NULL
  <2>1. SUFFICES ASSUME NEW k \in 1..Len(s) PROVE At(s, k - 1) # NULL
    BY DEF Represents
  <2>2. k - 1 \in 0..Len(s)
    BY <1>1
  <2>3. QED BY <2>2, Positions, ListAssumption
<1>3. \A c \in C : \E k \in 1..Len(s) : s[k] = c
  BY DEF Represents
<1>4. s \in [1..Len(s) -> C]
  <2>1. s \in [1..Len(s) -> Cell]
    OBVIOUS
  <2>2. \A k \in 1..Len(s) : s[k] \in C
    BY <1>1, <1>2
  <2> HIDE DEF C
  <2>3. QED BY <2>1, <2>2
<1>5. IsInjective(s)
  BY DEF Represents
<1> HIDE DEF C
<1>6. s \in Bijection(1..Len(s), C)
  BY <1>1, <1>3, <1>4, <1>5 DEF Bijection, Injection, Surjection, IsInjective
<1>7. ExistsBijection(1..Len(s), C)
  BY <1>6 DEF ExistsBijection
<1>8. QED BY <1>1, <1>7, FS_CountingElements DEF C

(* The pointers always form one list, the same in both directions.         *)
THEOREM AlwaysWellLinked == Spec => []WellLinked
<1>1. IInv => WellLinked
  BY VisitedOf, CountIsLength DEF IInv, WellLinked, get_doubly_linked_list_count
<1>2. QED BY <1>1, LinkedInvariant, PTL

(* Whatever functions are called, in whatever order, the list changes as a *)
(* sequence without repetitions does.                                      *)
THEOREM ListRefinement == Spec => ImplementsListSequence
<1>1. Init => List!Init
  BY InitLinked DEF List!Init
<1>2. IInv /\ [Next]_node => [List!Next]_(Visited(node))
  <2>1. ASSUME IInv, Next PROVE List!Next
    <3>1. ListStep(Visited(node), Visited(node'))
      BY <2>1, NextStep DEF IInv
    <3>2. QED BY <3>1 DEF ListStep, List!Next, List!Insert, List!TakeOut, List!Clear,
                  List!InsertAt, List!RemoveAt, InsertAt, RemoveAt
  <2>2. UNCHANGED node => UNCHANGED Visited(node)
    OBVIOUS
  <2>3. QED BY <2>1, <2>2
<1>3. QED BY <1>1, <1>2, LinkedInvariant, PTL DEF Spec, ImplementsListSequence, List!Spec

(* priority_insert keeps a list in order of priority.                      *)
THEOREM PriorityInsertSorts == Spec => PriorityKeepsSorted
<1> DEFINE Step == (\E new \in Cell \ Listed : doubly_linkedlist_priority_insert(new)) /\ Sorted(Visited(node))
                   => Sorted(Visited(node'))
<1>1. IInv /\ [Next]_node => [Step]_node
  <2>1. SUFFICES ASSUME IInv, NEW new \in Cell \ Listed,
                        doubly_linkedlist_priority_insert(new), Sorted(Visited(node))
                 PROVE  Sorted(Visited(node'))
    OBVIOUS
  <2>2. Visited(node) \in Seq(Cell) /\ Predecessor(Visited(node), new) \in 0..Len(Visited(node))
    BY <2>1, VisitedOf, PredecessorRange DEF IInv
  <2>3. Visited(node') = InsertAt(Visited(node), Predecessor(Visited(node), new) + 1, new)
    BY <2>1, <2>2, PriorityInsertWrites, InsertionStep DEF IInv, Listed
  <2>4. QED BY <2>1, <2>2, <2>3, SortedInsertion
<1>2. QED BY <1>1, LinkedInvariant, PTL DEF Spec, PriorityKeepsSorted
=============================================================================
