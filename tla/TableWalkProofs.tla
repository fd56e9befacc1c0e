---------------------------- MODULE TableWalkProofs ----------------------------
(***************************************************************************)
(* However the receiver thread's pointer stores are interleaved with the   *)
(* CLI thread's walk, an ARP or MAC table of any size leaks nothing, has   *)
(* no cycle, is printed in full when it is left alone, and changes for the *)
(* receiver thread in one step.                                            *)
(***************************************************************************)
EXTENDS TableWalk, SequenceTheorems, WellFoundedInduction, TLAPS

(* What a variable holds.                                                  *)
Pointers == [left  : [Object -> Object \cup {NULL}],
             right : [Object -> Cell \cup {NULL}]]

Stores == [field : {"left"},  of : Object, to : Object \cup {NULL}]
            \cup [field : {"right"}, of : Object, to : Cell \cup {NULL}]

TypeOK ==
  /\ node \in Pointers /\ todo \in Seq(Stores)
  /\ entry \in [Cell -> (Key \X Value) \cup {Free}]
  /\ writer \in [at : {"idle", "lookup", "unlink", "link"},
                 new : Cell \cup {NULL}, old : Cell \cup {NULL}]
  /\ reader \in [at : {"idle", "loop", "print"},
                 current : Cell \cup {NULL}, next : Cell \cup {NULL}]
  /\ raced \in BOOLEAN

(* The two pointers between neighbours belong together, nothing is left of *)
(* the base, and what is not in the list points nowhere.                   *)
DoublyLinked(h) ==
  /\ h.left[Base] = NULL
  /\ \A c \in Object : h.right[c] # NULL => h.left[h.right[c]] = c
  /\ \A c \in Cell : h.left[c] # NULL => h.right[h.left[c]] = c
  /\ \A c \in Cell : h.right[c] # NULL => h.left[c] # NULL

Listed(h) == {c \in Cell : h.left[c] # NULL}

(* The table as it is once the pending stores are done.                    *)
Settling == After(node, todo)
InTable  == Listed(Settling)

(* Along every right pointer that is stored, and every one that is going   *)
(* to be, the rank rises.                                                  *)
Rises(rank, h, stores) ==
  /\ \A c \in Cell : h.right[c] # NULL => rank[c] < rank[h.right[c]]
  /\ \A k \in 1..Len(stores) :
       stores[k].field = "right" /\ stores[k].of \in Cell /\ stores[k].to # NULL
         => rank[stores[k].of] < rank[stores[k].to]
Ranked(h, stores) == \E rank \in [Cell -> Nat] : Rises(rank, h, stores)

(* Where the receiver thread is.                                           *)
WriterInPlace ==
  /\ writer.at = "idle" => writer = Idle /\ todo = <<>>
  /\ writer.at = "lookup" =>
       todo = <<>> /\ writer.new \in Cell \ InTable /\ writer.old = NULL
  /\ writer.at = "unlink" =>
       /\ writer.new \in Cell \ InTable /\ writer.old \in Cell \ InTable
       /\ writer.new # writer.old
       /\ entry[writer.old][1] = entry[writer.new][1]
       /\ \A c \in InTable : entry[c][1] # entry[writer.new][1]
  /\ writer.at = "link" => writer.new \in InTable /\ writer.old = NULL

Allocated ==
  \A c \in Cell : entry[c] # Free <=> c \in InTable \cup ({writer.new, writer.old} \ {NULL})

KeysDistinct == \A c, d \in InTable : entry[c][1] = entry[d][1] => c = d

(* What a reader at c has still to print.                                  *)
Rest(c) == IF c = NULL THEN {} ELSE {c} \cup Chain(node, c)

(* A walk that was left alone has printed what lies behind it.             *)
WalkOnTrack ==
  reader.at # "idle" /\ ~raced =>
    /\ writer = Idle /\ reader.current \in InTable \cup {NULL}
    /\ printed = {entry[c] : c \in InTable \ Rest(reader.current)}

ReaderInPlace ==
  reader.at = "print" =>
    /\ reader.current # NULL
    /\ ~raced => reader.next = node.right[reader.current]

TableInv ==
  /\ TypeOK /\ DoublyLinked(Settling) /\ Ranked(node, todo)
  /\ WriterInPlace /\ Allocated /\ KeysDistinct
  /\ ReaderInPlace /\ WalkOnTrack
-----------------------------------------------------------------------------
(* A set of numbers that is not empty has a least one.                     *)
LEMMA LeastNumber ==
  ASSUME NEW T, T \subseteq Nat, T # {}
  PROVE  \E k \in T : \A j \in T : k <= j
<1>1. IsWellFoundedOn(OpToRel(<, Nat), Nat)
  BY NatLessThanWellFounded
<1>2. \E k \in T : \A j \in T : ~ (<<j, k>> \in OpToRel(<, Nat))
  BY <1>1, WFMin
<1>3. \A j, k \in T : ~ (<<j, k>> \in OpToRel(<, Nat)) => k <= j
  BY DEF OpToRel
<1>4. QED BY <1>2, <1>3

(* ... and one that no member exceeds, if they are bounded.                *)
LEMMA GreatestNumber ==
  ASSUME NEW n \in Nat, NEW T, T \subseteq 1..n, T # {}
  PROVE  \E k \in T : \A j \in T : j <= k
<1> DEFINE U == {n - k : k \in T}
<1>1. U \subseteq Nat /\ U # {}
  <2>1. \A k \in T : k \in Int /\ k <= n /\ n - k \in Nat
    OBVIOUS
  <2>2. QED BY <2>1
<1>2. PICK u \in U : \A v \in U : u <= v
  <2> HIDE DEF U
  <2> QED BY <1>1, LeastNumber
<1>3. PICK k \in T : u = n - k
  BY <1>2
<1>4. \A j \in T : j <= k
  <2> SUFFICES ASSUME NEW j \in T PROVE j <= k
    OBVIOUS
  <2>1. n - k <= n - j
    BY <1>2, <1>3
  <2>2. j \in Int /\ k \in Int
    OBVIOUS
  <2>3. QED BY <2>1, <2>2
<1>5. QED BY <1>4

(* A store keeps the pointers pointers.                                    *)
LEMMA StoreType ==
  ASSUME NEW h \in Pointers, NEW st \in Stores
  PROVE  /\ Store(h, st) \in Pointers
         /\ \A f \in {"left", "right"}, c \in Object :
              Store(h, st)[f][c] = IF f = st.field /\ c = st.of THEN st.to ELSE h[f][c]
BY DEF Store, Pointers, Stores

(* What a sequence of stores leaves is what the last of them left or, when *)
(* none of them meets the pointer, what it was.                            *)
LEMMA SettledCases ==
  ASSUME NEW h, NEW s \in Seq(Stores), NEW f, NEW c
  PROVE  \/ Hits(s, f, c) = {} /\ Settled(h, s, f, c) = h[f][c]
         \/ \E k \in Hits(s, f, c) :
              (\A j \in Hits(s, f, c) : j <= k) /\ Settled(h, s, f, c) = s[k].to
<1> DEFINE hits == Hits(s, f, c)
<1>1. SUFFICES ASSUME hits # {}
               PROVE  \E k \in hits : (\A j \in hits : j <= k) /\ Settled(h, s, f, c) = s[k].to
  BY DEF Settled
<1>2. \E k \in hits : \A j \in hits : j <= k
  <2>1. Len(s) \in Nat /\ hits \subseteq 1..Len(s)
    BY DEF Hits
  <2> HIDE DEF hits
  <2> QED BY <1>1, <2>1, GreatestNumber
<1>3. Settled(h, s, f, c) = s[CHOOSE k \in hits : \A j \in hits : j <= k].to
  BY <1>1 DEF Settled
<1> HIDE DEF hits
<1>4. QED BY <1>2, <1>3

(* It is enough to do the stores one after the other.                      *)
LEMMA SettledStep ==
  ASSUME NEW h \in Pointers, NEW s \in Seq(Stores), s # <<>>,
         NEW f \in {"left", "right"}, NEW c \in Object
  PROVE  Settled(Store(h, Head(s)), Tail(s), f, c) = Settled(h, s, f, c)
<1> DEFINE t == Tail(s)
           g == Store(h, Head(s))
<1>1. /\ Head(s) \in Stores /\ t \in Seq(Stores) /\ Len(t) = Len(s) - 1 /\ Len(s) \in Nat \ {0}
      /\ Head(s) = s[1] /\ \A i \in 1..Len(t) : t[i] = s[i + 1]
  BY HeadTailProperties, EmptySeq
<1> HIDE DEF t
<1>2. \A i \in 2..Len(s) : s[i] = t[i - 1] /\ i - 1 \in 1..Len(t)
  BY <1>1
<1>3. \A i \in 1..Len(t) : i \in Hits(t, f, c) <=> i + 1 \in Hits(s, f, c)
  BY <1>1 DEF Hits
<1>4. Hits(t, f, c) \subseteq 1..Len(t) /\ Hits(s, f, c) \subseteq 1..Len(s)
  BY DEF Hits
<1>5. CASE Hits(t, f, c) = {}
  <2>1. Settled(g, t, f, c) = g[f][c]
    BY <1>5 DEF Settled
  <2>2. Hits(s, f, c) \subseteq {1}
    <3> SUFFICES ASSUME NEW i \in Hits(s, f, c), i # 1 PROVE FALSE
      OBVIOUS
    <3>1. i \in 2..Len(s)
      BY <1>1, <1>4
    <3>3. i - 1 \in 1..Len(t) /\ (i - 1) + 1 = i
      BY <1>2, <3>1
    <3>2. QED BY <1>3, <1>5, <3>3
  <2>3. 1 \in Hits(s, f, c) <=> s[1].field = f /\ s[1].of = c
    BY <1>1 DEF Hits
  <2>4. CASE 1 \in Hits(s, f, c)
    <3>1. Settled(h, s, f, c) = s[1].to
      <4>1. PICK k \in Hits(s, f, c) : Settled(h, s, f, c) = s[k].to
        BY <2>4, SettledCases
      <4>2. QED BY <2>2, <4>1
    <3>2. g[f][c] = s[1].to
      BY <1>1, <2>3, <2>4, StoreType
    <3>3. QED BY <2>1, <3>1, <3>2 DEF t
  <2>5. CASE 1 \notin Hits(s, f, c)
    <3>1. Settled(h, s, f, c) = h[f][c]
      BY <2>2, <2>5, SettledCases
    <3>2. g[f][c] = h[f][c]
      BY <1>1, <2>3, <2>5, StoreType
    <3>3. QED BY <2>1, <3>1, <3>2 DEF t
  <2>6. QED BY <2>4, <2>5
<1>6. CASE Hits(t, f, c) # {}
  <2>1. PICK k \in Hits(t, f, c) :
          (\A j \in Hits(t, f, c) : j <= k) /\ Settled(g, t, f, c) = t[k].to
    <3> HIDE DEF g
    <3>1. \/ Hits(t, f, c) = {} /\ Settled(g, t, f, c) = g[f][c]
          \/ \E k \in Hits(t, f, c) :
               (\A j \in Hits(t, f, c) : j <= k) /\ Settled(g, t, f, c) = t[k].to
      <4>1. t \in Seq(Stores)
        BY <1>1
      <4>2. QED BY <4>1, SettledCases
    <3>2. QED BY <1>6, <3>1
  <2>2. k + 1 \in Hits(s, f, c)
    BY <1>3, <1>4, <2>1
  <2>3. PICK m \in Hits(s, f, c) :
          (\A j \in Hits(s, f, c) : j <= m) /\ Settled(h, s, f, c) = s[m].to
    BY <2>2, SettledCases
  <2>4. k + 1 <= m /\ m \in 2..Len(s) /\ k \in 1..Len(t)
    BY <1>1, <1>4, <2>1, <2>2, <2>3
  <2>5. m - 1 \in Hits(t, f, c)
    <3>1. (m - 1) + 1 = m
      BY <2>4
    <3>2. QED BY <1>2, <1>3, <2>3, <2>4, <3>1
  <2>6. m = k + 1
    BY <2>1, <2>4, <2>5
  <2>7. s[m] = t[k]
    BY <1>1, <2>4, <2>6
  <2>8. QED BY <2>1, <2>3, <2>7 DEF t
<1>7. QED BY <1>5, <1>6

(* After the stores the pointers are pointers again.                       *)
LEMMA AfterType ==
  ASSUME NEW h \in Pointers, NEW s \in Seq(Stores)
  PROVE  /\ After(h, s) \in Pointers
         /\ \A c \in Object : /\ After(h, s).left[c] = Settled(h, s, "left", c)
                              /\ After(h, s).right[c] = Settled(h, s, "right", c)
<1>1. \A c \in Object : Settled(h, s, "left", c) \in Object \cup {NULL}
  <2> SUFFICES ASSUME NEW c \in Object PROVE Settled(h, s, "left", c) \in Object \cup {NULL}
    OBVIOUS
  <2>1. CASE Settled(h, s, "left", c) = h["left"][c]
    BY <2>1 DEF Pointers
  <2>2. CASE \E k \in Hits(s, "left", c) : Settled(h, s, "left", c) = s[k].to
    <3>1. PICK k \in Hits(s, "left", c) : Settled(h, s, "left", c) = s[k].to
      BY <2>2
    <3>2. s[k] \in Stores
      BY DEF Hits
    <3>3. QED BY <3>1, <3>2 DEF Stores, Object
  <2>3. QED BY <2>1, <2>2, SettledCases
<1>2. \A c \in Object : Settled(h, s, "right", c) \in Cell \cup {NULL}
  <2> SUFFICES ASSUME NEW c \in Object PROVE Settled(h, s, "right", c) \in Cell \cup {NULL}
    OBVIOUS
  <2>1. CASE Settled(h, s, "right", c) = h["right"][c]
    BY <2>1 DEF Pointers
  <2>2. CASE \E k \in Hits(s, "right", c) : Settled(h, s, "right", c) = s[k].to
    <3>1. PICK k \in Hits(s, "right", c) : Settled(h, s, "right", c) = s[k].to
      BY <2>2
    <3>2. s[k] \in Stores /\ s[k].field = "right"
      BY DEF Hits
    <3>3. QED BY <3>1, <3>2 DEF Stores
  <2>3. QED BY <2>1, <2>2, SettledCases
<1>3. QED BY <1>1, <1>2 DEF After, Pointers

(* Pointers that agree everywhere are the same.                            *)
LEMMA SamePointers ==
  ASSUME NEW g \in Pointers, NEW h \in Pointers,
         \A c \in Object : g.left[c] = h.left[c] /\ g.right[c] = h.right[c]
  PROVE  g = h
BY DEF Pointers

(* No store, no change.                                                    *)
LEMMA AfterNone ==
  ASSUME NEW h \in Pointers
  PROVE  After(h, <<>>) = h
<1>1. <<>> \in Seq(Stores) /\ Len(<<>>) = 0
  OBVIOUS
<1>2. \A f, c : Hits(<<>>, f, c) = {}
  BY <1>1 DEF Hits
<1>3. \A f, c : Settled(h, <<>>, f, c) = h[f][c]
  BY <1>2 DEF Settled
<1>4. \A c \in Object : After(h, <<>>).left[c] = h.left[c] /\ After(h, <<>>).right[c] = h.right[c]
  BY <1>1, <1>3, AfterType
<1>5. After(h, <<>>) \in Pointers
  BY <1>1, AfterType
<1> HIDE DEF After
<1>6. QED BY <1>4, <1>5, SamePointers

(* The first store may as well be done at once.                            *)
LEMMA AfterStep ==
  ASSUME NEW h \in Pointers, NEW s \in Seq(Stores), s # <<>>
  PROVE  After(Store(h, Head(s)), Tail(s)) = After(h, s)
<1>1. Head(s) \in Stores /\ Tail(s) \in Seq(Stores)
  BY HeadTailProperties
<1>2. Store(h, Head(s)) \in Pointers
  BY <1>1, StoreType
<1>3. \A c \in Object : /\ Settled(Store(h, Head(s)), Tail(s), "left", c) = Settled(h, s, "left", c)
                        /\ Settled(Store(h, Head(s)), Tail(s), "right", c) = Settled(h, s, "right", c)
  BY SettledStep
<1> DEFINE g == After(Store(h, Head(s)), Tail(s))
           i == After(h, s)
<1>4. g \in Pointers /\ i \in Pointers
  BY <1>1, <1>2, AfterType
<1>5. \A c \in Object : g.left[c] = i.left[c] /\ g.right[c] = i.right[c]
  <2> SUFFICES ASSUME NEW c \in Object
               PROVE  g.left[c] = i.left[c] /\ g.right[c] = i.right[c]
    OBVIOUS
  <2>1. g.left[c] = Settled(Store(h, Head(s)), Tail(s), "left", c)
    BY <1>1, <1>2, AfterType
  <2>2. g.right[c] = Settled(Store(h, Head(s)), Tail(s), "right", c)
    BY <1>1, <1>2, AfterType
  <2>3. i.left[c] = Settled(h, s, "left", c) /\ i.right[c] = Settled(h, s, "right", c)
    BY AfterType
  <2>4. QED BY <1>3, <2>1, <2>2, <2>3
<1>6. g = i
  <2> HIDE DEF g, i
  <2> QED BY <1>4, <1>5, SamePointers
<1>7. QED BY <1>6

(* remove_doubly_linkedlist and doubly_linkedlist_add_next are two or four *)
(* stores.                                                                 *)
LEMMA AfterTwo ==
  ASSUME NEW h \in Pointers, NEW a \in Stores, NEW b \in Stores
  PROVE  After(h, <<a, b>>) = Store(Store(h, a), b)
<1>1. /\ <<a, b>> \in Seq(Stores) /\ <<a, b>> # <<>>
      /\ Head(<<a, b>>) = a /\ Tail(<<a, b>>) = <<b>>
      /\ <<b>> \in Seq(Stores) /\ <<b>> # <<>> /\ Head(<<b>>) = b /\ Tail(<<b>>) = <<>>
  OBVIOUS
<1>2. Store(h, a) \in Pointers /\ Store(Store(h, a), b) \in Pointers
  BY StoreType
<1>3. After(h, <<a, b>>) = After(Store(h, a), <<b>>)
  BY <1>1, AfterStep
<1>4. After(Store(h, a), <<b>>) = After(Store(Store(h, a), b), <<>>)
  BY <1>1, <1>2, AfterStep
<1>5. QED BY <1>2, <1>3, <1>4, AfterNone

(* The same for the longer branch of both.                                 *)
LEMMA AfterFour ==
  ASSUME NEW h \in Pointers,
         NEW a \in Stores, NEW b \in Stores, NEW c \in Stores, NEW d \in Stores
  PROVE  After(h, <<a, b, c, d>>) = Store(Store(Store(Store(h, a), b), c), d)
<1>1. /\ <<a, b, c, d>> \in Seq(Stores) /\ <<a, b, c, d>> # <<>>
      /\ Head(<<a, b, c, d>>) = a /\ Tail(<<a, b, c, d>>) = <<b, c, d>>
  OBVIOUS
<1>2. /\ <<b, c, d>> \in Seq(Stores) /\ <<b, c, d>> # <<>>
      /\ Head(<<b, c, d>>) = b /\ Tail(<<b, c, d>>) = <<c, d>>
  OBVIOUS
<1>3. Store(h, a) \in Pointers /\ Store(Store(h, a), b) \in Pointers
  BY StoreType
<1>4. After(h, <<a, b, c, d>>) = After(Store(h, a), <<b, c, d>>)
  BY <1>1, AfterStep
<1>5. After(Store(h, a), <<b, c, d>>) = After(Store(Store(h, a), b), <<c, d>>)
  BY <1>2, <1>3, AfterStep
<1>6. QED BY <1>3, <1>4, <1>5, AfterTwo

(* The rank rises along the pointers as they will be.                      *)
LEMMA RisesAfter ==
  ASSUME NEW h \in Pointers, NEW s \in Seq(Stores), NEW rank \in [Cell -> Nat], Rises(rank, h, s)
  PROVE  \A c \in Cell : After(h, s).right[c] # NULL => rank[c] < rank[After(h, s).right[c]]
<1> SUFFICES ASSUME NEW c \in Cell, After(h, s).right[c] # NULL
             PROVE  rank[c] < rank[After(h, s).right[c]]
  OBVIOUS
<1>1. After(h, s).right[c] = Settled(h, s, "right", c)
  BY AfterType DEF Object
<1>2. CASE Settled(h, s, "right", c) = h["right"][c]
  BY <1>1, <1>2 DEF Rises
<1>3. CASE \E k \in Hits(s, "right", c) : Settled(h, s, "right", c) = s[k].to
  <2>1. PICK k \in Hits(s, "right", c) : Settled(h, s, "right", c) = s[k].to
    BY <1>3
  <2>2. k \in 1..Len(s) /\ s[k].field = "right" /\ s[k].of = c
    BY DEF Hits
  <2>3. QED BY <1>1, <2>1, <2>2 DEF Rises
<1>4. QED BY <1>2, <1>3, SettledCases

(* Doing the first store keeps the order of rank.                          *)
LEMMA RisesStep ==
  ASSUME NEW h \in Pointers, NEW s \in Seq(Stores), s # <<>>,
         NEW rank \in [Cell -> Nat], Rises(rank, h, s)
  PROVE  Rises(rank, Store(h, Head(s)), Tail(s))
<1>1. /\ Head(s) \in Stores /\ Tail(s) \in Seq(Stores) /\ Len(Tail(s)) = Len(s) - 1
      /\ Len(s) \in Nat \ {0} /\ Head(s) = s[1]
      /\ \A i \in 1..Len(Tail(s)) : Tail(s)[i] = s[i + 1]
  BY HeadTailProperties, EmptySeq
<1>2. \A c \in Cell : Store(h, Head(s)).right[c] # NULL => rank[c] < rank[Store(h, Head(s)).right[c]]
  <2> SUFFICES ASSUME NEW c \in Cell, Store(h, Head(s)).right[c] # NULL
               PROVE  rank[c] < rank[Store(h, Head(s)).right[c]]
    OBVIOUS
  <2>1. Store(h, Head(s))["right"][c]
          = IF "right" = s[1].field /\ c = s[1].of THEN s[1].to ELSE h["right"][c]
    BY <1>1, StoreType DEF Object
  <2>2. 1 \in 1..Len(s)
    BY <1>1
  <2>3. QED BY <2>1, <2>2 DEF Rises
<1>3. \A k \in 1..Len(Tail(s)) :
        Tail(s)[k].field = "right" /\ Tail(s)[k].of \in Cell /\ Tail(s)[k].to # NULL
          => rank[Tail(s)[k].of] < rank[Tail(s)[k].to]
  <2> SUFFICES ASSUME NEW k \in 1..Len(Tail(s)), Tail(s)[k].field = "right",
                      Tail(s)[k].of \in Cell, Tail(s)[k].to # NULL
               PROVE  rank[Tail(s)[k].of] < rank[Tail(s)[k].to]
    OBVIOUS
  <2>1. k + 1 \in 1..Len(s) /\ Tail(s)[k] = s[k + 1]
    BY <1>1
  <2>2. QED BY <2>1 DEF Rises
<1>4. QED BY <1>2, <1>3 DEF Rises
-----------------------------------------------------------------------------
(* A chain is made of cells and leads on from each of them.                *)
LEMMA ChainLeadsOn ==
  ASSUME NEW h \in Pointers, NEW c \in Object
  PROVE  /\ Chain(h, c) \subseteq Cell
         /\ RightOf(h, c, Chain(h, c))
<1>1. \A d \in Object : Right(h, d) \subseteq Cell /\ Right(h, d) \subseteq Object
  BY DEF Right, Pointers, Object
<1>2. Cell \in SUBSET Object /\ RightOf(h, c, Cell)
  BY <1>1 DEF RightOf, Object
<1>3. Chain(h, c) \subseteq Cell /\ Chain(h, c) \subseteq Object
  BY <1>2 DEF Chain
<1>4. Right(h, c) \subseteq Chain(h, c)
  BY <1>1 DEF Chain, RightOf
<1>5. \A d \in Chain(h, c) : Right(h, d) \subseteq Chain(h, c)
  <2> SUFFICES ASSUME NEW d \in Chain(h, c), NEW e \in Right(h, d),
                      NEW seen \in SUBSET Object, RightOf(h, c, seen)
               PROVE  e \in seen
    BY <1>1, <1>3 DEF Chain
  <2>1. d \in seen
    BY DEF Chain
  <2>2. QED BY <2>1 DEF RightOf
<1>6. QED BY <1>3, <1>4, <1>5 DEF RightOf

(* Whatever leads on from c contains the chain.                            *)
LEMMA ChainLeast ==
  ASSUME NEW h, NEW c, NEW seen \in SUBSET Object, RightOf(h, c, seen)
  PROVE  Chain(h, c) \subseteq seen
BY DEF Chain

(* Where the rank rises no chain comes back.                               *)
LEMMA NoCycle ==
  ASSUME NEW h \in Pointers, NEW rank \in [Cell -> Nat],
         \A c \in Cell : h.right[c] # NULL => rank[c] < rank[h.right[c]],
         NEW c \in Cell
  PROVE  c \notin Chain(h, c)
<1> DEFINE seen == {d \in Cell : rank[c] < rank[d]}
<1>1. \A d \in Cell : h.right[d] \in Cell \cup {NULL}
  BY DEF Pointers, Object
<1>2. Right(h, c) \subseteq seen
  BY <1>1 DEF Right
<1>3. \A d \in seen : Right(h, d) \subseteq seen
  <2> SUFFICES ASSUME NEW d \in seen, h.right[d] # NULL PROVE h.right[d] \in seen
    BY DEF Right
  <2>1. h.right[d] \in Cell /\ rank[c] < rank[d] /\ rank[d] < rank[h.right[d]]
    BY <1>1
  <2>2. rank[c] \in Nat /\ rank[d] \in Nat /\ rank[h.right[d]] \in Nat
    BY <2>1
  <2>3. QED BY <2>1, <2>2
<1>4. Chain(h, c) \subseteq seen
  BY <1>2, <1>3, ChainLeast DEF RightOf, Object
<1>5. QED BY <1>4

(* In a well linked list the chain from the base is all that is listed.    *)
LEMMA ChainIsListed ==
  ASSUME NEW h \in Pointers, DoublyLinked(h), NEW rank \in [Cell -> Nat],
         \A c \in Cell : h.right[c] # NULL => rank[c] < rank[h.right[c]]
  PROVE  Chain(h, Base) = Listed(h)
<1>1. \A c \in Object : h.right[c] \in Cell \cup {NULL} /\ h.left[c] \in Object \cup {NULL}
  BY DEF Pointers
<1>2. RightOf(h, Base, Listed(h))
  <2>1. \A c \in Object : Right(h, c) \subseteq Listed(h)
    BY <1>1, TableAssumption DEF Right, Listed, DoublyLinked, Object
  <2>2. QED BY <2>1 DEF RightOf, Listed, Object
<1>3. Chain(h, Base) \subseteq Listed(h)
  BY <1>2, ChainLeast DEF Listed, Object
<1>4. SUFFICES ASSUME Listed(h) \ Chain(h, Base) # {} PROVE FALSE
  BY <1>3
<1> DEFINE T == {rank[c] : c \in Listed(h) \ Chain(h, Base)}
<1>5. PICK k \in T : \A j \in T : k <= j
  <2>1. T \subseteq Nat /\ T # {}
    BY <1>4 DEF Listed
  <2> HIDE DEF T
  <2>2. QED BY <2>1, LeastNumber
<1>6. PICK c \in Listed(h) \ Chain(h, Base) : rank[c] = k
  BY <1>5
<1>7. \A d \in Listed(h) \ Chain(h, Base) : rank[c] <= rank[d]
  BY <1>5, <1>6
<1>8. c \in Cell /\ h.left[c] \in Object /\ h.right[h.left[c]] = c
  BY <1>1 DEF Listed, DoublyLinked, Object
<1>9. c \in Right(h, h.left[c])
  BY <1>8, TableAssumption DEF Right
<1>10. RightOf(h, Base, Chain(h, Base))
  BY ChainLeadsOn DEF Object
<1>11. h.left[c] # Base /\ h.left[c] \notin Chain(h, Base)
  BY <1>6, <1>9, <1>10 DEF RightOf
<1>12. h.left[c] \in Listed(h)
  BY <1>8, <1>11, TableAssumption DEF DoublyLinked, Listed, Object
<1>13. rank[h.left[c]] < rank[c]
  BY <1>8, <1>11, TableAssumption DEF Object
<1>14. rank[c] \in Nat /\ rank[h.left[c]] \in Nat
  BY <1>8, <1>12 DEF Listed
<1>15. QED BY <1>7, <1>11, <1>12, <1>13, <1>14

(* A walk goes to the next entry, and then on from there.                  *)
LEMMA ChainUnfolds ==
  ASSUME NEW h \in Pointers, NEW c \in Object
  PROVE  Chain(h, c) = IF h.right[c] = NULL THEN {}
                       ELSE {h.right[c]} \cup Chain(h, h.right[c])
<1>1. h.right[c] \in Cell \cup {NULL}
  BY DEF Pointers
<1>2. CASE h.right[c] = NULL
  <2>1. RightOf(h, c, {})
    BY <1>2 DEF RightOf, Right
  <2>2. QED BY <1>2, <2>1, ChainLeast
<1>3. CASE h.right[c] # NULL
  <2> DEFINE n == h.right[c]
  <2>1. n \in Object /\ Right(h, c) = {n}
    BY <1>1, <1>3 DEF Right, Object
  <2>2. RightOf(h, c, Chain(h, c)) /\ Chain(h, c) \subseteq Cell
    BY ChainLeadsOn
  <2>3. RightOf(h, n, Chain(h, n)) /\ Chain(h, n) \subseteq Cell
    BY <2>1, ChainLeadsOn
  <2>4. Chain(h, n) \subseteq Chain(h, c) /\ n \in Chain(h, c)
    <3>1. n \in Chain(h, c)
      BY <2>1, <2>2 DEF RightOf
    <3>2. RightOf(h, n, Chain(h, c)) /\ Chain(h, c) \in SUBSET Object
      BY <2>2, <3>1 DEF RightOf, Object
    <3>3. QED BY <3>1, <3>2, ChainLeast
  <2>5. Chain(h, c) \subseteq {n} \cup Chain(h, n)
    <3>1. RightOf(h, c, {n} \cup Chain(h, n))
      BY <2>1, <2>3 DEF RightOf
    <3>2. {n} \cup Chain(h, n) \in SUBSET Object
      BY <2>1, <2>3 DEF Object
    <3>3. QED BY <3>1, <3>2, ChainLeast
  <2>6. QED BY <1>3, <2>4, <2>5
<1>4. QED BY <1>2, <1>3
-----------------------------------------------------------------------------
(* doubly_linkedlist_add_next puts a block that was not in the list there, *)
(* and it stays well linked.                                               *)
LEMMA Linking ==
  ASSUME node \in Pointers, DoublyLinked(node), NEW new \in Cell \ Listed(node)
  PROVE  /\ LinkStores(new) \in Seq(Stores)
         /\ DoublyLinked(After(node, LinkStores(new)))
         /\ Listed(After(node, LinkStores(new))) = Listed(node) \cup {new}
<1> DEFINE temp == node.right[Base]
           h == After(node, LinkStores(new))
<1>1. /\ Base \in Object /\ new \in Object /\ new # NULL /\ new # Base /\ Base \notin Cell
      /\ temp \in Cell \cup {NULL} /\ node.left[new] = NULL /\ node.right[new] = NULL
      /\ temp # new
  BY TableAssumption DEF Object, Pointers, Listed, DoublyLinked
<1>2. /\ StoreTo("right", Base, new) \in Stores /\ StoreTo("left", new, Base) \in Stores
      /\ StoreTo("right", new, temp) \in Stores
      /\ temp # NULL => StoreTo("left", temp, new) \in Stores
  BY <1>1 DEF StoreTo, Stores, Object
<1>3. /\ LinkStores(new) \in Seq(Stores) /\ h \in Pointers
      /\ \A c \in Object :
           /\ h.left[c] = IF c = new THEN Base ELSE IF c = temp THEN new ELSE node.left[c]
           /\ h.right[c] = IF c = Base THEN new ELSE IF c = new THEN temp ELSE node.right[c]
  <2>1. CASE temp = NULL
    <3>1. LinkStores(new) = <<StoreTo("right", Base, new), StoreTo("left", new, Base)>>
      BY <2>1 DEF LinkStores
    <3>2. h = Store(Store(node, StoreTo("right", Base, new)), StoreTo("left", new, Base))
      BY <1>2, <3>1, AfterTwo
    <3>3. Store(node, StoreTo("right", Base, new)) \in Pointers
      BY <1>2, StoreType
    <3>4. h \in Pointers
      BY <1>2, <3>2, <3>3, StoreType
    <3>5. \A c \in Object : /\ h.left[c] = IF c = new THEN Base ELSE node.left[c]
                            /\ h.right[c] = IF c = Base THEN new ELSE node.right[c]
      BY <1>1, <1>2, <3>2, <3>3 DEF Store, StoreTo, Pointers
    <3>6. \A c \in Object : c # temp
      BY <2>1, TableAssumption DEF Object
    <3> HIDE DEF h
    <3>7. QED BY <1>1, <1>2, <2>1, <3>1, <3>4, <3>5, <3>6
  <2>2. CASE temp # NULL
    <3> DEFINE a == StoreTo("right", Base, new)
               b == StoreTo("left", new, Base)
               c3 == StoreTo("right", new, temp)
               d == StoreTo("left", temp, new)
    <3>1. LinkStores(new) = <<a, b, c3, d>>
      BY <2>2 DEF LinkStores
    <3>2. h = Store(Store(Store(Store(node, a), b), c3), d)
      BY <1>2, <2>2, <3>1, AfterFour
    <3>3. Store(node, a) \in Pointers
      BY <1>2, StoreType
    <3>4. Store(Store(node, a), b) \in Pointers
      BY <1>2, <3>3, StoreType
    <3>5. Store(Store(Store(node, a), b), c3) \in Pointers
      BY <1>2, <3>4, StoreType
    <3>6. h \in Pointers
      BY <1>2, <2>2, <3>2, <3>5, StoreType
    <3>7. \A c \in Object :
             /\ h.left[c] = IF c = new THEN Base ELSE IF c = temp THEN new ELSE node.left[c]
             /\ h.right[c] = IF c = Base THEN new ELSE IF c = new THEN temp ELSE node.right[c]
      BY <1>1, <1>2, <2>2, <3>2, <3>3, <3>4, <3>5 DEF Store, StoreTo, Pointers
    <3>8. QED BY <1>2, <2>2, <3>1, <3>6, <3>7
  <2>3. QED BY <2>1, <2>2
<1>4. DoublyLinked(h)
  <2> HIDE DEF h
  <2>1. h.left[Base] = NULL
    BY <1>1, <1>3, TableAssumption DEF DoublyLinked
  <2>2. \A c \in Object : h.right[c] # NULL => h.left[h.right[c]] = c
    <3> SUFFICES ASSUME NEW c \in Object, h.right[c] # NULL PROVE h.left[h.right[c]] = c
      OBVIOUS
    <3>1. CASE c = Base
      BY <1>1, <1>3, <3>1
    <3>2. CASE c = new
      BY <1>1, <1>3, <3>2 DEF Object
    <3>3. CASE c # Base /\ c # new
      <4>1. /\ h.right[c] = node.right[c] /\ node.right[c] \in Cell
            /\ node.left[node.right[c]] = c
        BY <1>3, <3>3 DEF DoublyLinked, Pointers
      <4>2. node.right[c] # new /\ node.right[c] # temp
        BY <1>1, <3>3, <4>1, TableAssumption DEF DoublyLinked, Object
      <4>3. QED BY <1>3, <4>1, <4>2 DEF Object
    <3>4. QED BY <3>1, <3>2, <3>3
  <2>3. \A c \in Cell : h.left[c] # NULL => h.right[h.left[c]] = c
    <3> SUFFICES ASSUME NEW c \in Cell, h.left[c] # NULL PROVE h.right[h.left[c]] = c
      OBVIOUS
    <3>1. CASE c = new
      BY <1>1, <1>3, <3>1
    <3>2. CASE c = temp /\ c # new
      BY <1>1, <1>3, <3>2 DEF Object
    <3>3. CASE c # new /\ c # temp
      <4>1. /\ h.left[c] = node.left[c] /\ node.left[c] \in Object
            /\ node.right[node.left[c]] = c
        BY <1>3, <3>3 DEF DoublyLinked, Pointers, Object
      <4>2. node.left[c] # Base /\ node.left[c] # new
        BY <1>1, <3>3, <4>1, TableAssumption
      <4>3. QED BY <1>3, <4>1, <4>2
    <3>4. QED BY <3>1, <3>2, <3>3
  <2>4. \A c \in Cell : h.right[c] # NULL => h.left[c] # NULL
    BY <1>1, <1>3, TableAssumption DEF DoublyLinked, Object
  <2>5. QED BY <2>1, <2>2, <2>3, <2>4 DEF DoublyLinked
<1>5. Listed(h) = Listed(node) \cup {new}
  <2> HIDE DEF h
  <2>1. temp # NULL => node.left[temp] = Base
    BY <1>1 DEF DoublyLinked
  <2>2. QED BY <1>1, <1>3, <2>1, TableAssumption DEF Listed, Object
<1>6. QED BY <1>3, <1>4, <1>5

(* The new block can be ranked before all others.                          *)
LEMMA LinkingRises ==
  ASSUME node \in Pointers, DoublyLinked(node), NEW new \in Cell \ Listed(node),
         Ranked(node, <<>>)
  PROVE  Ranked(node, LinkStores(new))
<1> DEFINE temp == node.right[Base]
<1>1. /\ Base \in Object /\ new \in Object /\ new # NULL /\ new # Base /\ Base \notin Cell
      /\ temp \in Cell \cup {NULL} /\ node.left[new] = NULL /\ node.right[new] = NULL
      /\ temp # new
  BY TableAssumption DEF Object, Pointers, Listed, DoublyLinked
<1>2. PICK rank \in [Cell -> Nat] : Rises(rank, node, <<>>)
  BY DEF Ranked
<1> DEFINE up == [c \in Cell |-> IF c = new THEN 0 ELSE rank[c] + 1]
<1>3. up \in [Cell -> Nat]
  OBVIOUS
<1>4. \A c \in Cell : node.right[c] # NULL => up[c] < up[node.right[c]]
  <2> SUFFICES ASSUME NEW c \in Cell, node.right[c] # NULL PROVE up[c] < up[node.right[c]]
    OBVIOUS
  <2>1. node.right[c] \in Cell /\ c # new /\ node.right[c] # new
    BY <1>1, TableAssumption DEF Pointers, Object, DoublyLinked
  <2>2. rank[c] < rank[node.right[c]] /\ rank[c] \in Nat /\ rank[node.right[c]] \in Nat
    BY <1>2, <2>1 DEF Rises
  <2>3. QED BY <2>1, <2>2
<1>5. \A k \in 1..Len(LinkStores(new)) :
        LinkStores(new)[k].field = "right" /\ LinkStores(new)[k].of \in Cell
          => LinkStores(new)[k] = StoreTo("right", new, temp) /\ temp # NULL
  <2>1. CASE temp = NULL
    <3>1. LinkStores(new) = <<StoreTo("right", Base, new), StoreTo("left", new, Base)>>
      BY <2>1 DEF LinkStores
    <3>2. QED BY <1>1, <3>1 DEF StoreTo
  <2>2. CASE temp # NULL
    <3>1. LinkStores(new) = <<StoreTo("right", Base, new), StoreTo("left", new, Base),
                              StoreTo("right", new, temp), StoreTo("left", temp, new)>>
      BY <2>2 DEF LinkStores
    <3>2. QED BY <1>1, <2>2, <3>1 DEF StoreTo
  <2>3. QED BY <2>1, <2>2
<1>6. temp # NULL => up[new] < up[temp]
  BY <1>1
<1> HIDE DEF up
<1>7. \A k \in 1..Len(LinkStores(new)) :
        LinkStores(new)[k].field = "right" /\ LinkStores(new)[k].of \in Cell
          => up[LinkStores(new)[k].of] < up[LinkStores(new)[k].to]
  BY <1>5, <1>6 DEF StoreTo
<1>8. Rises(up, node, LinkStores(new))
  BY <1>4, <1>7 DEF Rises
<1>9. QED BY <1>3, <1>8 DEF Ranked

(* remove_doubly_linkedlist takes a block out of the list, which stays     *)
(* well linked.                                                            *)
LEMMA Unlinking ==
  ASSUME node \in Pointers, DoublyLinked(node), NEW old \in Listed(node), Ranked(node, <<>>)
  PROVE  /\ UnlinkStores(old) \in Seq(Stores)
         /\ DoublyLinked(After(node, UnlinkStores(old)))
         /\ Listed(After(node, UnlinkStores(old))) = Listed(node) \ {old}
<1> DEFINE l == node.left[old]
           r == node.right[old]
           h == After(node, UnlinkStores(old))
<1>1. /\ Base \in Object /\ old \in Cell /\ old \in Object /\ old # NULL /\ old # Base
      /\ l \in Object /\ l # NULL /\ r \in Cell \cup {NULL}
      /\ node.right[l] = old /\ (r # NULL => node.left[r] = old)
  BY TableAssumption DEF Object, Pointers, Listed, DoublyLinked
<1>2. r # old /\ l # old /\ (r # NULL => r # l)
  <2>1. PICK rank \in [Cell -> Nat] : Rises(rank, node, <<>>)
    BY DEF Ranked
  <2>2. \A c \in Cell : node.right[c] # NULL => rank[c] < rank[node.right[c]] /\ rank[c] \in Nat
    BY <2>1 DEF Rises
  <2>3. \A c \in Cell : rank[c] \in Nat
    OBVIOUS
  <2>4. r # old
    BY <1>1, <2>2
  <2>5. l # old
    BY <1>1, <2>2
  <2>6. r # NULL => r # l
    <3> SUFFICES ASSUME r # NULL, r = l PROVE FALSE
      OBVIOUS
    <3>1. rank[old] < rank[r] /\ rank[r] < rank[old]
      BY <1>1, <2>2
    <3>2. QED BY <1>1, <2>3, <3>1
  <2>7. QED BY <2>4, <2>5, <2>6
<1>3. /\ StoreTo("right", l, r) \in Stores /\ StoreTo("left", old, NULL) \in Stores
      /\ StoreTo("right", old, NULL) \in Stores
      /\ r # NULL => StoreTo("left", r, l) \in Stores
  BY <1>1 DEF StoreTo, Stores, Object
<1>4. /\ UnlinkStores(old) \in Seq(Stores) /\ h \in Pointers
      /\ \A c \in Object :
           /\ h.left[c] = IF c = old THEN NULL ELSE IF c = r THEN l ELSE node.left[c]
           /\ h.right[c] = IF c = old THEN NULL ELSE IF c = l THEN r ELSE node.right[c]
  <2>1. CASE r = NULL
    <3>1. UnlinkStores(old) = <<StoreTo("right", l, r), StoreTo("left", old, NULL)>>
      BY <2>1 DEF UnlinkStores
    <3>2. h = Store(Store(node, StoreTo("right", l, r)), StoreTo("left", old, NULL))
      BY <1>3, <3>1, AfterTwo
    <3>3. Store(node, StoreTo("right", l, r)) \in Pointers
      BY <1>3, StoreType
    <3>4. h \in Pointers
      BY <1>3, <3>2, <3>3, StoreType
    <3>5. \A c \in Object : /\ h.left[c] = IF c = old THEN NULL ELSE node.left[c]
                            /\ h.right[c] = IF c = l THEN r ELSE node.right[c]
      BY <1>1, <1>3, <3>2, <3>3 DEF Store, StoreTo, Pointers
    <3>6. \A c \in Object : c # r
      BY <2>1, TableAssumption DEF Object
    <3> HIDE DEF h
    <3>7. QED BY <1>1, <1>2, <1>3, <2>1, <3>1, <3>4, <3>5, <3>6
  <2>2. CASE r # NULL
    <3> DEFINE a == StoreTo("right", l, r)
               b == StoreTo("left", r, l)
               c3 == StoreTo("left", old, NULL)
               d == StoreTo("right", old, NULL)
    <3>1. UnlinkStores(old) = <<a, b, c3, d>>
      BY <2>2 DEF UnlinkStores
    <3>2. h = Store(Store(Store(Store(node, a), b), c3), d)
      BY <1>3, <2>2, <3>1, AfterFour
    <3>3. Store(node, a) \in Pointers
      BY <1>3, StoreType
    <3>4. Store(Store(node, a), b) \in Pointers
      BY <1>3, <2>2, <3>3, StoreType
    <3>5. Store(Store(Store(node, a), b), c3) \in Pointers
      BY <1>3, <3>4, StoreType
    <3>6. h \in Pointers
      BY <1>3, <3>2, <3>5, StoreType
    <3>7. \A c \in Object :
             /\ h.left[c] = IF c = old THEN NULL ELSE IF c = r THEN l ELSE node.left[c]
             /\ h.right[c] = IF c = old THEN NULL ELSE IF c = l THEN r ELSE node.right[c]
      BY <1>1, <1>2, <1>3, <2>2, <3>2, <3>3, <3>4, <3>5 DEF Store, StoreTo, Pointers
    <3>8. QED BY <1>3, <2>2, <3>1, <3>6, <3>7
  <2>3. QED BY <2>1, <2>2
<1>5. DoublyLinked(h)
  <2> HIDE DEF h
  <2>1. h.left[Base] = NULL
    BY <1>1, <1>4, TableAssumption DEF DoublyLinked
  <2>2. \A c \in Object : h.right[c] # NULL => h.left[h.right[c]] = c
    <3> SUFFICES ASSUME NEW c \in Object, h.right[c] # NULL PROVE h.left[h.right[c]] = c
      OBVIOUS
    <3>1. c # old
      BY <1>4
    <3>2. CASE c = l
      BY <1>1, <1>2, <1>4, <3>1, <3>2 DEF Object
    <3>3. CASE c # l
      <4>1. /\ h.right[c] = node.right[c] /\ node.right[c] \in Cell
            /\ node.left[node.right[c]] = c
        BY <1>4, <3>1, <3>3 DEF DoublyLinked, Pointers
      <4>2. node.right[c] # old /\ node.right[c] # r
        BY <1>1, <3>1, <3>3, <4>1
      <4>3. QED BY <1>4, <4>1, <4>2 DEF Object
    <3>4. QED BY <3>2, <3>3
  <2>3. \A c \in Cell : h.left[c] # NULL => h.right[h.left[c]] = c
    <3> SUFFICES ASSUME NEW c \in Cell, h.left[c] # NULL PROVE h.right[h.left[c]] = c
      OBVIOUS
    <3>1. c # old /\ c \in Object
      BY <1>1, <1>4 DEF Object
    <3>2. CASE c = r
      BY <1>1, <1>2, <1>4, <3>1, <3>2
    <3>3. CASE c # r
      <4>1. /\ h.left[c] = node.left[c] /\ node.left[c] \in Object
            /\ node.right[node.left[c]] = c
        BY <1>4, <3>1, <3>3 DEF DoublyLinked, Pointers
      <4>2. node.left[c] # old /\ node.left[c] # l
        BY <1>1, <3>1, <3>3, <4>1
      <4>3. QED BY <1>4, <4>1, <4>2
    <3>4. QED BY <3>2, <3>3
  <2>4. \A c \in Cell : h.right[c] # NULL => h.left[c] # NULL
    <3> SUFFICES ASSUME NEW c \in Cell, h.right[c] # NULL PROVE h.left[c] # NULL
      OBVIOUS
    <3>1. c # old /\ c \in Object
      BY <1>4 DEF Object
    <3>2. c = l => node.left[c] # NULL
      BY <1>1 DEF DoublyLinked
    <3>3. c # l => node.left[c] # NULL
      BY <1>4, <3>1 DEF DoublyLinked
    <3>4. QED BY <1>1, <1>4, <3>1, <3>2, <3>3
  <2>5. QED BY <2>1, <2>2, <2>3, <2>4 DEF DoublyLinked
<1>6. Listed(h) = Listed(node) \ {old}
  <2> HIDE DEF h
  <2>1. \A c \in Cell : h.left[c] # NULL <=> node.left[c] # NULL /\ c # old
    <3> SUFFICES ASSUME NEW c \in Cell
                 PROVE  h.left[c] # NULL <=> node.left[c] # NULL /\ c # old
      OBVIOUS
    <3>1. c = r => node.left[c] # NULL /\ c # old
      BY <1>1, <1>2, TableAssumption
    <3>2. h.left[c] = IF c = old THEN NULL ELSE IF c = r THEN l ELSE node.left[c]
      BY <1>4 DEF Object
    <3>3. QED BY <1>1, <3>1, <3>2
  <2>2. QED BY <2>1 DEF Listed
<1>7. QED BY <1>4, <1>5, <1>6

(* Its only new right pointer passes the block that is taken out.          *)
LEMMA UnlinkingRises ==
  ASSUME node \in Pointers, DoublyLinked(node), NEW old \in Listed(node), Ranked(node, <<>>)
  PROVE  Ranked(node, UnlinkStores(old))
<1> DEFINE l == node.left[old]
           r == node.right[old]
<1>1. /\ old \in Cell /\ old # NULL /\ l \in Object /\ r \in Cell \cup {NULL}
      /\ node.right[l] = old
  BY TableAssumption DEF Object, Pointers, Listed, DoublyLinked
<1>2. PICK rank \in [Cell -> Nat] : Rises(rank, node, <<>>)
  BY DEF Ranked
<1>3. l \in Cell /\ r # NULL => rank[l] < rank[r]
  <2> SUFFICES ASSUME l \in Cell, r # NULL PROVE rank[l] < rank[r]
    OBVIOUS
  <2>1. rank[l] < rank[old] /\ rank[old] < rank[r]
    BY <1>1, <1>2 DEF Rises
  <2>2. rank[l] \in Nat /\ rank[old] \in Nat /\ rank[r] \in Nat
    BY <1>1
  <2>3. QED BY <2>1, <2>2
<1>4. \A k \in 1..Len(UnlinkStores(old)) :
        UnlinkStores(old)[k].field = "right" /\ UnlinkStores(old)[k].to # NULL
          => UnlinkStores(old)[k] = StoreTo("right", l, r)
  <2>1. CASE r = NULL
    <3>1. UnlinkStores(old) = <<StoreTo("right", l, NULL), StoreTo("left", old, NULL)>>
      BY <2>1 DEF UnlinkStores
    <3>2. QED BY <3>1 DEF StoreTo
  <2>2. CASE r # NULL
    <3>1. UnlinkStores(old) = <<StoreTo("right", l, r), StoreTo("left", r, l),
                                StoreTo("left", old, NULL), StoreTo("right", old, NULL)>>
      BY <2>2 DEF UnlinkStores
    <3>2. QED BY <3>1 DEF StoreTo
  <2>3. QED BY <2>1, <2>2
<1>5. QED BY <1>2, <1>3, <1>4 DEF Ranked, Rises, StoreTo
-----------------------------------------------------------------------------
(* What is listed is what a walk finds once the stores are done.           *)
LEMMA EntriesAreListed ==
  TypeOK /\ DoublyLinked(Settling) /\ Ranked(node, todo) => Entries = InTable
<1> SUFFICES ASSUME TypeOK, DoublyLinked(Settling), Ranked(node, todo) PROVE Entries = InTable
  OBVIOUS
<1>1. node \in Pointers /\ todo \in Seq(Stores)
  BY DEF TypeOK
<1>2. PICK rank \in [Cell -> Nat] : Rises(rank, node, todo)
  BY DEF Ranked
<1> DEFINE h == After(node, todo)
<1>3. h \in Pointers /\ DoublyLinked(h)
  BY <1>1, AfterType DEF Settling
<1>4. \A c \in Cell : h.right[c] # NULL => rank[c] < rank[h.right[c]]
  BY <1>1, <1>2, RisesAfter
<1>5. Chain(h, Base) = Listed(h)
  <2> HIDE DEF h
  <2> QED BY <1>3, <1>4, ChainIsListed
<1>6. QED BY <1>5 DEF Entries, InTable, Settling

(* Between adds the pointers are all stored.                               *)
LEMMA NothingPending ==
  ASSUME TypeOK, todo = <<>>
  PROVE  Settling = node /\ InTable = Listed(node)
BY AfterNone DEF TypeOK, Settling, InTable

(* A look-up finds an entry with the key if there is one.                  *)
LEMMA HitCases ==
  ASSUME NEW entries \in SUBSET Cell, NEW k
  PROVE  \/ Hit(entries, k) = NULL /\ \A c \in entries : entry[c][1] # k
         \/ Hit(entries, k) \in entries /\ entry[Hit(entries, k)][1] = k
<1> DEFINE hits == {c \in entries : entry[c][1] = k}
<1>1. CASE hits = {}
  BY <1>1 DEF Hit
<1>2. CASE hits # {}
  <2>1. Hit(entries, k) = CHOOSE c \in hits : TRUE
    BY <1>2 DEF Hit
  <2>2. Hit(entries, k) \in hits
    <3>1. \E c : c \in hits
      BY <1>2
    <3> HIDE DEF hits
    <3>2. QED BY <2>1, <3>1
  <2>3. QED BY <2>2
<1>3. QED BY <1>1, <1>2

(* At start-up the table is empty and nobody uses it.                      *)
LEMMA TableInvInit == Init => TableInv
<1> SUFFICES ASSUME Init PROVE TableInv
  OBVIOUS
<1>1. TypeOK
  <2>1. node \in Pointers
    BY DEF Init, Pointers
  <2>2. todo \in Seq(Stores)
    BY DEF Init
  <2>3. writer \in [at : {"idle", "lookup", "unlink", "link"},
                   new : Cell \cup {NULL}, old : Cell \cup {NULL}]
    BY DEF Init, Idle
  <2>4. QED BY <2>1, <2>2, <2>3 DEF Init, TypeOK
<1>2. todo = <<>> /\ Settling = node /\ InTable = Listed(node)
  BY <1>1, NothingPending DEF Init
<1>3. DoublyLinked(node) /\ Listed(node) = {}
  BY DEF Init, DoublyLinked, Listed, Object
<1>4. Ranked(node, <<>>)
  <2>1. [c \in Cell |-> 0] \in [Cell -> Nat]
    OBVIOUS
  <2>2. Rises([c \in Cell |-> 0], node, <<>>)
    BY DEF Rises, Init, Object
  <2>3. QED BY <2>1, <2>2 DEF Ranked
<1>5. WriterInPlace /\ Allocated /\ KeysDistinct
  BY <1>2, <1>3 DEF WriterInPlace, Allocated, KeysDistinct, Init, Idle
<1>6. ReaderInPlace /\ WalkOnTrack
  BY DEF ReaderInPlace, WalkOnTrack, Init
<1>7. QED BY <1>1, <1>2, <1>3, <1>4, <1>5, <1>6 DEF TableInv

(* The receiver thread disturbs a walk that is under way, which then has   *)
(* nothing to keep.                                                        *)
LEMMA WriterDisturbs ==
  ASSUME TableInv, raced' = TRUE, UNCHANGED reader
  PROVE  ReaderInPlace' /\ WalkOnTrack'
BY DEF TableInv, ReaderInPlace, WalkOnTrack

(* calloc takes a block that is not in the list, with null pointers.       *)
LEMMA AllocateKeeps ==
  ASSUME TableInv, NEW k \in Key, NEW v \in Value, Allocate(k, v)
  PROVE  TableInv' /\ InTable' = InTable
<1> USE DEF TableInv
<1>1. PICK new \in Cell :
        /\ entry[new] = Free
        /\ node' = [left  |-> [node.left EXCEPT ![new] = NULL],
                    right |-> [node.right EXCEPT ![new] = NULL]]
        /\ entry' = [entry EXCEPT ![new] = <<k, v>>]
        /\ writer' = [at |-> "lookup", new |-> new, old |-> NULL]
  BY DEF Allocate
<1>2. writer = Idle /\ todo = <<>> /\ UNCHANGED <<todo, reader>> /\ raced' = TRUE
  BY DEF Allocate, WriterInPlace, Idle
<1>3. TypeOK'
  BY <1>1, <1>2 DEF TypeOK, Pointers, Object
<1>4. Settling = node /\ InTable = Listed(node)
  BY <1>2, NothingPending
<1>5. node' \in Pointers
  BY <1>3 DEF TypeOK
<1>6. Settling' = node' /\ InTable' = Listed(node')
  BY <1>2, <1>5, AfterNone DEF Settling, InTable
<1>7. new \notin Listed(node) /\ node.left[new] = NULL /\ node.right[new] = NULL
  <2>1. new \notin Listed(node)
    BY <1>1, <1>4 DEF Allocated
  <2>2. node.left[new] = NULL
    BY <2>1 DEF Listed
  <2>3. QED BY <1>4, <2>1, <2>2 DEF DoublyLinked
<1>8. node' = node
  <2>1. \A c \in Object : node'.left[c] = node.left[c] /\ node'.right[c] = node.right[c]
    BY <1>1, <1>7 DEF TypeOK, Pointers, Object
  <2>2. QED BY <1>5, <2>1, SamePointers DEF TypeOK
<1>9. InTable' = InTable /\ DoublyLinked(Settling)' /\ Ranked(node, todo)'
  BY <1>2, <1>4, <1>6, <1>8
<1>10. WriterInPlace'
  BY <1>1, <1>2, <1>4, <1>7, <1>9 DEF WriterInPlace
<1>11. \A c \in Cell : entry'[c] # Free <=> c = new \/ entry[c] # Free
  BY <1>1, TableAssumption DEF TypeOK
<1>12. Allocated'
  BY <1>1, <1>2, <1>9, <1>11, TableAssumption DEF Allocated, Idle
<1>13. KeysDistinct'
  <2>1. \A c \in InTable : entry'[c] = entry[c]
    BY <1>1, <1>4, <1>7 DEF TypeOK, Listed
  <2>2. QED BY <1>9, <2>1 DEF KeysDistinct
<1>14. QED BY <1>2, <1>3, <1>9, <1>10, <1>12, <1>13, WriterDisturbs

(* What Add finds: nothing is pending, the new block is not listed yet.    *)
LEMMA AtLookup ==
  ASSUME TableInv, writer.at = "lookup"
  PROVE  /\ todo = <<>> /\ node \in Pointers /\ DoublyLinked(node) /\ Ranked(node, <<>>)
         /\ Settling = node /\ InTable = Listed(node) /\ Entries = InTable
         /\ writer.new \in Cell \ Listed(node) /\ writer.old = NULL
         /\ entry[writer.new] \in Key \X Value
<1> USE DEF TableInv
<1>1. todo = <<>> /\ writer.new \in Cell \ InTable /\ writer.old = NULL
  BY DEF WriterInPlace
<1>2. Settling = node /\ InTable = Listed(node)
  BY <1>1, NothingPending
<1>3. entry[writer.new] # Free
  BY <1>1, TableAssumption DEF Allocated
<1>4. QED BY <1>1, <1>2, <1>3, EntriesAreListed DEF TypeOK

(* The new entry is put into the list when no entry there has its key.     *)
LEMMA LinkingKeeps ==
  ASSUME TableInv, NEW new \in Cell \ InTable, todo = <<>>,
         \A c \in Cell : entry'[c] # Free <=> c \in InTable \cup {new},
         \A c \in InTable \cup {new} : entry'[c] = entry[c],
         \A c \in InTable : entry[c][1] # entry[new][1],
         entry' \in [Cell -> (Key \X Value) \cup {Free}],
         writer' = [at |-> "link", new |-> new, old |-> NULL], todo' = LinkStores(new),
         raced' = TRUE, UNCHANGED <<node, reader>>
  PROVE  TableInv' /\ InTable' = InTable \cup {new}
<1> USE DEF TableInv
<1>1. /\ Settling = node /\ InTable = Listed(node) /\ node \in Pointers
      /\ DoublyLinked(node) /\ Ranked(node, <<>>)
  BY NothingPending DEF TypeOK
<1>2. /\ todo' \in Seq(Stores) /\ DoublyLinked(Settling)'
      /\ InTable' = InTable \cup {new}
  <2>1. Settling' = After(node, LinkStores(new)) /\ InTable' = Listed(After(node, LinkStores(new)))
    BY DEF Settling, InTable
  <2>2. QED BY <1>1, <2>1, Linking
<1>3. Ranked(node, todo)'
  BY <1>1, LinkingRises
<1>4. TypeOK'
  BY <1>2 DEF TypeOK
<1>5. WriterInPlace'
  BY <1>2 DEF WriterInPlace
<1>6. Allocated'
  BY <1>2 DEF Allocated
<1>7. KeysDistinct'
  BY <1>2 DEF KeysDistinct
<1>8. QED BY <1>2, <1>3, <1>4, <1>5, <1>6, <1>7, WriterDisturbs

(* The old entry is taken out of the list when the new one has its key.    *)
LEMMA UnlinkingKeeps ==
  ASSUME TableInv, writer.at = "lookup", NEW old \in InTable,
         entry[old][1] = entry[writer.new][1],
         writer' = [at |-> "unlink", new |-> writer.new, old |-> old], todo' = UnlinkStores(old),
         raced' = TRUE, UNCHANGED <<node, entry, reader>>
  PROVE  TableInv' /\ InTable' = InTable \ {old}
<1> USE DEF TableInv
<1>1. /\ Settling = node /\ InTable = Listed(node) /\ node \in Pointers
      /\ DoublyLinked(node) /\ Ranked(node, <<>>)
      /\ writer.new \in Cell \ InTable /\ writer.old = NULL
  BY AtLookup
<1>2. /\ todo' \in Seq(Stores) /\ DoublyLinked(Settling)'
      /\ InTable' = InTable \ {old}
  <2>1. Settling' = After(node, UnlinkStores(old)) /\ InTable' = Listed(After(node, UnlinkStores(old)))
    BY DEF Settling, InTable
  <2>2. QED BY <1>1, <2>1, Unlinking
<1>3. Ranked(node, todo)'
  BY <1>1, UnlinkingRises
<1>4. old \in Cell /\ InTable \subseteq Cell
  BY DEF InTable, Listed
<1>5. TypeOK'
  BY <1>1, <1>2, <1>4 DEF TypeOK
<1>6. WriterInPlace'
  BY <1>1, <1>2, <1>4 DEF WriterInPlace, KeysDistinct
<1>7. Allocated'
  BY <1>1, <1>2, <1>4, TableAssumption DEF Allocated
<1>8. KeysDistinct'
  BY <1>2 DEF KeysDistinct
<1>9. QED BY <1>2, <1>3, <1>5, <1>6, <1>7, <1>8, WriterDisturbs

(* Add either links, frees an entry that is there already, or unlinks.     *)
LEMMA AddCases ==
  ASSUME TableInv, Add
  PROVE  \/ /\ \A c \in InTable : entry[c][1] # entry[writer.new][1]
            /\ writer' = [at |-> "link", new |-> writer.new, old |-> NULL]
            /\ todo' = LinkStores(writer.new) /\ UNCHANGED entry
         \/ /\ entry' = [entry EXCEPT ![writer.new] = Free] /\ writer' = Idle /\ UNCHANGED todo
            /\ \E old \in InTable : entry[old] = entry[writer.new]
         \/ \E old \in InTable :
              /\ entry[old][1] = entry[writer.new][1]
              /\ writer' = [at |-> "unlink", new |-> writer.new, old |-> old]
              /\ todo' = UnlinkStores(old) /\ UNCHANGED entry
<1> DEFINE new == writer.new
           old == lookup(entry[new][1])
<1>1. /\ Entries = InTable /\ InTable \subseteq Cell /\ writer.old = NULL
      /\ writer \in [at : {"idle", "lookup", "unlink", "link"},
                     new : Cell \cup {NULL}, old : Cell \cup {NULL}]
  BY AtLookup DEF Add, InTable, Listed, TableInv, TypeOK
<1>2. \/ old = NULL /\ \A c \in InTable : entry[c][1] # entry[new][1]
      \/ old \in InTable /\ entry[old][1] = entry[new][1]
  BY <1>1, HitCases DEF lookup
<1>3. old \in InTable => old # NULL
  BY <1>1, TableAssumption
<1>4. \/ /\ old = NULL
         /\ writer' = [writer EXCEPT !.at = "link"] /\ todo' = LinkStores(new) /\ UNCHANGED entry
      \/ /\ old # NULL /\ entry[old] = entry[new]
         /\ entry' = [entry EXCEPT ![new] = Free] /\ writer' = Idle /\ UNCHANGED todo
      \/ /\ old # NULL
         /\ writer' = [at |-> "unlink", new |-> new, old |-> old] /\ todo' = UnlinkStores(old)
         /\ UNCHANGED entry
  BY DEF Add
<1> HIDE DEF old
<1>5. [writer EXCEPT !.at = "link"] = [at |-> "link", new |-> new, old |-> NULL]
  BY <1>1
<1>6. QED BY <1>2, <1>3, <1>4, <1>5

(* The invariant is kept, and what is listed changes by one entry at most. *)
LEMMA AddKeeps ==
  ASSUME TableInv, Add
  PROVE  /\ TableInv' /\ writer # Idle /\ writer.new \in Cell \ InTable
         /\ entry[writer.new] \in Key \X Value
         /\ \/ /\ writer' # Idle /\ writer'.new = writer.new /\ UNCHANGED entry
               /\ InTable' = InTable \cup {writer.new}
            \/ /\ writer' # Idle /\ writer'.new = writer.new /\ UNCHANGED entry
               /\ \E old \in InTable : /\ entry[old][1] = entry[writer.new][1]
                                       /\ InTable' = InTable \ {old}
            \/ /\ writer' = Idle /\ InTable' = InTable
               /\ entry' = [entry EXCEPT ![writer.new] = Free]
               /\ \E old \in InTable : entry[old] = entry[writer.new]
<1>1. /\ todo = <<>> /\ writer.new \in Cell \ InTable /\ writer.old = NULL
      /\ raced' = TRUE /\ UNCHANGED <<node, reader>> /\ writer.at = "lookup"
      /\ entry[writer.new] \in Key \X Value
      /\ \A c \in Cell : entry[c] # Free <=> c \in InTable \cup {writer.new}
      /\ InTable \subseteq Cell /\ entry \in [Cell -> (Key \X Value) \cup {Free}]
  BY AtLookup, TableAssumption DEF Add, TableInv, Allocated, InTable, Listed, TypeOK
<1>2. CASE /\ \A c \in InTable : entry[c][1] # entry[writer.new][1]
           /\ writer' = [at |-> "link", new |-> writer.new, old |-> NULL]
           /\ todo' = LinkStores(writer.new) /\ UNCHANGED entry
  <2>1. TableInv' /\ InTable' = InTable \cup {writer.new}
    BY <1>1, <1>2, LinkingKeeps
  <2>2. writer # Idle /\ writer' # Idle /\ writer'.new = writer.new
    BY <1>1, <1>2 DEF Idle
  <2>3. QED BY <1>1, <1>2, <2>1, <2>2
<1>3. CASE /\ entry' = [entry EXCEPT ![writer.new] = Free] /\ writer' = Idle /\ UNCHANGED todo
           /\ \E old \in InTable : entry[old] = entry[writer.new]
  <2>1. UNCHANGED <<Settling, InTable>>
    BY <1>1, <1>3 DEF Settling, InTable
  <2>2. TypeOK'
    BY <1>1, <1>3 DEF TableInv, TypeOK, Idle
  <2>3. DoublyLinked(Settling)' /\ Ranked(node, todo)'
    BY <1>1, <1>3, <2>1 DEF TableInv
  <2>4. WriterInPlace'
    BY <1>1, <1>3 DEF WriterInPlace, Idle
  <2>5. Allocated'
    BY <1>1, <1>3, <2>1 DEF Allocated, Idle
  <2>6. KeysDistinct'
    BY <1>1, <1>3, <2>1 DEF TableInv, KeysDistinct
  <2>7. TableInv'
    BY <1>1, <2>2, <2>3, <2>4, <2>5, <2>6, WriterDisturbs DEF TableInv
  <2>8. writer # Idle
    BY <1>1 DEF Idle
  <2>9. QED BY <1>1, <1>3, <2>1, <2>7, <2>8
<1>4. CASE \E old \in InTable :
             /\ entry[old][1] = entry[writer.new][1]
             /\ writer' = [at |-> "unlink", new |-> writer.new, old |-> old]
             /\ todo' = UnlinkStores(old) /\ UNCHANGED entry
  <2>1. PICK old \in InTable :
             /\ entry[old][1] = entry[writer.new][1]
             /\ writer' = [at |-> "unlink", new |-> writer.new, old |-> old]
             /\ todo' = UnlinkStores(old) /\ UNCHANGED entry
    BY <1>4
  <2>2. TableInv' /\ InTable' = InTable \ {old}
    BY <1>1, <2>1, UnlinkingKeeps
  <2>3. writer # Idle /\ writer' # Idle /\ writer'.new = writer.new
    BY <1>1, <2>1 DEF Idle
  <2>4. QED BY <1>1, <2>1, <2>2, <2>3
<1>5. QED BY <1>2, <1>3, <1>4, AddCases

(* A store that is done is no longer pending.                              *)
LEMMA StoreOneKeeps ==
  ASSUME TableInv, StoreOne
  PROVE  TableInv' /\ UNCHANGED <<Settling, InTable>>
<1> USE DEF TableInv
<1>1. /\ todo # <<>> /\ node \in Pointers /\ todo \in Seq(Stores)
      /\ node' = Store(node, Head(todo)) /\ todo' = Tail(todo)
      /\ raced' = TRUE /\ UNCHANGED <<entry, writer, reader>>
  BY DEF StoreOne, TypeOK
<1>2. Head(todo) \in Stores /\ Tail(todo) \in Seq(Stores)
  BY <1>1, HeadTailProperties
<1>3. node' \in Pointers /\ todo' \in Seq(Stores)
  BY <1>1, <1>2, StoreType
<1>4. Settling' = Settling
  BY <1>1, AfterStep DEF Settling
<1>5. InTable' = InTable
  BY <1>4 DEF InTable
<1>6. Ranked(node, todo)'
  <2>1. PICK rank \in [Cell -> Nat] : Rises(rank, node, todo)
    BY DEF Ranked
  <2>2. Rises(rank, Store(node, Head(todo)), Tail(todo))
    BY <1>1, <2>1, RisesStep
  <2>3. QED BY <1>1, <2>2 DEF Ranked
<1>7. TypeOK'
  BY <1>1, <1>3 DEF TypeOK
<1>8. WriterInPlace'
  <2>1. writer.at # "idle" /\ writer.at # "lookup"
    BY <1>1 DEF WriterInPlace
  <2>2. QED BY <1>1, <1>5, <2>1 DEF WriterInPlace
<1>9. Allocated' /\ KeysDistinct' /\ DoublyLinked(Settling)'
  BY <1>1, <1>4, <1>5 DEF Allocated, KeysDistinct
<1>10. QED BY <1>1, <1>4, <1>5, <1>6, <1>7, <1>8, <1>9, WriterDisturbs

(* The old entry was unlinked before it is freed, so its key is free for   *)
(* the new one.                                                            *)
LEMMA FreeOldKeeps ==
  ASSUME TableInv, FreeOld
  PROVE  TableInv' /\ InTable' = InTable \cup {writer.new}
<1> USE DEF TableInv
<1>1. /\ writer.at = "unlink" /\ todo = <<>>
      /\ entry' = [entry EXCEPT ![writer.old] = Free]
      /\ writer' = [writer EXCEPT !.at = "link", !.old = NULL] /\ todo' = LinkStores(writer.new)
      /\ raced' = TRUE /\ UNCHANGED <<node, reader>>
  BY DEF FreeOld
<1>2. /\ writer.new \in Cell \ InTable /\ writer.old \in Cell \ InTable
      /\ writer.new # writer.old
      /\ \A c \in InTable : entry[c][1] # entry[writer.new][1]
      /\ InTable \subseteq Cell /\ entry \in [Cell -> (Key \X Value) \cup {Free}]
  BY <1>1 DEF WriterInPlace, InTable, Listed, TypeOK
<1>3. writer' = [at |-> "link", new |-> writer.new, old |-> NULL]
  BY <1>1 DEF TypeOK
<1>4. \A c \in Cell : entry[c] # Free <=> c \in InTable \cup {writer.new, writer.old}
  BY <1>2, TableAssumption DEF Allocated
<1>5. \A c \in Cell : entry'[c] # Free <=> c \in InTable \cup {writer.new}
  BY <1>1, <1>2, <1>4
<1>6. \A c \in InTable \cup {writer.new} : entry'[c] = entry[c]
  BY <1>1, <1>2
<1>7. entry' \in [Cell -> (Key \X Value) \cup {Free}]
  BY <1>1, <1>2
<1>8. QED BY <1>1, <1>2, <1>3, <1>5, <1>6, <1>7, LinkingKeeps

(* When the last store is done the new entry is a listed one.              *)
LEMMA AddedKeeps ==
  ASSUME TableInv, Added
  PROVE  TableInv' /\ UNCHANGED <<Settling, InTable>>
<1> USE DEF TableInv
<1>1. /\ writer.at = "link" /\ todo = <<>> /\ writer' = Idle
      /\ raced' = TRUE /\ UNCHANGED <<node, entry, todo, reader>>
  BY DEF Added
<1>2. UNCHANGED <<Settling, InTable>>
  BY <1>1 DEF Settling, InTable
<1>3. TypeOK'
  BY <1>1 DEF TypeOK, Idle
<1>4. WriterInPlace'
  BY <1>1 DEF WriterInPlace, Idle
<1>5. Allocated'
  <2>1. writer.new \in InTable /\ writer.old = NULL
    BY <1>1 DEF WriterInPlace
  <2>2. QED BY <1>1, <1>2, <2>1 DEF Allocated, Idle
<1>6. KeysDistinct' /\ DoublyLinked(Settling)' /\ Ranked(node, todo)'
  BY <1>1, <1>2 DEF KeysDistinct
<1>7. QED BY <1>1, <1>2, <1>3, <1>4, <1>5, <1>6, WriterDisturbs

(* The walk starts at the front with the whole table before it.            *)
LEMMA StartWalkKeeps ==
  ASSUME TableInv, StartWalk
  PROVE  TableInv'
<1> USE DEF TableInv
<1>1. /\ reader' = [at |-> "loop", current |-> node.right[Base], next |-> NULL]
      /\ printed' = {} /\ raced' = (writer # Idle)
      /\ UNCHANGED <<node, entry, writer, todo>>
  BY DEF StartWalk
<1>2. UNCHANGED <<Settling, InTable>>
  BY <1>1 DEF Settling, InTable
<1>3. node.right[Base] \in Cell \cup {NULL}
  BY DEF TypeOK, Pointers, Object
<1>4. TypeOK'
  BY <1>1, <1>3 DEF TypeOK
<1>5. WriterInPlace' /\ Allocated' /\ KeysDistinct' /\ DoublyLinked(Settling)' /\ Ranked(node, todo)'
  BY <1>1, <1>2 DEF WriterInPlace, Allocated, KeysDistinct
<1>6. ReaderInPlace'
  BY <1>1 DEF ReaderInPlace
<1>7. WalkOnTrack'
  <2> SUFFICES ASSUME ~raced' PROVE WalkOnTrack'
    BY DEF WalkOnTrack
  <2>1. writer = Idle /\ todo = <<>>
    <3>1. writer = Idle
      BY <1>1
    <3>2. QED BY <3>1 DEF WriterInPlace, Idle
  <2>2. InTable = Chain(node, Base) /\ node \in Pointers
    BY <2>1, NothingPending, EntriesAreListed DEF TypeOK, Entries, Settling
  <2>3. InTable = Rest(node.right[Base])
    BY <2>2, ChainUnfolds DEF Rest, Object
  <2>4. node.right[Base] \in InTable \cup {NULL}
    BY <2>3 DEF Rest
  <2>5. UNCHANGED Rest(node.right[Base])
    BY <1>1 DEF Rest
  <2>6. Rest(reader.current)' = InTable
    BY <1>1, <2>3 DEF Rest
  <2>7. QED BY <1>1, <1>2, <2>1, <2>4, <2>6 DEF WalkOnTrack
<1>8. QED BY <1>4, <1>5, <1>6, <1>7

(* The reader takes the next pointer of an entry it has yet to print.      *)
LEMMA ReadNextKeeps ==
  ASSUME TableInv, ReadNext
  PROVE  TableInv'
<1> USE DEF TableInv
<1>1. /\ reader.at = "loop" /\ reader.current # NULL
      /\ reader' = [reader EXCEPT !.at = "print", !.next = node.right[reader.current]]
      /\ UNCHANGED <<node, entry, writer, todo, printed, raced>>
  BY DEF ReadNext
<1>2. UNCHANGED <<Settling, InTable>>
  BY <1>1 DEF Settling, InTable
<1>3. reader.current \in Cell /\ node.right[reader.current] \in Cell \cup {NULL}
  BY <1>1 DEF TypeOK, Pointers, Object
<1>4. TypeOK' /\ reader'.current = reader.current /\ reader'.next = node.right[reader.current]
  BY <1>1, <1>3 DEF TypeOK
<1>5. WriterInPlace' /\ Allocated' /\ KeysDistinct' /\ DoublyLinked(Settling)' /\ Ranked(node, todo)'
  BY <1>1, <1>2 DEF WriterInPlace, Allocated, KeysDistinct
<1>6. ReaderInPlace'
  BY <1>1, <1>4 DEF ReaderInPlace
<1>7. WalkOnTrack'
  <2>1. Rest(reader.current)' = Rest(reader.current)
    BY <1>1, <1>4 DEF Rest
  <2>2. QED BY <1>1, <1>2, <1>4, <2>1 DEF WalkOnTrack
<1>8. QED BY <1>4, <1>5, <1>6, <1>7

(* What is printed now was to be printed and is not any more.              *)
LEMMA PrintEntryKeeps ==
  ASSUME TableInv, PrintEntry
  PROVE  TableInv'
<1> USE DEF TableInv
<1> DEFINE c == reader.current
           n == reader.next
<1>1. /\ reader.at = "print" /\ printed' = printed \cup {entry[c]}
      /\ reader' = [at |-> "loop", current |-> n, next |-> NULL]
      /\ UNCHANGED <<node, entry, writer, todo, raced>>
  BY DEF PrintEntry
<1>2. UNCHANGED <<Settling, InTable>>
  BY <1>1 DEF Settling, InTable
<1>3. TypeOK'
  BY <1>1 DEF TypeOK
<1>4. WriterInPlace' /\ Allocated' /\ KeysDistinct' /\ DoublyLinked(Settling)' /\ Ranked(node, todo)'
  BY <1>1, <1>2 DEF WriterInPlace, Allocated, KeysDistinct
<1>5. ReaderInPlace'
  BY <1>1 DEF ReaderInPlace
<1>6. WalkOnTrack'
  <2> SUFFICES ASSUME ~raced PROVE WalkOnTrack'
    BY <1>1 DEF WalkOnTrack
  <2>1. /\ writer = Idle /\ todo = <<>> /\ n = node.right[c]
        /\ c \in InTable /\ c \in Cell /\ c \in Object /\ c # NULL
        /\ printed = {entry[d] : d \in InTable \ Rest(c)}
    BY <1>1 DEF WalkOnTrack, ReaderInPlace, WriterInPlace, Idle, InTable, Listed, Object
  <2>2. InTable = Listed(node) /\ node \in Pointers /\ DoublyLinked(node)
    BY <2>1, NothingPending DEF TypeOK
  <2>3. n \in InTable \cup {NULL}
    BY <2>1, <2>2, TableAssumption DEF Listed, DoublyLinked, Pointers, Object
  <2>4. Rest(c) = {c} \cup Rest(n)
    BY <2>1, <2>2, ChainUnfolds DEF Rest
  <2>5. c \notin Rest(n)
    <3>1. PICK rank \in [Cell -> Nat] : Rises(rank, node, todo)
      BY DEF Ranked
    <3>2. \A d \in Cell : node.right[d] # NULL => rank[d] < rank[node.right[d]]
      BY <3>1 DEF Rises
    <3>3. \A d \in Cell : d \notin Chain(node, d)
      BY <2>2, <3>2, NoCycle
    <3>4. Rest(n) = Chain(node, c)
      <4>1. Chain(node, c) = IF node.right[c] = NULL THEN {}
                             ELSE {node.right[c]} \cup Chain(node, node.right[c])
        BY <2>1, <2>2, ChainUnfolds
      <4>2. QED BY <2>1, <4>1 DEF Rest
    <3>5. QED BY <2>1, <3>3, <3>4
  <2>6. InTable \ Rest(n) = (InTable \ Rest(c)) \cup {c}
    BY <2>1, <2>4, <2>5
  <2>7. printed' = {entry[d] : d \in InTable \ Rest(n)}
    BY <1>1, <2>1, <2>6
  <2>8. Rest(reader.current)' = Rest(n)
    BY <1>1 DEF Rest
  <2>9. QED BY <1>1, <1>2, <2>1, <2>3, <2>7, <2>8 DEF WalkOnTrack
<1>7. QED BY <1>3, <1>4, <1>5, <1>6

(* A walk that is over asks for nothing more.                              *)
LEMMA EndWalkKeeps ==
  ASSUME TableInv, EndWalk
  PROVE  TableInv'
<1> USE DEF TableInv
<1>1. /\ reader' = [reader EXCEPT !.at = "idle"]
      /\ UNCHANGED <<node, entry, writer, todo, printed, raced>>
  BY DEF EndWalk
<1>2. UNCHANGED <<Settling, InTable>>
  BY <1>1 DEF Settling, InTable
<1>3. TypeOK' /\ reader'.at = "idle"
  BY <1>1 DEF TypeOK
<1>4. WriterInPlace' /\ Allocated' /\ KeysDistinct' /\ DoublyLinked(Settling)' /\ Ranked(node, todo)'
  BY <1>1, <1>2 DEF WriterInPlace, Allocated, KeysDistinct
<1>5. ReaderInPlace' /\ WalkOnTrack'
  BY <1>3 DEF ReaderInPlace, WalkOnTrack
<1>6. QED BY <1>3, <1>4, <1>5

(* Every step of either thread keeps the invariant.                        *)
LEMMA TableInvStep == TableInv /\ [Next]_vars => TableInv'
<1> SUFFICES ASSUME TableInv, [Next]_vars PROVE TableInv'
  OBVIOUS
<1>1. CASE UNCHANGED vars
  <2>1. UNCHANGED <<Settling, InTable>> /\ Rest(reader.current)' = Rest(reader.current)
    <3>1. UNCHANGED <<node, todo, reader>>
      BY <1>1 DEF vars
    <3>2. UNCHANGED <<Settling, InTable>>
      BY <3>1 DEF Settling, InTable
    <3>3. Rest(reader.current)' = Rest(reader.current)
      BY <3>1 DEF Rest
    <3>4. QED BY <3>2, <3>3
  <2>2. TypeOK'
    BY <1>1 DEF TableInv, TypeOK, vars
  <2>3. DoublyLinked(Settling)' /\ Ranked(node, todo)'
    BY <1>1, <2>1 DEF TableInv, vars
  <2>4. WriterInPlace' /\ Allocated' /\ KeysDistinct'
    BY <1>1, <2>1 DEF TableInv, vars, WriterInPlace, Allocated, KeysDistinct
  <2>5. ReaderInPlace' /\ WalkOnTrack'
    BY <1>1, <2>1 DEF TableInv, vars, ReaderInPlace, WalkOnTrack
  <2>6. QED BY <2>2, <2>3, <2>4, <2>5 DEF TableInv
<1>2. CASE ReceiverThread
  <2>1. ASSUME NEW k \in Key, NEW v \in Value, Allocate(k, v) PROVE TableInv'
    BY <2>1, AllocateKeeps
  <2>2. CASE Add
    BY <2>2, AddKeeps
  <2>3. CASE StoreOne
    BY <2>3, StoreOneKeeps
  <2>4. CASE FreeOld
    BY <2>4, FreeOldKeeps
  <2>5. CASE Added
    BY <2>5, AddedKeeps
  <2>6. QED BY <1>2, <2>1, <2>2, <2>3, <2>4, <2>5 DEF ReceiverThread
<1>3. CASE CliThread
  <2>1. CASE StartWalk
    BY <2>1, StartWalkKeeps
  <2>2. CASE ReadNext
    BY <2>2, ReadNextKeeps
  <2>3. CASE PrintEntry
    BY <2>3, PrintEntryKeeps
  <2>4. CASE EndWalk
    BY <2>4, EndWalkKeeps
  <2>5. QED BY <1>3, <2>1, <2>2, <2>3, <2>4 DEF CliThread
<1>4. QED BY <1>1, <1>2, <1>3 DEF Next

(* The invariant holds in every state that the two threads can reach.      *)
LEMMA TableInvariance == Spec => []TableInv
BY TableInvInit, TableInvStep, PTL DEF Spec
-----------------------------------------------------------------------------
(* arp_table_add_entry, mac_table_entry_add and their callers neither lose *)
(* an entry nor free one that is listed, whatever the number of entries.   *)
THEOREM NothingEverLeaks == Spec => []NothingLeaks
<1>1. TableInv => NothingLeaks
  <2> SUFFICES ASSUME TableInv PROVE NothingLeaks
    OBVIOUS
  <2>1. Entries = InTable
    BY EntriesAreListed DEF TableInv
  <2>2. InTable \cup ({writer.new, writer.old} \ {NULL}) \subseteq Cell
    BY DEF TableInv, TypeOK, InTable, Listed
  <2>3. QED BY <2>1, <2>2 DEF TableInv, Allocated, NothingLeaks
<1>2. QED BY <1>1, TableInvariance, PTL

(* Between any two pointer stores the right pointers have no cycle, also   *)
(* not through freed blocks that dump_mac_table may still hold.            *)
THEOREM WalksAlwaysEnd == Spec => []WalksEnd
<1>1. TableInv => WalksEnd
  <2> SUFFICES ASSUME TableInv, NEW c \in Cell PROVE c \notin Chain(node, c)
    BY DEF WalksEnd
  <2>1. PICK rank \in [Cell -> Nat] : Rises(rank, node, todo)
    BY DEF TableInv, Ranked
  <2>2. node \in Pointers
    BY DEF TableInv, TypeOK
  <2>3. QED BY <2>1, <2>2, NoCycle DEF Rises
<1>2. QED BY <1>1, TableInvariance, PTL

(* dump_arp_table and dump_mac_table print the whole table and nothing     *)
(* else when the receiver thread adds nothing meanwhile.                   *)
THEOREM UndisturbedWalksPrintTable == Spec => []UndisturbedWalkPrintsTable
<1>1. TableInv => UndisturbedWalkPrintsTable
  <2> SUFFICES ASSUME TableInv, WalkAtEnd, ~raced PROVE printed = {entry[c] : c \in Entries}
    BY DEF UndisturbedWalkPrintsTable
  <2>1. Entries = InTable
    BY EntriesAreListed DEF TableInv
  <2>2. printed = {entry[c] : c \in InTable \ Rest(NULL)}
    <3>1. reader.at # "idle" /\ reader.current = NULL
      BY DEF WalkAtEnd
    <3>2. QED BY <3>1 DEF TableInv, WalkOnTrack
  <2>3. InTable \ Rest(NULL) = InTable
    BY DEF Rest
  <2>4. QED BY <2>1, <2>2, <2>3
<1>2. QED BY <1>1, TableInvariance, PTL
-----------------------------------------------------------------------------
(* The table the receiver thread sees, key by key: the value being added,  *)
(* else what is listed, else nothing.                                      *)
Adding(k) == writer # Idle /\ entry[writer.new][1] = k

TableHolds ==
  /\ Table = [k \in Key |-> Table[k]]
  /\ \A k \in Key :
       /\ Adding(k) => Table[k] = entry[writer.new][2]
       /\ ~Adding(k) =>
            /\ \A c \in InTable : entry[c][1] = k => Table[k] = entry[c][2]
            /\ (\A c \in InTable : entry[c][1] # k) => Table[k] = Free

(* The invariant makes the table a function of the keys.                   *)
LEMMA TableIsHeld == TableInv => TableHolds
<1> SUFFICES ASSUME TableInv PROVE TableHolds
  OBVIOUS
<1>1. Entries = InTable /\ InTable \subseteq Cell
  BY EntriesAreListed DEF TableInv, InTable, Listed
<1>2. Table = [k \in Key |-> Table[k]]
  BY DEF Table
<1> SUFFICES ASSUME NEW k \in Key
             PROVE  /\ Adding(k) => Table[k] = entry[writer.new][2]
                    /\ ~Adding(k) =>
                         /\ \A c \in InTable : entry[c][1] = k => Table[k] = entry[c][2]
                         /\ (\A c \in InTable : entry[c][1] # k) => Table[k] = Free
  BY <1>2 DEF TableHolds
<1> DEFINE old == Hit(InTable, k)
<1>3. Table[k] = IF Adding(k) THEN entry[writer.new][2]
                 ELSE IF old = NULL THEN Free ELSE entry[old][2]
  BY <1>1 DEF Table, Adding
<1>4. \/ old = NULL /\ \A c \in InTable : entry[c][1] # k
      \/ old \in InTable /\ entry[old][1] = k /\ old # NULL
  BY <1>1, HitCases, TableAssumption
<1>5. \A c, d \in InTable : entry[c][1] = entry[d][1] => c = d
  BY DEF TableInv, KeysDistinct
<1> HIDE DEF old
<1>6. QED BY <1>3, <1>4, <1>5

(* What is listed is allocated.                                            *)
LEMMA ListedIsAllocated ==
  ASSUME TableInv
  PROVE  /\ InTable \subseteq Cell
         /\ \A c \in InTable : entry[c] \in Key \X Value
         /\ writer # Idle => writer.new \in Cell /\ entry[writer.new] \in Key \X Value
<1>1. InTable \subseteq Cell
  BY DEF InTable, Listed
<1>2. \A c \in Cell : entry[c] # Free => entry[c] \in Key \X Value
  BY DEF TableInv, TypeOK
<1>3. writer # Idle => writer.new \in Cell
  BY <1>1 DEF TableInv, TypeOK, WriterInPlace
<1>4. writer.new \in Cell => entry[writer.new] # Free
  BY TableAssumption DEF TableInv, Allocated
<1>5. QED BY <1>1, <1>2, <1>3, <1>4 DEF TableInv, Allocated

(* calloc begins an add, the end of an add ends it, and every step between *)
(* them leaves the table as it is.                                         *)
LEMMA AllocateBegins ==
  ASSUME TableInv, TableHolds, TableHolds', NEW k \in Key, NEW v \in Value, Allocate(k, v)
  PROVE  A!Begin(k, v)
<1>1. InTable' = InTable /\ TableInv'
  BY AllocateKeeps
<1>2. PICK new \in Cell :
        /\ entry[new] = Free /\ entry' = [entry EXCEPT ![new] = <<k, v>>]
        /\ writer' = [at |-> "lookup", new |-> new, old |-> NULL]
  BY DEF Allocate
<1>3. writer = Idle /\ writer' # Idle /\ writer'.new = new
  BY <1>2 DEF Allocate, Idle
<1>4. entry'[new] = <<k, v>> /\ \A c \in InTable : entry'[c] = entry[c]
  BY <1>2, ListedIsAllocated, TableAssumption DEF TableInv, TypeOK
<1>5. Table'[k] = v
  BY <1>3, <1>4 DEF TableHolds, Adding
<1>6. \A j \in Key : j # k => Table'[j] = Table[j]
  BY <1>1, <1>3, <1>4 DEF TableHolds, Adding
<1>7. Table' = [Table EXCEPT ![k] = v]
  BY <1>5, <1>6 DEF TableHolds
<1>8. Pending = Free /\ Pending' = <<k, v>>
  BY <1>3, <1>4 DEF Pending
<1>9. QED BY <1>7, <1>8 DEF A!Begin

(* As long as the same add is under way, the table depends on the other    *)
(* listed entries only.                                                    *)
LEMMA SameTable ==
  ASSUME TableInv, TableHolds, TableHolds', writer # Idle, writer' # Idle,
         writer'.new = writer.new, entry'[writer.new] = entry[writer.new],
         \A c \in Cell : entry[c][1] # entry[writer.new][1] /\ c \in InTable \cup InTable' =>
            c \in InTable \cap InTable' /\ entry'[c] = entry[c],
         \A c \in InTable' : c \in InTable \cup {writer.new} /\ entry'[c] = entry[c]
  PROVE  UNCHANGED <<Table, Pending>>
<1>1. \A k \in Key : Adding(k)' <=> Adding(k)
  BY DEF Adding
<1>2. InTable \subseteq Cell
  BY ListedIsAllocated
<1>3. \A k \in Key : Table'[k] = Table[k]
  <2> SUFFICES ASSUME NEW k \in Key PROVE Table'[k] = Table[k]
    OBVIOUS
  <2>1. CASE Adding(k)
    BY <1>1, <2>1 DEF TableHolds
  <2>2. CASE ~Adding(k)
    <3>1. entry[writer.new][1] # k
      BY <2>2 DEF Adding
    <3>2. CASE \E c \in InTable : entry[c][1] = k
      <4>1. PICK c \in InTable : entry[c][1] = k
        BY <3>2
      <4>2. c \in InTable' /\ entry'[c] = entry[c]
        BY <1>2, <3>1, <4>1
      <4>3. QED BY <1>1, <2>2, <4>1, <4>2 DEF TableHolds
    <3>3. CASE \A c \in InTable : entry[c][1] # k
      <4>1. \A c \in InTable' : entry'[c][1] # k
        BY <3>1, <3>3
      <4>2. QED BY <1>1, <2>2, <3>3, <4>1 DEF TableHolds
    <3>4. QED BY <3>2, <3>3
  <2>3. QED BY <2>1, <2>2
<1>4. Table' = Table
  BY <1>3 DEF TableHolds
<1>5. QED BY <1>4 DEF Pending

(* An add ends with the new value in a listed entry, its own or an equal   *)
(* one.                                                                    *)
LEMMA EndOfAdd ==
  ASSUME TableInv, TableHolds, TableHolds', writer # Idle, writer' = Idle, InTable' = InTable,
         \A c \in InTable : entry'[c] = entry[c],
         \E c \in InTable : entry[c] = entry[writer.new]
  PROVE  A!End
<1>1. \A k \in Key : ~Adding(k)'
  BY DEF Adding
<1>2. PICK c \in InTable : entry[c] = entry[writer.new]
  OBVIOUS
<1>3. \A k \in Key : Table'[k] = Table[k]
  <2> SUFFICES ASSUME NEW k \in Key PROVE Table'[k] = Table[k]
    OBVIOUS
  <2>1. CASE Adding(k)
    <3>1. entry'[c][1] = k /\ entry'[c][2] = entry[writer.new][2]
      BY <1>2, <2>1 DEF Adding
    <3>2. QED BY <1>1, <1>2, <2>1, <3>1 DEF TableHolds
  <2>2. CASE ~Adding(k)
    BY <1>1, <2>2 DEF TableHolds
  <2>3. QED BY <2>1, <2>2
<1>4. Table' = Table
  BY <1>3 DEF TableHolds
<1>5. Pending # Free /\ Pending' = Free
  BY ListedIsAllocated, TableAssumption DEF Pending
<1>6. QED BY <1>4, <1>5 DEF A!End

(* What Add decides ends the add or leaves the table as it is.             *)
LEMMA AddRefines ==
  ASSUME TableInv, TableHolds, TableHolds', Add
  PROVE  A!End \/ UNCHANGED <<Table, Pending>>
<1> DEFINE new == writer.new
<1>1. /\ writer # Idle /\ new \in Cell \ InTable
      /\ InTable \subseteq Cell /\ entry \in [Cell -> (Key \X Value) \cup {Free}]
  BY AddKeeps, ListedIsAllocated DEF TableInv, TypeOK
<1>2. CASE /\ writer' # Idle /\ writer'.new = new /\ UNCHANGED entry
           /\ InTable' = InTable \cup {new}
  BY <1>1, <1>2, SameTable
<1>3. CASE /\ writer' # Idle /\ writer'.new = new /\ UNCHANGED entry
           /\ \E old \in InTable : entry[old][1] = entry[new][1] /\ InTable' = InTable \ {old}
  BY <1>1, <1>3, SameTable
<1>4. CASE /\ writer' = Idle /\ InTable' = InTable
           /\ entry' = [entry EXCEPT ![new] = Free]
           /\ \E old \in InTable : entry[old] = entry[new]
  <2>1. \A c \in InTable : entry'[c] = entry[c]
    BY <1>1, <1>4
  <2>2. QED BY <1>1, <1>4, <2>1, EndOfAdd
<1>5. QED BY <1>2, <1>3, <1>4, AddKeeps

(* The old entry is not listed any more: to free it changes no value.      *)
LEMMA FreeOldRefines ==
  ASSUME TableInv, TableHolds, TableHolds', FreeOld
  PROVE  UNCHANGED <<Table, Pending>>
<1>1. /\ InTable' = InTable \cup {writer.new} /\ writer.at = "unlink"
      /\ entry' = [entry EXCEPT ![writer.old] = Free]
      /\ writer' = [writer EXCEPT !.at = "link", !.old = NULL]
  BY FreeOldKeeps DEF FreeOld
<1>2. writer # Idle /\ writer' # Idle /\ writer'.new = writer.new
  <2>1. writer \in [at : {"idle", "lookup", "unlink", "link"},
                   new : Cell \cup {NULL}, old : Cell \cup {NULL}]
    BY DEF TableInv, TypeOK
  <2>2. writer'.at = "link" /\ writer'.new = writer.new
    BY <1>1, <2>1
  <2>3. Idle.at = "idle"
    BY DEF Idle
  <2>4. QED BY <1>1, <2>2, <2>3
<1>3. /\ writer.old \in Cell \ InTable /\ writer.new \in Cell /\ writer.new # writer.old
      /\ InTable \subseteq Cell
  BY <1>1, ListedIsAllocated DEF TableInv, WriterInPlace
<1>4. \A c \in InTable \cup {writer.new} : entry'[c] = entry[c]
  BY <1>1, <1>3 DEF TableInv, TypeOK
<1>5. QED BY <1>1, <1>2, <1>3, <1>4, SameTable

(* The entry that was added is listed now.                                 *)
LEMMA AddedRefines ==
  ASSUME TableInv, TableHolds, TableHolds', Added
  PROVE  A!End
<1>1. /\ InTable' = InTable /\ writer.at = "link" /\ writer' = Idle /\ UNCHANGED entry
  BY AddedKeeps DEF Added
<1>2. writer # Idle /\ writer.new \in InTable
  BY <1>1 DEF Idle, TableInv, WriterInPlace
<1>3. QED BY <1>1, <1>2, EndOfAdd

(* The reader changes nothing that the receiver thread sees.               *)
LEMMA RefinementStep ==
  TableInv /\ TableHolds /\ TableHolds' /\ [Next]_vars => [A!Next]_<<Table, Pending>>
<1> SUFFICES ASSUME TableInv, TableHolds, TableHolds', [Next]_vars
             PROVE  A!Next \/ UNCHANGED <<Table, Pending>>
  OBVIOUS
<1>1. CASE UNCHANGED <<node, entry, writer, todo>>
  <2>1. UNCHANGED Entries
    BY <1>1 DEF Entries
  <2>2. \A k : Hit(Entries, k)' = Hit(Entries, k)
    BY <1>1, <2>1 DEF Hit
  <2>3. UNCHANGED Table
    BY <1>1, <2>1, <2>2 DEF Table
  <2>4. QED BY <1>1, <2>3 DEF Pending
<1>2. ASSUME NEW k \in Key, NEW v \in Value, Allocate(k, v) PROVE A!Next
  BY <1>2, AllocateBegins DEF A!Next
<1>3. CASE Add
  BY <1>3, AddRefines DEF A!Next
<1>4. CASE StoreOne
  <2>1. /\ InTable' = InTable /\ writer # Idle /\ UNCHANGED <<entry, writer>>
    BY <1>4, StoreOneKeeps DEF StoreOne, TableInv, WriterInPlace, Idle
  <2>2. QED BY <2>1, SameTable
<1>5. CASE FreeOld
  BY <1>5, FreeOldRefines
<1>6. CASE Added
  BY <1>6, AddedRefines DEF A!Next
<1>7. CliThread \/ UNCHANGED vars => UNCHANGED <<node, entry, writer, todo>>
  BY DEF CliThread, StartWalk, ReadNext, PrintEntry, EndWalk, vars
<1>8. QED BY <1>1, <1>2, <1>3, <1>4, <1>5, <1>6, <1>7 DEF Next, ReceiverThread

(* For the receiver thread the add of an ARP or MAC table entry, which     *)
(* takes up to eight pointer stores, changes the table in one step.        *)
THEOREM AddsAreAtomic == Spec => ImplementsAtomicTable
<1>1. Init => A!Init
  <2> SUFFICES ASSUME Init PROVE A!Init
    OBVIOUS
  <2>1. TableHolds /\ InTable = {} /\ writer = Idle
    <3>1. TypeOK /\ todo = <<>>
      BY TableInvInit DEF TableInv, Init
    <3>2. InTable = Listed(node)
      BY <3>1, NothingPending
    <3>3. QED BY <3>2, TableInvInit, TableIsHeld DEF Init, Listed, Object
  <2>2. Table = [k \in Key |-> Free]
    BY <2>1 DEF TableHolds, Adding
  <2>3. QED BY <2>1, <2>2 DEF A!Init, Pending
<1>2. QED
  BY <1>1, TableInvariance, TableIsHeld, RefinementStep, PTL
  DEF Spec, ImplementsAtomicTable, A!Spec
=============================================================================
