-------------------------- MODULE GraphBuilderProofs --------------------------
(***************************************************************************)
(* Whatever is called, in any order and with any arguments: slots hold     *)
(* what the rest of the program takes for granted, an interface that was   *)
(* set up stays the one its name finds, and node names find their nodes.   *)
(***************************************************************************)
EXTENDS GraphBuilder, SequenceTheorems, WellFoundedInduction, TLAPS

Slots == {f \in [Node -> Seq(Interface)] :
            \A n \in Node : Len(f[n]) <= MAXIMUM_INTERFACE_PER_NODE}

Names == {f \in [Node -> Seq(Char \cup {POINTER})] :
            \A n \in Node : Len(f[n]) <= NETWORK_NODE_NAME_SIZE}

(* The slots f after interface i was given to node n.                      *)
Placed(f, n, i) ==
  IF Len(f[n]) < MAXIMUM_INTERFACE_PER_NODE THEN [f EXCEPT ![n] = Append(@, i)] ELSE f

(* SlotsWellFormed, of any slots and attachments.                          *)
InSlotOf(f, i, n) == \E k \in 1..Len(f[n]) : f[n][k] = i

WellFormed(f, attached) ==
  /\ \A n \in Node : IsInjective(f[n])
  /\ \A n \in Node, i \in Interface : InSlotOf(f, i, n) => attached[i] = n
  /\ \A i \in Interface :
       \/ attached[i] = NULL
       \/ InSlotOf(f, i, attached[i])
       \/ Len(f[attached[i]]) = MAXIMUM_INTERFACE_PER_NODE

(* Interface i is in a slot of its node, and no slot before has its name.  *)
FirstOfName(f, attached, name, i) ==
  /\ attached[i] # NULL
  /\ \E k \in 1..Len(f[attached[i]]) :
       /\ f[attached[i]][k] = i
       /\ \A j \in 1..(k - 1) : name[f[attached[i]][j]] # name[i]

(* The inductive invariant: the ends of a link are attached together, and  *)
(* what has been set up is the first of its name.                          *)
EndsTogether ==
  \A l \in Link : attached_node[<<l, 1>>] = NULL <=> attached_node[<<l, 2>>] = NULL

SetIsFirst ==
  \A i \in Interface :
    ip_address[i] # NULL \/ layer_2_mode[i] # LAYER_2_MODE_UNKNOWN =>
      FirstOfName(interface, attached_node, interface_name, i)

SlotInv == TypeOK /\ SlotsWellFormed /\ EndsTogether /\ SetIsFirst
-----------------------------------------------------------------------------
(* A set of numbers that is not empty has a least one.                     *)
LEMMA LeastNumber ==
  ASSUME NEW T, T \subseteq Nat, T # {}
  PROVE  \E k \in T : \A j \in T : k <= j
<1>1. IsWellFoundedOn(OpToRel(<, Nat), Nat)
  BY NatLessThanWellFounded
<1>2. \E k \in T : \A j \in T : ~ (<<j, k>> \in OpToRel(<, Nat))
  BY <1>1, WFMin
<1>3. \A j, k \in T : ~ (<<j, k>> \in OpToRel(<, Nat)) => k <= j
  BY DEF OpToRel
<1>4. QED BY <1>2, <1>3

(* What a node keeps of a name is the beginning of it, and fits.           *)
LEMMA KeptBegins ==
  ASSUME NEW name \in NodeName
  PROVE  /\ name \in Seq(Char)
         /\ Kept(name) \in Seq(Char) /\ Kept(name) \in Seq(Char \cup {POINTER})
         /\ Len(Kept(name)) <= NETWORK_NODE_NAME_SIZE
         /\ Len(Kept(name)) <= Len(name)
         /\ \A k \in 1..Len(Kept(name)) : Kept(name)[k] = name[k]
<1> DEFINE Z == NETWORK_NODE_NAME_SIZE
           front == SubSeq(name, 1, Z)
<1>1. name \in Seq(Char) /\ Len(name) \in Nat /\ Z \in Nat
  BY BuilderAssumption
<1>2. CASE Len(name) <= Z
  <2>1. Kept(name) = name
    BY <1>2 DEF Kept
  <2>2. name \in Seq(Char \cup {POINTER})
    BY <1>1
  <2>3. QED BY <1>1, <1>2, <2>1, <2>2
<1>3. CASE ~ (Len(name) <= Z)
  <2>1. Kept(name) = front
    BY <1>3 DEF Kept
  <2>2. front \in Seq(Char) /\ Len(front) = Z /\ \A k \in 1..Z : front[k] = name[k]
    BY <1>1, <1>3, SubSeqProperties
  <2> HIDE DEF front
  <2>3. front \in Seq(Char \cup {POINTER})
    BY <2>2
  <2>4. QED BY <1>1, <1>3, <2>1, <2>2, <2>3
<1>4. QED BY <1>2, <1>3

(* The name that a pointer has been written over is still a name, and      *)
(* still fits.                                                             *)
LEMMA NameUnderPointerType ==
  ASSUME NEW name \in Seq(Char \cup {POINTER})
  PROVE  /\ NameUnderPointer(name) \in Seq(Char \cup {POINTER})
         /\ Len(name) <= NETWORK_NODE_NAME_SIZE
              => Len(NameUnderPointer(name)) <= NETWORK_NODE_NAME_SIZE
<1> DEFINE S == Char \cup {POINTER}
<1>1. CASE Len(name) < NAME_BYTES_BEFORE_POINTER
  BY <1>1 DEF NameUnderPointer
<1>2. CASE Len(name) >= NAME_BYTES_BEFORE_POINTER
  <2> DEFINE B == NAME_BYTES_BEFORE_POINTER
             front == SubSeq(name, 1, B)
  <2>1. front \in Seq(S) /\ Len(front) = B
    BY <1>2, BuilderAssumption, SubSeqProperties
  <2>2. <<POINTER>> \in Seq(S) /\ Len(<<POINTER>>) = 1
    OBVIOUS
  <2>3. NameUnderPointer(name) = front \o <<POINTER>>
    BY <1>2, BuilderAssumption DEF NameUnderPointer
  <2> HIDE DEF front
  <2>4. front \o <<POINTER>> \in Seq(S) /\ Len(front \o <<POINTER>>) = B + 1
    BY <2>1, <2>2, ConcatProperties
  <2>5. QED BY <2>3, <2>4, BuilderAssumption
<1>3. QED BY <1>1, <1>2, BuilderAssumption

(* Stored gives the interface a slot, or overwrites the name.              *)
LEMMA StoredIsPlaced ==
  ASSUME NEW f \in Slots, NEW names \in Names, NEW n \in Node, NEW i \in Interface
  PROVE  LET after == Stored([interface |-> f, name |-> names], n, i) IN
         after.interface = Placed(f, n, i) /\ after.name \in Names
<1> DEFINE before == [interface |-> f, name |-> names]
           after == Stored(before, n, i)
<1>1. CASE Len(f[n]) < MAXIMUM_INTERFACE_PER_NODE
  BY <1>1 DEF Stored, Placed
<1>2. CASE ~ (Len(f[n]) < MAXIMUM_INTERFACE_PER_NODE)
  <2>1. names[n] \in Seq(Char \cup {POINTER}) /\ Len(names[n]) <= NETWORK_NODE_NAME_SIZE
    BY DEF Names
  <2>2. /\ NameUnderPointer(names[n]) \in Seq(Char \cup {POINTER})
        /\ Len(NameUnderPointer(names[n])) <= NETWORK_NODE_NAME_SIZE
    BY <2>1, NameUnderPointerType
  <2>3. after = [before EXCEPT !.name[n] = NameUnderPointer(names[n])]
    BY <1>2 DEF Stored
  <2>4. after.name = [names EXCEPT ![n] = NameUnderPointer(names[n])]
    BY <2>3
  <2>5. after.name \in Names
    BY <2>2, <2>4 DEF Names
  <2>6. QED BY <1>2, <2>3, <2>5 DEF Placed
<1>3. QED BY <1>1, <1>2

(* What Stored returns is again a pair of slots and names.                 *)
LEMMA StoredRecord ==
  ASSUME NEW f, NEW names, NEW n, NEW i
  PROVE  LET after == Stored([interface |-> f, name |-> names], n, i) IN
         after = [interface |-> after.interface, name |-> after.name]
BY DEF Stored

(* A slot is added behind the others, or none is left.                     *)
LEMMA PlacedSlots ==
  ASSUME NEW f \in Slots, NEW n \in Node, NEW i \in Interface, NEW g, g = Placed(f, n, i)
  PROVE  /\ g \in Slots
         /\ \A m \in Node : Len(f[m]) <= Len(g[m])
         /\ \A m \in Node : \A k \in 1..Len(f[m]) : g[m][k] = f[m][k]
         /\ \A m \in Node : \A k \in 1..Len(g[m]) :
              k \notin 1..Len(f[m]) => m = n /\ k = Len(f[n]) + 1 /\ g[m][k] = i
         /\ InSlotOf(g, i, n) \/ Len(g[n]) = MAXIMUM_INTERFACE_PER_NODE
<1>1. /\ f \in [Node -> Seq(Interface)]
      /\ \A m \in Node : Len(f[m]) \in Nat /\ Len(f[m]) <= MAXIMUM_INTERFACE_PER_NODE
  BY DEF Slots
<1>2. CASE Len(f[n]) < MAXIMUM_INTERFACE_PER_NODE
  <2> DEFINE s == Append(f[n], i)
  <2>1. g = [f EXCEPT ![n] = s]
    BY <1>2 DEF Placed
  <2>2. /\ s \in Seq(Interface) /\ Len(s) = Len(f[n]) + 1
        /\ \A k \in 1..Len(f[n]) : s[k] = f[n][k]
        /\ s[Len(f[n]) + 1] = i
    BY <1>1, AppendProperties
  <2> HIDE DEF s
  <2>3. g \in [Node -> Seq(Interface)] /\ g[n] = s /\ \A m \in Node \ {n} : g[m] = f[m]
    BY <1>1, <2>1, <2>2
  <2>4. g \in Slots
    <3>1. Len(s) <= MAXIMUM_INTERFACE_PER_NODE
      BY <1>1, <1>2, <2>2, BuilderAssumption
    <3>2. \A m \in Node : Len(g[m]) <= MAXIMUM_INTERFACE_PER_NODE
      BY <1>1, <2>3, <3>1, Zenon
    <3>3. QED BY <2>3, <3>2 DEF Slots
  <2>5. \A m \in Node : Len(f[m]) <= Len(g[m]) /\ \A k \in 1..Len(f[m]) : g[m][k] = f[m][k]
    BY <1>1, <2>2, <2>3
  <2>6. \A m \in Node : \A k \in 1..Len(g[m]) :
          k \notin 1..Len(f[m]) => m = n /\ k = Len(f[n]) + 1 /\ g[m][k] = i
    BY <1>1, <2>2, <2>3
  <2>7. InSlotOf(g, i, n)
    BY <1>1, <2>2, <2>3 DEF InSlotOf
  <2>8. QED BY <2>4, <2>5, <2>6, <2>7
<1>3. CASE ~ (Len(f[n]) < MAXIMUM_INTERFACE_PER_NODE)
  <2>1. g = f
    BY <1>3 DEF Placed
  <2>2. Len(f[n]) = MAXIMUM_INTERFACE_PER_NODE
    BY <1>1, <1>3, BuilderAssumption
  <2>3. QED BY <1>1, <2>1, <2>2
<1>4. QED BY <1>2, <1>3

(* Placing an interface that is not attached yet keeps slots well formed   *)
(* and the first of a name first.                                          *)
LEMMA PlacedKeeps ==
  ASSUME NEW f \in Slots, NEW attached \in [Interface -> Node \cup {NULL}],
         NEW name \in [Interface -> Name \cup {NULL}], WellFormed(f, attached),
         NEW n \in Node, NEW i \in Interface, attached[i] = NULL, NEW nm \in Name
  PROVE  LET g == Placed(f, n, i)
             attached2 == [attached EXCEPT ![i] = n]
             name2 == [name EXCEPT ![i] = nm]
         IN /\ WellFormed(g, attached2)
            /\ \A e \in Interface : FirstOfName(f, attached, name, e)
                                      => FirstOfName(g, attached2, name2, e)
<1> DEFINE g == Placed(f, n, i)
           attached2 == [attached EXCEPT ![i] = n]
           name2 == [name EXCEPT ![i] = nm]
<1>0. g = Placed(f, n, i)
  OBVIOUS
<1> HIDE DEF g
<1>1. /\ g \in Slots
      /\ \A m \in Node : Len(f[m]) <= Len(g[m])
      /\ \A m \in Node : \A k \in 1..Len(f[m]) : g[m][k] = f[m][k]
      /\ \A m \in Node : \A k \in 1..Len(g[m]) :
           k \notin 1..Len(f[m]) => m = n /\ k = Len(f[n]) + 1 /\ g[m][k] = i
      /\ InSlotOf(g, i, n) \/ Len(g[n]) = MAXIMUM_INTERFACE_PER_NODE
  BY <1>0, PlacedSlots
<1>2. /\ \A m \in Node : Len(f[m]) \in Nat /\ Len(g[m]) \in Nat
      /\ \A m \in Node : Len(g[m]) <= MAXIMUM_INTERFACE_PER_NODE
      /\ \A m \in Node : \A k \in 1..Len(f[m]) : f[m][k] \in Interface
      /\ \A m \in Node : \A k \in 1..Len(g[m]) : g[m][k] \in Interface
      /\ \A m \in Node : DOMAIN f[m] = 1..Len(f[m]) /\ DOMAIN g[m] = 1..Len(g[m])
  BY <1>1 DEF Slots
<1>3. \A m \in Node : \A k \in 1..Len(f[m]) : attached[f[m][k]] = m /\ f[m][k] # i
  <2>1. SUFFICES ASSUME NEW m \in Node, NEW k \in 1..Len(f[m])
                 PROVE  attached[f[m][k]] = m /\ f[m][k] # i
    OBVIOUS
  <2>2. InSlotOf(f, f[m][k], m)
    BY DEF InSlotOf
  <2>3. QED BY <1>2, <2>2, BuilderAssumption DEF WellFormed
<1>4. attached2[i] = n /\ \A e \in Interface \ {i} : attached2[e] = attached[e]
  OBVIOUS
<1>5. name2[i] = nm /\ \A e \in Interface \ {i} : name2[e] = name[e]
  OBVIOUS
<1> HIDE DEF attached2, name2
<1>6. \A m \in Node : IsInjective(g[m])
  <2>1. SUFFICES ASSUME NEW m \in Node, NEW j \in 1..Len(g[m]), NEW k \in 1..Len(g[m]),
                        g[m][j] = g[m][k]
                 PROVE  j = k
    BY <1>2 DEF IsInjective
  <2>2. \A a, b \in 1..Len(f[m]) : f[m][a] = f[m][b] => a = b
    BY <1>2 DEF WellFormed, IsInjective
  <2>3. QED BY <1>1, <1>2, <1>3, <2>1, <2>2
<1>7. \A m \in Node, e \in Interface : InSlotOf(g, e, m) => attached2[e] = m
  <2>1. SUFFICES ASSUME NEW m \in Node, NEW k \in 1..Len(g[m]) PROVE attached2[g[m][k]] = m
    BY DEF InSlotOf
  <2>2. QED BY <1>1, <1>2, <1>3, <1>4
<1>8. \A e \in Interface :
        \/ attached2[e] = NULL
        \/ InSlotOf(g, e, attached2[e])
        \/ Len(g[attached2[e]]) = MAXIMUM_INTERFACE_PER_NODE
  <2>1. SUFFICES ASSUME NEW e \in Interface \ {i}, attached[e] # NULL
                 PROVE  \/ InSlotOf(g, e, attached[e])
                        \/ Len(g[attached[e]]) = MAXIMUM_INTERFACE_PER_NODE
    BY <1>1, <1>4
  <2>2. attached[e] \in Node
    BY <2>1
  <2>3. CASE InSlotOf(f, e, attached[e])
    BY <1>1, <1>2, <2>2, <2>3 DEF InSlotOf
  <2>4. CASE Len(f[attached[e]]) = MAXIMUM_INTERFACE_PER_NODE
    BY <1>1, <1>2, <2>2, <2>4, BuilderAssumption
  <2>5. QED BY <2>1, <2>3, <2>4 DEF WellFormed
<1>9. ASSUME NEW e \in Interface, FirstOfName(f, attached, name, e)
      PROVE  FirstOfName(g, attached2, name2, e)
  <2>1. attached[e] # NULL /\ e # i /\ attached[e] \in Node
    BY <1>9 DEF FirstOfName
  <2>2. PICK k \in 1..Len(f[attached[e]]) :
          f[attached[e]][k] = e /\ \A j \in 1..(k - 1) : name[f[attached[e]][j]] # name[e]
    BY <1>9 DEF FirstOfName
  <2>3. k \in 1..Len(g[attached[e]]) /\ g[attached[e]][k] = e
    BY <1>1, <1>2, <2>1, <2>2
  <2>4. \A j \in 1..(k - 1) : name2[g[attached[e]][j]] # name2[e]
    <3>1. SUFFICES ASSUME NEW j \in 1..(k - 1) PROVE name2[g[attached[e]][j]] # name2[e]
      OBVIOUS
    <3>2. j \in 1..Len(f[attached[e]])
      BY <1>2, <2>1, <2>2
    <3>3. g[attached[e]][j] = f[attached[e]][j] /\ f[attached[e]][j] \in Interface \ {i}
      BY <1>1, <1>2, <1>3, <2>1, <3>2
    <3>4. QED BY <1>5, <2>1, <2>2, <3>3
  <2>5. attached2[e] = attached[e]
    BY <1>4, <2>1
  <2>6. QED BY <2>1, <2>3, <2>4, <2>5 DEF FirstOfName
<1>10. QED BY <1>6, <1>7, <1>8, <1>9 DEF WellFormed, g, attached2, name2
-----------------------------------------------------------------------------
(* What get_network_node_interface_by_name finds is the first of its name  *)
(* on its node, ...                                                        *)
LEMMA FoundIsFirst ==
  ASSUME TypeOK, SlotsWellFormed, NEW n \in Node, NEW name,
         get_network_node_interface_by_name(n, name) # NULL
  PROVE  LET i == get_network_node_interface_by_name(n, name) IN
         i \in Interface /\ FirstOfName(interface, attached_node, interface_name, i)
<1> DEFINE hits == {k \in 1..Len(interface[n]) : interface_name[interface[n][k]] = name}
           i == get_network_node_interface_by_name(n, name)
<1>1. Len(interface[n]) \in Nat /\ \A k \in 1..Len(interface[n]) : interface[n][k] \in Interface
  BY DEF TypeOK
<1>2. hits # {}
  BY DEF get_network_node_interface_by_name
<1>3. PICK k \in hits : (\A j \in hits : k <= j) /\ i = interface[n][k]
  <2>1. hits \subseteq Nat
    OBVIOUS
  <2>2. \E k \in hits : \A j \in hits : k <= j
    <3> HIDE DEF hits
    <3> QED BY <1>2, <2>1, LeastNumber
  <2>3. i = interface[n][CHOOSE k \in hits : \A j \in hits : k <= j]
    BY <1>2 DEF get_network_node_interface_by_name
  <2>4. QED BY <2>2, <2>3
<1>4. i \in Interface /\ InSlot(i, n)
  BY <1>1, <1>3 DEF InSlot
<1>5. attached_node[i] = n /\ n # NULL
  BY <1>4, BuilderAssumption DEF SlotsWellFormed
<1>6. \A j \in 1..(k - 1) : interface_name[interface[n][j]] # interface_name[i]
  BY <1>1, <1>3
<1>7. QED BY <1>3, <1>4, <1>5, <1>6 DEF FirstOfName

(* ... and the first of a name is what it finds.                           *)
LEMMA FirstIsFound ==
  ASSUME TypeOK, SlotsWellFormed, NEW i \in Interface,
         FirstOfName(interface, attached_node, interface_name, i)
  PROVE  get_network_node_interface_by_name(attached_node[i], interface_name[i]) = i
<1> DEFINE n == attached_node[i]
           hits == {k \in 1..Len(interface[n]) : interface_name[interface[n][k]] = interface_name[i]}
           first == CHOOSE k \in hits : \A j \in hits : k <= j
<1>1. n \in Node /\ Len(interface[n]) \in Nat
  BY DEF TypeOK, FirstOfName
<1>2. PICK k \in 1..Len(interface[n]) :
        /\ interface[n][k] = i
        /\ \A j \in 1..(k - 1) : interface_name[interface[n][j]] # interface_name[i]
  BY DEF FirstOfName
<1>3. k \in hits /\ \A j \in hits : k <= j
  BY <1>1, <1>2
<1>4. first \in hits /\ \A j \in hits : first <= j
  <2> HIDE DEF hits
  <2> QED BY <1>3
<1>5. first = k
  <2>1. first \in Nat /\ k \in Nat /\ first <= k /\ k <= first
    <3> HIDE DEF first
    <3> QED BY <1>1, <1>3, <1>4
  <2> HIDE DEF first
  <2> QED BY <2>1
<1>6. get_network_node_interface_by_name(n, interface_name[i]) = interface[n][first]
  BY <1>3 DEF get_network_node_interface_by_name
<1>7. QED BY <1>2, <1>5, <1>6
-----------------------------------------------------------------------------
LEMMA SlotInvInit == Init => SlotInv
<1> SUFFICES ASSUME Init PROVE SlotInv
  OBVIOUS
<1>1. /\ interface \in [Node -> Seq(Interface)]
      /\ \A n \in Node : interface[n] = <<>> /\ Len(interface[n]) = 0
      /\ \A n \in Node : ~ \E k \in 1..Len(interface[n]) : TRUE
  BY DEF Init
<1>2. /\ network_node_name \in [Node -> Seq(Char \cup {POINTER})]
      /\ \A n \in Node : Len(network_node_name[n]) <= NETWORK_NODE_NAME_SIZE
  BY BuilderAssumption DEF Init
<1>3. TypeOK
  <2>1. node_list \in Seq(Node) /\ created \in Seq(Node \X NodeName)
    BY DEF Init
  <2>2. \A n \in Node : Len(interface[n]) <= MAXIMUM_INTERFACE_PER_NODE
    BY <1>1, BuilderAssumption
  <2>3. /\ attached_node \in [Interface -> Node \cup {NULL}]
        /\ interface_name \in [Interface -> Name \cup {NULL}]
        /\ ip_address \in [Interface -> Address \cup {NULL}]
        /\ configured \in [Interface -> BOOLEAN]
        /\ layer_2_mode \in [Interface -> Mode]
    BY DEF Init, Mode
  <2>4. flags \in [Node -> SUBSET {L3_ROUTER, L2_SWITCH, HUB}] /\ loopback \in [Node -> BOOLEAN]
    BY DEF Init
  <2>5. settings \in 0..MaxSettings
    BY BuilderAssumption DEF Init
  <2>6. aborted \in BOOLEAN
    BY DEF Init
  <2>7. QED BY <1>1, <1>2, <2>1, <2>2, <2>3, <2>4, <2>5, <2>6 DEF TypeOK
<1>4. \A i \in Interface : attached_node[i] = NULL
  BY DEF Init
<1>5. SlotsWellFormed
  BY <1>1, <1>4 DEF SlotsWellFormed, InSlot, IsInjective, Init
<1>6. EndsTogether
  BY <1>4 DEF EndsTogether, Interface
<1>7. SetIsFirst
  BY DEF SetIsFirst, Init
<1>8. QED BY <1>3, <1>5, <1>6, <1>7 DEF SlotInv

(* A new link puts its ends into slots and leaves the ends of other links  *)
(* where they are.                                                         *)
LEMMA LinkKeepsSlots ==
  ASSUME SlotInv, NEW l \in Link, NEW n1 \in Node, NEW n2 \in Node,
         NEW name1 \in Name, NEW name2 \in Name,
         insert_link_between_two_network_nodes(l, n1, n2, name1, name2)
  PROVE  SlotInv'
<1> DEFINE i1 == <<l, 1>>
           i2 == <<l, 2>>
           f1 == Placed(interface, n1, i1)
           f2 == Placed(f1, n2, i2)
           attached1 == [attached_node EXCEPT ![i1] = n1]
           attached2 == [attached1 EXCEPT ![i2] = n2]
           nm1 == [interface_name EXCEPT ![i1] = name1]
           nm2 == [nm1 EXCEPT ![i2] = name2]
<1> USE DEF SlotInv
<1>1. i1 \in Interface /\ i2 \in Interface /\ i1 # i2
  BY DEF Interface
<1>2. attached_node[i1] = NULL /\ attached_node[i2] = NULL
  BY DEF insert_link_between_two_network_nodes, EndsTogether
<1>3. interface \in Slots /\ network_node_name \in Names
  BY DEF TypeOK, Slots, Names
<1>4. interface' = f2 /\ network_node_name' \in Names /\ f1 \in Slots /\ f2 \in Slots
  <2> DEFINE before == [interface |-> interface, name |-> network_node_name]
             mid == Stored(before, n1, i1)
             after == Stored(mid, n2, i2)
  <2>1. mid.interface = f1 /\ mid.name \in Names
    BY <1>1, <1>3, StoredIsPlaced
  <2>2. f1 \in Slots
    BY <1>1, <1>3, PlacedSlots
  <2>3. mid = [interface |-> f1, name |-> mid.name]
    BY <2>1, StoredRecord
  <2>4. f2 \in Slots
    <3> HIDE DEF f1
    <3> QED BY <1>1, <2>2, PlacedSlots
  <2>5. after.interface = f2 /\ after.name \in Names
    <3> HIDE DEF mid, f1
    <3> QED BY <1>1, <2>1, <2>2, <2>3, StoredIsPlaced
  <2>6. interface' = after.interface /\ network_node_name' = after.name
    BY DEF insert_link_between_two_network_nodes
  <2>7. QED BY <2>2, <2>4, <2>5, <2>6
<1>5. /\ attached_node' = attached2 /\ interface_name' = nm2
      /\ attached1 \in [Interface -> Node \cup {NULL}] /\ attached2 \in [Interface -> Node \cup {NULL}]
      /\ nm1 \in [Interface -> Name \cup {NULL}] /\ nm2 \in [Interface -> Name \cup {NULL}]
      /\ attached1[i2] = NULL
  BY <1>1, <1>2 DEF insert_link_between_two_network_nodes, TypeOK
<1>6. TypeOK'
  BY <1>4, <1>5 DEF TypeOK, Slots, Names, insert_link_between_two_network_nodes, properties
<1>7. WellFormed(interface, attached_node)
  BY DEF WellFormed, SlotsWellFormed, InSlot, InSlotOf
<1>8. /\ WellFormed(f1, attached1)
      /\ \A e \in Interface : FirstOfName(interface, attached_node, interface_name, e)
                                => FirstOfName(f1, attached1, nm1, e)
  BY <1>1, <1>2, <1>3, <1>7, PlacedKeeps DEF TypeOK
<1>9. /\ WellFormed(f2, attached2)
      /\ \A e \in Interface : FirstOfName(f1, attached1, nm1, e)
                                => FirstOfName(f2, attached2, nm2, e)
  <2> HIDE DEF f1, attached1, nm1, i1, i2
  <2> QED BY <1>1, <1>4, <1>5, <1>8, PlacedKeeps
<1>10. SlotsWellFormed'
  BY <1>4, <1>5, <1>9 DEF WellFormed, SlotsWellFormed, InSlot, InSlotOf
<1>11. EndsTogether'
  <2>1. SUFFICES ASSUME NEW k \in Link
                 PROVE  attached_node'[<<k, 1>>] = NULL <=> attached_node'[<<k, 2>>] = NULL
    BY DEF EndsTogether
  <2>2. <<k, 1>> \in Interface /\ <<k, 2>> \in Interface
    BY DEF Interface
  <2>3. CASE k = l
    BY <1>1, <1>5, <2>3, BuilderAssumption DEF TypeOK
  <2>4. CASE k # l
    <3>1. attached_node'[<<k, 1>>] = attached_node[<<k, 1>>]
          /\ attached_node'[<<k, 2>>] = attached_node[<<k, 2>>]
      BY <1>5, <2>2, <2>4 DEF TypeOK
    <3>2. QED BY <3>1 DEF EndsTogether
  <2>5. QED BY <2>3, <2>4
<1>12. SetIsFirst'
  <2>1. SUFFICES ASSUME NEW e \in Interface,
                        ip_address[e] # NULL \/ layer_2_mode[e] # LAYER_2_MODE_UNKNOWN
                 PROVE  FirstOfName(f2, attached2, nm2, e)
    BY <1>4, <1>5 DEF SetIsFirst, insert_link_between_two_network_nodes, properties
  <2>2. FirstOfName(interface, attached_node, interface_name, e)
    BY <2>1 DEF SetIsFirst
  <2>3. QED BY <1>8, <1>9, <2>2
<1>13. QED BY <1>6, <1>10, <1>11, <1>12

(* Setting a property of a node or interface.                              *)
LEMMA SlotInvStep == SlotInv /\ [Next]_vars => SlotInv'
<1> SUFFICES ASSUME SlotInv, [Next]_vars PROVE SlotInv'
  OBVIOUS
<1> USE DEF SlotInv
<1>1. ASSUME NEW n \in Node, NEW name \in NodeName, create_network_graph_node(n, name)
      PROVE  SlotInv'
  <2>1. node_list' \in Seq(Node)
    BY <1>1, ConcatProperties DEF create_network_graph_node, TypeOK
  <2>2. Kept(name) \in Seq(Char \cup {POINTER}) /\ Len(Kept(name)) <= NETWORK_NODE_NAME_SIZE
    BY KeptBegins
  <2>3. /\ network_node_name' \in [Node -> Seq(Char \cup {POINTER})]
        /\ \A m \in Node : Len(network_node_name'[m]) <= NETWORK_NODE_NAME_SIZE
    BY <1>1, <2>2 DEF create_network_graph_node, TypeOK
  <2>4. created' \in Seq(Node \X NodeName)
    BY <1>1, AppendProperties DEF create_network_graph_node, TypeOK
  <2>5. TypeOK'
    BY <1>1, <2>1, <2>3, <2>4 DEF create_network_graph_node, TypeOK, properties
  <2>6. UNCHANGED <<interface, attached_node, interface_name, ip_address, layer_2_mode>>
    BY <1>1 DEF create_network_graph_node, properties
  <2>7. QED BY <2>5, <2>6
          DEF SlotsWellFormed, InSlot, EndsTogether, SetIsFirst, FirstOfName
<1>2. ASSUME NEW l \in Link, NEW n1 \in Node, NEW n2 \in Node,
             NEW name1 \in Name, NEW name2 \in Name,
             insert_link_between_two_network_nodes(l, n1, n2, name1, name2)
      PROVE  SlotInv'
  BY <1>2, LinkKeepsSlots
<1>3. ASSUME NEW n \in Node, NEW F \in {L3_ROUTER, L2_SWITCH, HUB}, network_node_device_type(n, F)
      PROVE  SlotInv'
  <2>1. TypeOK'
    BY <1>3, BuilderAssumption DEF network_node_device_type, Setting, graph, TypeOK
  <2>2. UNCHANGED <<interface, attached_node, interface_name, ip_address, layer_2_mode>>
    BY <1>3 DEF network_node_device_type, Setting, graph
  <2>3. QED BY <2>1, <2>2
          DEF SlotsWellFormed, InSlot, EndsTogether, SetIsFirst, FirstOfName
<1>4. ASSUME NEW n \in Node, network_node_set_loopback_address(n)
      PROVE  SlotInv'
  <2>1. aborted' \in BOOLEAN /\ loopback' \in [Node -> BOOLEAN]
    BY <1>4 DEF network_node_set_loopback_address, TypeOK
  <2>2. TypeOK'
    BY <1>4, <2>1, BuilderAssumption DEF network_node_set_loopback_address, Setting, graph, TypeOK
  <2>3. UNCHANGED <<interface, attached_node, interface_name, ip_address, layer_2_mode>>
    BY <1>4 DEF network_node_set_loopback_address, Setting, graph
  <2>4. QED BY <2>2, <2>3
          DEF SlotsWellFormed, InSlot, EndsTogether, SetIsFirst, FirstOfName
<1>5. ASSUME NEW n \in Node, NEW name \in Name, NEW a \in Address,
             network_node_set_interface_ip_address(n, name, a)
      PROVE  SlotInv'
  <2> DEFINE i == get_network_node_interface_by_name(n, name)
  <2>1. /\ aborted' = (i = NULL)
        /\ \/ i = NULL /\ UNCHANGED <<ip_address, configured>>
           \/ /\ i # NULL
              /\ ip_address' = [ip_address EXCEPT ![i] = a]
              /\ configured' = [configured EXCEPT ![i] = TRUE]
        /\ settings' = settings + 1 /\ settings < MaxSettings
        /\ UNCHANGED <<graph, layer_2_mode, flags, loopback>>
    BY <1>5 DEF network_node_set_interface_ip_address, Setting
  <2>2. i # NULL =>
          i \in Interface /\ FirstOfName(interface, attached_node, interface_name, i)
    BY FoundIsFirst
  <2> HIDE DEF i
  <2>3. ip_address' \in [Interface -> Address \cup {NULL}] /\ configured' \in [Interface -> BOOLEAN]
    BY <2>1 DEF TypeOK
  <2>4. aborted' \in BOOLEAN /\ settings' \in 0..MaxSettings
    BY <2>1, BuilderAssumption DEF TypeOK
  <2>5. TypeOK'
    BY <2>1, <2>3, <2>4 DEF TypeOK, graph
  <2>6. UNCHANGED <<interface, attached_node, interface_name, layer_2_mode>>
    BY <2>1 DEF graph
  <2>7. SlotsWellFormed' /\ EndsTogether'
    BY <2>6 DEF SlotsWellFormed, InSlot, EndsTogether
  <2>8. \A e \in Interface : ip_address'[e] # NULL => ip_address[e] # NULL \/ (e = i /\ i # NULL)
    <3>1. CASE ip_address' = ip_address
      BY <3>1
    <3>2. CASE i # NULL /\ ip_address' = [ip_address EXCEPT ![i] = a]
      BY <3>2 DEF TypeOK
    <3>3. QED BY <2>1, <3>1, <3>2
  <2>9. SetIsFirst'
    BY <2>2, <2>6, <2>8 DEF SetIsFirst, FirstOfName
  <2>10. QED BY <2>5, <2>7, <2>9
<1>6. ASSUME NEW n \in Node, NEW name \in Name, NEW mode \in Mode,
             network_node_set_interface_datalink_mode(n, name, mode)
      PROVE  SlotInv'
  <2> DEFINE i == get_network_node_interface_by_name(n, name)
             fails == (i = NULL \/ mode = LAYER_2_MODE_UNKNOWN)
  <2>1. /\ aborted' = fails
        /\ \/ fails /\ UNCHANGED <<configured, layer_2_mode>>
           \/ /\ i # NULL
              /\ configured' = [configured EXCEPT ![i] = FALSE]
              /\ layer_2_mode' = [layer_2_mode EXCEPT ![i] = mode]
        /\ settings' = settings + 1 /\ settings < MaxSettings
        /\ UNCHANGED <<graph, ip_address, flags, loopback>>
    BY <1>6 DEF network_node_set_interface_datalink_mode, Setting
  <2>2. i # NULL =>
          i \in Interface /\ FirstOfName(interface, attached_node, interface_name, i)
    BY FoundIsFirst
  <2>3. fails \in BOOLEAN
    OBVIOUS
  <2> HIDE DEF i, fails
  <2>4. configured' \in [Interface -> BOOLEAN] /\ layer_2_mode' \in [Interface -> Mode]
    BY <2>1 DEF TypeOK
  <2>5. aborted' \in BOOLEAN /\ settings' \in 0..MaxSettings
    BY <2>1, <2>3, BuilderAssumption DEF TypeOK
  <2>6. TypeOK'
    BY <2>1, <2>4, <2>5 DEF TypeOK, graph
  <2>7. UNCHANGED <<interface, attached_node, interface_name, ip_address>>
    BY <2>1 DEF graph
  <2>8. SlotsWellFormed' /\ EndsTogether'
    BY <2>7 DEF SlotsWellFormed, InSlot, EndsTogether
  <2>9. \A e \in Interface : layer_2_mode'[e] # LAYER_2_MODE_UNKNOWN
                               => layer_2_mode[e] # LAYER_2_MODE_UNKNOWN \/ (e = i /\ i # NULL)
    <3>1. CASE layer_2_mode' = layer_2_mode
      BY <3>1
    <3>2. CASE i # NULL /\ layer_2_mode' = [layer_2_mode EXCEPT ![i] = mode]
      BY <3>2 DEF TypeOK
    <3>3. QED BY <2>1, <3>1, <3>2
  <2>10. SetIsFirst'
    BY <2>2, <2>7, <2>9 DEF SetIsFirst, FirstOfName
  <2>11. QED BY <2>6, <2>8, <2>10
<1>7. CASE UNCHANGED vars
  <2>1. TypeOK'
    BY <1>7 DEF vars, graph, properties, TypeOK
  <2>2. SlotsWellFormed' /\ EndsTogether' /\ SetIsFirst'
    BY <1>7 DEF vars, graph, properties, SlotsWellFormed, InSlot, EndsTogether, SetIsFirst,
                FirstOfName
  <2>3. QED BY <2>1, <2>2
<1>8. QED BY <1>1, <1>2, <1>3, <1>4, <1>5, <1>6, <1>7 DEF Next

LEMMA SlotInvAlways == Spec => []SlotInv
BY SlotInvInit, SlotInvStep, PTL DEF Spec

(* No sequence of calls leaves the types; in particular no node ever has   *)
(* more interfaces than slots.                                             *)
THEOREM BuilderTypes == Spec => []TypeOK
<1>1. SlotInv => TypeOK
  BY DEF SlotInv
<1>2. QED BY <1>1, SlotInvAlways, PTL

(* Slots are well formed, even after slot -1 has been written.             *)
THEOREM SlotsAlwaysWellFormed == Spec => []SlotsWellFormed
<1>1. SlotInv => SlotsWellFormed
  BY DEF SlotInv
<1>2. QED BY <1>1, SlotInvAlways, PTL

(* What has been set up by name is still found by that name.               *)
THEOREM SetAlwaysFoundByName == Spec => []SetInterfacesFoundByName
<1>1. SlotInv => SetInterfacesFoundByName
  <2>1. SUFFICES ASSUME SlotInv, NEW i \in Interface,
                        ip_address[i] # NULL \/ layer_2_mode[i] # LAYER_2_MODE_UNKNOWN
                 PROVE  /\ attached_node[i] # NULL
                        /\ get_network_node_interface_by_name(attached_node[i], interface_name[i]) = i
    BY DEF SetInterfacesFoundByName
  <2>2. FirstOfName(interface, attached_node, interface_name, i)
    BY <2>1 DEF SlotInv, SetIsFirst
  <2>3. QED BY <2>1, <2>2, FirstIsFound DEF SlotInv, FirstOfName
<1>2. QED BY <1>1, SlotInvAlways, PTL
-----------------------------------------------------------------------------
(* What a name looks like once the slots of its node may be used up.       *)
Named(f, names, n, name) ==
  \/ names[n] = name
  \/ Len(f[n]) = MAXIMUM_INTERFACE_PER_NODE /\ names[n] = NameUnderPointer(name)

(* The list holds the nodes latest first, under what they keep of the      *)
(* names they were given.                                                  *)
NameInv ==
  /\ TypeOK
  /\ Len(node_list) = Len(created)
  /\ \A k \in 1..Len(created) :
       /\ node_list[Len(created) + 1 - k] = created[k][1]
       /\ Named(interface, network_node_name, created[k][1], Kept(created[k][2]))

(* A prefix, character by character.                                       *)
LEMMA PrefixPointwise ==
  ASSUME NEW S, NEW s \in Seq(S), NEW t \in Seq(S)
  PROVE  IsPrefix(s, t) <=> Len(s) <= Len(t) /\ \A k \in 1..Len(s) : s[k] = t[k]
<1>1. Len(s) \in Nat /\ Len(t) \in Nat
  OBVIOUS
<1>2. CASE Len(s) <= Len(t)
  <2>1. /\ SubSeq(s, 1, Len(s)) \in Seq(S) /\ Len(SubSeq(s, 1, Len(s))) = Len(s)
        /\ \A k \in 1..Len(s) : SubSeq(s, 1, Len(s))[k] = s[k]
    BY <1>1, SubSeqProperties
  <2>2. /\ SubSeq(t, 1, Len(s)) \in Seq(S) /\ Len(SubSeq(t, 1, Len(s))) = Len(s)
        /\ \A k \in 1..Len(s) : SubSeq(t, 1, Len(s))[k] = t[k]
    BY <1>1, <1>2, SubSeqProperties
  <2>3. SubSeq(s, 1, Len(s)) = SubSeq(t, 1, Len(s)) <=> \A k \in 1..Len(s) : s[k] = t[k]
    BY <2>1, <2>2, SeqEqual
  <2>4. QED BY <1>2, <2>3 DEF IsPrefix
<1>3. CASE ~ (Len(s) <= Len(t))
  BY <1>3 DEF IsPrefix
<1>4. QED BY <1>2, <1>3

(* What begins the kept part of a name begins the name.                    *)
LEMMA BeginsKept ==
  ASSUME NEW typed \in Seq(Char), NEW name \in NodeName, IsPrefix(typed, Kept(name))
  PROVE  IsPrefix(typed, name)
<1> DEFINE kept == Kept(name)
<1>1. /\ name \in Seq(Char) /\ kept \in Seq(Char)
      /\ Len(kept) <= Len(name)
      /\ \A k \in 1..Len(kept) : kept[k] = name[k]
  BY KeptBegins
<1> HIDE DEF kept
<1>2. Len(typed) <= Len(kept) /\ \A k \in 1..Len(typed) : typed[k] = kept[k]
  BY <1>1, PrefixPointwise DEF kept
<1>3. Len(typed) <= Len(name) /\ \A k \in 1..Len(typed) : typed[k] = name[k]
  BY <1>1, <1>2
<1>4. QED BY <1>1, <1>3, PrefixPointwise

(* The characters of a name with a pointer in it.                          *)
LEMMA UnderPointerAt ==
  ASSUME NEW c \in Seq(Char \cup {POINTER}), Len(c) >= NAME_BYTES_BEFORE_POINTER
  PROVE  /\ Len(NameUnderPointer(c)) = NAME_BYTES_BEFORE_POINTER + 1
         /\ \A k \in 1..NAME_BYTES_BEFORE_POINTER : NameUnderPointer(c)[k] = c[k]
         /\ NameUnderPointer(c)[NAME_BYTES_BEFORE_POINTER + 1] = POINTER
<1> DEFINE B == NAME_BYTES_BEFORE_POINTER
           front == SubSeq(c, 1, B)
<1>1. B \in Nat /\ Len(c) \in Nat
  BY BuilderAssumption
<1>2. NameUnderPointer(c) = front \o <<POINTER>>
  BY <1>1 DEF NameUnderPointer
<1>3. front \in Seq(Char \cup {POINTER}) /\ Len(front) = B /\ \A k \in 1..B : front[k] = c[k]
  BY <1>1, SubSeqProperties
<1>4. <<POINTER>> \in Seq(Char \cup {POINTER}) /\ Len(<<POINTER>>) = 1 /\ <<POINTER>>[1] = POINTER
  OBVIOUS
<1> HIDE DEF front
<1>5. QED BY <1>1, <1>2, <1>3, <1>4, ConcatProperties

(* A second pointer over the same name changes nothing that is read.       *)
LEMMA UnderPointerTwice ==
  ASSUME NEW c \in Seq(Char \cup {POINTER})
  PROVE  NameUnderPointer(NameUnderPointer(c)) = NameUnderPointer(c)
<1> DEFINE d == NameUnderPointer(c)
           e == NameUnderPointer(d)
           B == NAME_BYTES_BEFORE_POINTER
<1>1. CASE Len(c) < B
  BY <1>1 DEF NameUnderPointer
<1>2. CASE Len(c) >= B
  <2>1. d \in Seq(Char \cup {POINTER}) /\ e \in Seq(Char \cup {POINTER})
    BY NameUnderPointerType
  <2>2. Len(d) = B + 1 /\ (\A k \in 1..B : d[k] = c[k]) /\ d[B + 1] = POINTER
    BY <1>2, UnderPointerAt
  <2>3. B \in Nat
    BY BuilderAssumption
  <2> HIDE DEF d
  <2>4. Len(e) = B + 1 /\ (\A k \in 1..B : e[k] = d[k]) /\ e[B + 1] = POINTER
    BY <2>1, <2>2, <2>3, UnderPointerAt
  <2> HIDE DEF e
  <2>5. \A k \in 1..Len(e) : e[k] = d[k]
    BY <2>2, <2>3, <2>4
  <2>6. e = d
    BY <2>1, <2>2, <2>4, <2>5, SeqEqual
  <2>7. QED BY <2>6 DEF e, d
<1>3. QED BY <1>1, <1>2, BuilderAssumption

(* What is typed contains no pointer: it begins an overwritten name only   *)
(* if it begins the name itself, and a name that ends before the pointer   *)
(* still begins what is read.                                              *)
LEMMA PrefixUnderPointer ==
  ASSUME NEW typed \in Seq(Char), NEW c \in Seq(Char)
  PROVE  /\ IsPrefix(typed, NameUnderPointer(c)) => IsPrefix(typed, c)
         /\ Len(c) <= NAME_BYTES_BEFORE_POINTER => IsPrefix(c, NameUnderPointer(c))
<1> DEFINE S == Char \cup {POINTER}
           B == NAME_BYTES_BEFORE_POINTER
           d == NameUnderPointer(c)
<1>1. typed \in Seq(S) /\ c \in Seq(S) /\ B \in Nat /\ Len(c) \in Nat /\ Len(typed) \in Nat
  BY BuilderAssumption
<1>2. d \in Seq(S)
  BY <1>1, NameUnderPointerType
<1>3. CASE Len(c) < B
  <2>1. d = c
    BY <1>3 DEF NameUnderPointer
  <2>2. IsPrefix(c, c)
    BY DEF IsPrefix
  <2>3. QED BY <2>1, <2>2
<1>4. CASE Len(c) >= B
  <2>1. Len(d) = B + 1 /\ (\A k \in 1..B : d[k] = c[k]) /\ d[B + 1] = POINTER
    BY <1>1, <1>4, UnderPointerAt
  <2> HIDE DEF d
  <2>2. ASSUME IsPrefix(typed, d) PROVE IsPrefix(typed, c)
    <3>1. Len(typed) <= Len(d) /\ \A k \in 1..Len(typed) : typed[k] = d[k]
      BY <1>1, <1>2, <2>2, PrefixPointwise
    <3>2. \A k \in 1..Len(typed) : typed[k] # POINTER
      BY BuilderAssumption
    <3>3. Len(typed) <= B
      BY <1>1, <2>1, <3>1, <3>2
    <3>4. Len(typed) <= Len(c) /\ \A k \in 1..Len(typed) : typed[k] = c[k]
      BY <1>1, <1>4, <2>1, <3>1, <3>3
    <3>5. QED BY <1>1, <3>4, PrefixPointwise
  <2>3. ASSUME Len(c) <= B PROVE IsPrefix(c, d)
    <3>1. Len(c) <= Len(d) /\ \A k \in 1..Len(c) : c[k] = d[k]
      BY <1>1, <1>4, <2>1, <2>3
    <3>2. QED BY <1>1, <1>2, <3>1, PrefixPointwise
  <2>4. QED BY <2>2, <2>3 DEF d
<1>5. QED BY <1>1, <1>3, <1>4

(* Storing an interface keeps every node under its name.                   *)
LEMMA StoredKeepsNamed ==
  ASSUME NEW f \in Slots, NEW names \in Names, NEW n \in Node, NEW i \in Interface,
         NEW m \in Node, NEW c \in Seq(Char \cup {POINTER}), Named(f, names, m, c)
  PROVE  LET after == Stored([interface |-> f, name |-> names], n, i) IN
         Named(after.interface, after.name, m, c)
<1> DEFINE after == Stored([interface |-> f, name |-> names], n, i)
<1>1. \A k \in Node : Len(f[k]) \in Nat /\ Len(f[k]) <= MAXIMUM_INTERFACE_PER_NODE
  BY DEF Slots
<1>2. CASE Len(f[n]) < MAXIMUM_INTERFACE_PER_NODE
  <2>1. after.name = names /\ after.interface = [f EXCEPT ![n] = Append(f[n], i)]
    BY <1>2 DEF Stored
  <2>2. m # n => after.interface[m] = f[m]
    BY <2>1 DEF Slots
  <2>3. m = n => names[m] = c
    BY <1>1, <1>2, BuilderAssumption DEF Named
  <2>4. QED BY <2>1, <2>2, <2>3 DEF Named
<1>3. CASE ~ (Len(f[n]) < MAXIMUM_INTERFACE_PER_NODE)
  <2>1. after.interface = f /\ after.name = [names EXCEPT ![n] = NameUnderPointer(names[n])]
    BY <1>3 DEF Stored
  <2>2. Len(f[n]) = MAXIMUM_INTERFACE_PER_NODE
    BY <1>1, <1>3, BuilderAssumption
  <2>3. CASE m = n
    <3>1. after.name[m] = NameUnderPointer(names[m])
      BY <2>1, <2>3 DEF Names
    <3>2. NameUnderPointer(names[m]) = NameUnderPointer(c)
      BY UnderPointerTwice DEF Named
    <3>3. QED BY <2>1, <2>2, <2>3, <3>1, <3>2 DEF Named
  <2>4. CASE m # n
    <3>1. after.name[m] = names[m]
      BY <2>1, <2>4 DEF Names
    <3>2. QED BY <2>1, <3>1 DEF Named
  <2>5. QED BY <2>3, <2>4
<1>4. QED BY <1>2, <1>3
-----------------------------------------------------------------------------
LEMMA NameInvInit == Init => NameInv
<1>1. Init => TypeOK
  BY SlotInvInit DEF SlotInv
<1>2. QED BY <1>1 DEF Init, NameInv

(* The given names and nodes, one by one.                                  *)
LEMMA CreatedTypes ==
  ASSUME TypeOK
  PROVE  /\ Len(created) \in Nat
         /\ \A k \in 1..Len(created) :
              /\ created[k][1] \in Node /\ created[k][2] \in NodeName
              /\ Kept(created[k][2]) \in Seq(Char)
              /\ Kept(created[k][2]) \in Seq(Char \cup {POINTER})
<1>1. created \in Seq(Node \X NodeName)
  BY DEF TypeOK
<1>2. Len(created) \in Nat
      /\ \A k \in 1..Len(created) : created[k][1] \in Node /\ created[k][2] \in NodeName
  BY <1>1
<1>3. QED BY <1>2, KeptBegins

LEMMA NameInvStep == NameInv /\ TypeOK' /\ [Next]_vars => NameInv'
<1> SUFFICES ASSUME NameInv, TypeOK', [Next]_vars PROVE NameInv'
  OBVIOUS
<1> USE DEF NameInv
<1>1. ASSUME NEW n \in Node, NEW name \in NodeName, create_network_graph_node(n, name)
      PROVE  NameInv'
  <2> DEFINE len == Len(created)
  <2>1. /\ len \in Nat /\ Len(created') = len + 1
        /\ created'[len + 1] = <<n, name>>
        /\ \A k \in 1..len : created'[k] = created[k]
    BY <1>1, AppendProperties DEF create_network_graph_node, TypeOK
  <2>2. /\ Len(node_list') = len + 1 /\ node_list'[1] = n
        /\ \A k \in 2..(len + 1) : node_list'[k] = node_list[k - 1]
    BY <1>1, <2>1, ConcatProperties DEF create_network_graph_node, TypeOK
  <2>3. network_node_name'[n] = Kept(name)
        /\ \A m \in Node \ {n} : network_node_name'[m] = network_node_name[m]
    BY <1>1 DEF create_network_graph_node, TypeOK
  <2>4. interface' = interface
    BY <1>1 DEF create_network_graph_node
  <2>5. ASSUME NEW k \in 1..len
        PROVE  /\ node_list'[len + 2 - k] = created'[k][1]
               /\ Named(interface', network_node_name', created'[k][1], Kept(created'[k][2]))
    <3>1. node_list[len + 1 - k] = created[k][1] /\ len + 1 - k \in 1..len
      BY <2>1
    <3>2. created[k][1] \in Created
      BY <3>1 DEF Created
    <3>3. created[k][1] # n /\ created[k][1] \in Node
      BY <1>1, <2>1, <3>2, CreatedTypes DEF create_network_graph_node
    <3>4. len + 2 - k \in 2..(len + 1) /\ (len + 2 - k) - 1 = len + 1 - k
      BY <2>1
    <3>5. node_list'[len + 2 - k] = created'[k][1]
      BY <2>1, <2>2, <3>1, <3>4
    <3>6. QED BY <2>1, <2>3, <2>4, <3>3, <3>5 DEF Named
  <2>6. node_list'[1] = created'[len + 1][1]
        /\ Named(interface', network_node_name', created'[len + 1][1], Kept(created'[len + 1][2]))
    BY <2>1, <2>2, <2>3 DEF Named
  <2> HIDE DEF len
  <2>7. \A k \in 1..(len + 1) :
          /\ node_list'[len + 2 - k] = created'[k][1]
          /\ Named(interface', network_node_name', created'[k][1], Kept(created'[k][2]))
    <3>1. \A k \in 1..(len + 1) : k \in 1..len \/ (k = len + 1 /\ len + 2 - k = 1)
      BY <2>1 DEF len
    <3>2. QED BY <2>5, <2>6, <3>1
  <2>8. Len(created') = len + 1 /\ Len(created') + 1 = len + 2
    BY <2>1 DEF len
  <2>9. QED BY <2>2, <2>7, <2>8 DEF len
<1>2. ASSUME NEW l \in Link, NEW n1 \in Node, NEW n2 \in Node,
             NEW name1 \in Name, NEW name2 \in Name,
             insert_link_between_two_network_nodes(l, n1, n2, name1, name2)
      PROVE  NameInv'
  <2> DEFINE i1 == <<l, 1>>
             i2 == <<l, 2>>
             before == [interface |-> interface, name |-> network_node_name]
             mid == Stored(before, n1, i1)
             after == Stored(mid, n2, i2)
  <2>1. i1 \in Interface /\ i2 \in Interface
    BY DEF Interface
  <2>2. interface \in Slots /\ network_node_name \in Names
    BY DEF TypeOK, Slots, Names
  <2>3. mid.interface \in Slots /\ mid.name \in Names
    BY <2>1, <2>2, StoredIsPlaced, PlacedSlots
  <2>4. mid = [interface |-> mid.interface, name |-> mid.name]
    BY StoredRecord
  <2>5. /\ interface' = after.interface /\ network_node_name' = after.name
        /\ UNCHANGED <<node_list, created>>
    BY <1>2 DEF insert_link_between_two_network_nodes
  <2>6. ASSUME NEW k \in 1..Len(created)
        PROVE  Named(interface', network_node_name', created[k][1], Kept(created[k][2]))
    <3>1. created[k][1] \in Node /\ Kept(created[k][2]) \in Seq(Char \cup {POINTER})
      BY CreatedTypes
    <3>2. Named(mid.interface, mid.name, created[k][1], Kept(created[k][2]))
      BY <2>1, <2>2, <3>1, StoredKeepsNamed
    <3>3. Named(after.interface, after.name, created[k][1], Kept(created[k][2]))
      <4> HIDE DEF mid
      <4> QED BY <2>1, <2>3, <2>4, <3>1, <3>2, StoredKeepsNamed
    <3>4. QED BY <2>5, <3>3
  <2> HIDE DEF after
  <2>7. QED BY <2>5, <2>6
<1>3. ASSUME UNCHANGED graph
      PROVE  NameInv'
  BY <1>3 DEF graph, Named
<1>4. QED
  BY <1>1, <1>2, <1>3
  DEF Next, vars, network_node_device_type, network_node_set_loopback_address,
      network_node_set_interface_ip_address, network_node_set_interface_datalink_mode, Setting

(* What a node keeps of its name finds it, unless one of the two           *)
(* exceptions holds.                                                       *)
LEMMA NameInvFinds == NameInv => KeptNameFindsNode
<1> SUFFICES ASSUME NameInv, NEW k \in 1..Len(created),
                    \A j \in (k + 1)..Len(created) : ~ IsPrefix(Kept(created[k][2]), created[j][2]),
                    ~ (/\ Len(interface[created[k][1]]) = MAXIMUM_INTERFACE_PER_NODE
                       /\ Len(Kept(created[k][2])) > NAME_BYTES_BEFORE_POINTER)
             PROVE  get_network_node_by_node_name(Kept(created[k][2])) = created[k][1]
  BY DEF KeptNameFindsNode
<1> DEFINE len == Len(created)
           n == created[k][1]
           name == Kept(created[k][2])
           p == len + 1 - k
           hits == {m \in 1..Len(node_list) : IsPrefix(name, network_node_name[node_list[m]])}
<1>1. len \in Nat /\ Len(node_list) = len /\ p \in 1..len /\ name \in Seq(Char) /\ n \in Node
  BY CreatedTypes DEF NameInv
<1>2. node_list[p] = n
  BY DEF NameInv
<1>3. p \in hits
  <2>1. Named(interface, network_node_name, n, name)
    BY DEF NameInv
  <2>2. IsPrefix(name, name)
    BY DEF IsPrefix
  <2>3. CASE network_node_name[n] = name
    BY <1>1, <1>2, <2>2, <2>3
  <2>4. CASE /\ Len(interface[n]) = MAXIMUM_INTERFACE_PER_NODE
             /\ network_node_name[n] = NameUnderPointer(name)
    <3>1. Len(name) <= NAME_BYTES_BEFORE_POINTER
      BY <1>1, <2>4, BuilderAssumption
    <3>2. IsPrefix(name, NameUnderPointer(name))
      BY <1>1, <3>1, PrefixUnderPointer
    <3>3. QED BY <1>1, <1>2, <2>4, <3>2
  <2>5. QED BY <2>1, <2>3, <2>4 DEF Named
<1>4. ASSUME NEW m \in hits PROVE p <= m
  <2>1. SUFFICES ASSUME m < p PROVE FALSE
    BY <1>1
  <2> DEFINE j == len + 1 - m
  <2>2. j \in (k + 1)..len /\ j \in 1..len /\ len + 1 - j = m
    BY <1>1, <2>1
  <2>3. node_list[m] = created[j][1] /\ Named(interface, network_node_name, created[j][1], Kept(created[j][2]))
    BY <2>2 DEF NameInv
  <2>4. created[j][2] \in NodeName /\ Kept(created[j][2]) \in Seq(Char)
    BY <2>2, CreatedTypes DEF NameInv
  <2>5. IsPrefix(name, network_node_name[created[j][1]])
    BY <2>3
  <2>6. IsPrefix(name, Kept(created[j][2]))
    BY <1>1, <2>3, <2>4, <2>5, PrefixUnderPointer DEF Named
  <2>7. IsPrefix(name, created[j][2])
    BY <1>1, <2>4, <2>6, BeginsKept
  <2>8. QED BY <2>2, <2>7
<1>5. (CHOOSE m \in hits : \A j \in hits : m <= j) = p
  <2> DEFINE first == CHOOSE m \in hits : \A j \in hits : m <= j
  <2>1. hits \subseteq Nat
    BY <1>1
  <2> HIDE DEF hits, p
  <2>2. first \in hits /\ \A j \in hits : first <= j
    BY <1>3, <1>4
  <2> HIDE DEF first
  <2>3. first = p
    BY <1>3, <1>4, <2>1, <2>2
  <2>4. QED BY <2>3 DEF first
<1>6. QED BY <1>2, <1>3, <1>5 DEF get_network_node_by_node_name

(* Whatever names nodes are given, of any length: what a node keeps of its *)
(* name selects that node, with the exceptions that the property names,    *)
(* for any links and slot limit.                                           *)
THEOREM KeptNameAlwaysFinds == Spec => []KeptNameFindsNode
<1>1. Spec => []NameInv
  <2>1. SlotInv' => TypeOK'
    BY DEF SlotInv
  <2>2. QED BY NameInvInit, NameInvStep, SlotInvAlways, <2>1, PTL DEF Spec
<1>2. QED BY <1>1, NameInvFinds, PTL
=============================================================================
