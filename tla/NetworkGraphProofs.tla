-------------------------- MODULE NetworkGraphProofs --------------------------
(***************************************************************************)
(* What the look-ups of networkgraph.h and network.c return, in any graph. *)
(***************************************************************************)
EXTENDS NetworkGraph, WellFoundedInduction, TLAPS

(* A set of slots that is not empty has a first one.                       *)
LEMMA FirstSlot ==
  ASSUME NEW hits, hits \subseteq Nat, hits # {}
  PROVE  \E k \in hits : \A j \in hits : k <= j
<1>1. IsWellFoundedOn(OpToRel(<, Nat), Nat)
  BY NatLessThanWellFounded
<1>2. \E k \in hits : \A j \in hits : ~ (<<j, k>> \in OpToRel(<, Nat))
  BY <1>1, WFMin
<1>3. \A j, k \in hits : ~ (<<j, k>> \in OpToRel(<, Nat)) => k <= j
  BY DEF OpToRel
<1>4. QED BY <1>2, <1>3

(* A scan of the slots of n returns NULL or the interface in a slot that   *)
(* is hit.                                                                 *)
LEMMA FirstOfHits ==
  ASSUME NEW n \in Node, NEW hits, hits \subseteq Slot(n), hits # {}
  PROVE  \E k \in hits : FirstOf(n, hits) = interface[n][k]
<1>1. hits \subseteq Nat
  BY GraphAssumption DEF Slot
<1>2. PICK k \in hits : \A j \in hits : k <= j
  BY <1>1, FirstSlot
<1>3. (CHOOSE m \in hits : \A j \in hits : m <= j) \in hits
  BY <1>2
<1>4. QED BY <1>3 DEF FirstOf

(* Every slot in use holds an interface of its node.                       *)
LEMMA SlotHolds ==
  ASSUME NEW n \in Node, NEW k \in Slot(n)
  PROVE  interface[n][k] \in Interface /\ attached_node[interface[n][k]] = n
<1>1. interface[n] \in Seq(Interface)
  BY GraphAssumption
<1>2. interface[n][k] \in Interface
  BY <1>1 DEF Slot
<1>3. QED BY <1>2, GraphAssumption

(* What get_network_node_interface_by_name finds has the name and belongs  *)
(* to the node, ...                                                        *)
LEMMA ByNameSound ==
  ASSUME NEW n \in Node, NEW name,
         get_network_node_interface_by_name(n, name) # NULL
  PROVE  LET i == get_network_node_interface_by_name(n, name) IN
         i \in Interface /\ attached_node[i] = n /\ interface_name[i] = name
<1> DEFINE hits == {k \in Slot(n) : interface_name[interface[n][k]] = name}
<1>1. hits # {}
  BY DEF get_network_node_interface_by_name, FirstOf
<1>2. PICK k \in hits : FirstOf(n, hits) = interface[n][k]
  BY <1>1, FirstOfHits
<1>3. QED BY <1>2, SlotHolds DEF get_network_node_interface_by_name

(* ... and every interface is found by its name.                           *)
LEMMA ByNameComplete ==
  ASSUME NEW i \in Interface
  PROVE  get_network_node_interface_by_name(attached_node[i], interface_name[i]) = i
<1> DEFINE n == attached_node[i]
           hits == {k \in Slot(n) : interface_name[interface[n][k]] = interface_name[i]}
<1>1. n \in Node
  BY GraphAssumption
<1>2. PICK k \in Slot(n) : interface[n][k] = i
  BY GraphAssumption
<1>3. hits # {}
  BY <1>2
<1>4. PICK m \in hits : FirstOf(n, hits) = interface[n][m]
  BY <1>1, <1>3, FirstOfHits
<1>5. interface[n][m] \in Interface /\ attached_node[interface[n][m]] = n
  BY <1>1, <1>4, SlotHolds
<1>6. interface[n][m] = i
  BY <1>4, <1>5, NamesDistinct
<1>7. QED BY <1>4, <1>6 DEF get_network_node_interface_by_name

(* What node_get_matching_subnet_interface finds is an interface of the    *)
(* node in L3 mode.                                                        *)
LEMMA MatchingSubnet ==
  ASSUME NEW n \in Node, NEW ip, NEW L3,
         node_get_matching_subnet_interface(n, ip, L3) # NULL
  PROVE  LET i == node_get_matching_subnet_interface(n, ip, L3) IN
         i \in Interface /\ attached_node[i] = n /\ L3[i]
<1> DEFINE hits == {k \in Slot(n) :
                      LET i == interface[n][k] IN
                        /\ L3[i]
                        /\ apply_subnet_mask(ip_address[i], mask[i])
                             = apply_subnet_mask(ip, mask[i])}
<1>1. hits # {}
  BY DEF node_get_matching_subnet_interface, FirstOf
<1>2. hits \subseteq Slot(n)
  OBVIOUS
<1>3. PICK k \in hits : FirstOf(n, hits) = interface[n][k]
  BY <1>1, <1>2, FirstOfHits
<1>4. QED BY <1>3, SlotHolds DEF node_get_matching_subnet_interface
=============================================================================
