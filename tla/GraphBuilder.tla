----------------------------- MODULE GraphBuilder -----------------------------
(***************************************************************************)
(* The functions that a topology builder calls, one action each, in any    *)
(* order and with any arguments (networkgraph.c, network.c and             *)
(* network_node_set_interface_datalink_mode of dataLinkLayer.c).  Nothing  *)
(* else runs while a builder does.                                         *)
(*                                                                         *)
(* A node has MAXIMUM_INTERFACE_PER_NODE slots.  When all are in use the   *)
(* search for a free one returns -1, and the store to interface[-1] lands  *)
(* in the last bytes of the node's name.                                   *)
(***************************************************************************)
EXTENDS Integers, FiniteSets, SequencesExt

CONSTANTS
  Node,        \* network_node_t objects
  Link,        \* network_link_t objects, each with two interfaces in it
  Name,        \* interface names, as their fields hold them
  Char,        \* what node names are made of
  NodeName,    \* names that nodes are given, as sequences of Char; they may
               \* be longer than the field that holds them
  Address,     \* IP addresses with their masks
  NULL,
  POINTER,     \* the bytes of a pointer, read as part of a name
  MAXIMUM_INTERFACE_PER_NODE,
  NETWORK_NODE_NAME_SIZE,
  NAME_BYTES_BEFORE_POINTER,
               \* NETWORK_NODE_NAME_SIZE less the size of a pointer: what
               \* comes before interface[-1]
  L3_ROUTER, L2_SWITCH, HUB,
  ACCESS, TRUNK, LAYER_2_MODE_UNKNOWN,
  MaxSettings  \* bound: properties set in one run

ASSUME BuilderAssumption ==
  /\ NULL \notin Node /\ NULL \notin Link \X {1, 2} /\ NULL \notin Address
  /\ NodeName \subseteq Seq(Char) \ {<<>>}
  /\ POINTER \notin Char
  /\ MAXIMUM_INTERFACE_PER_NODE \in Nat \ {0}
  /\ NETWORK_NODE_NAME_SIZE \in Nat /\ NAME_BYTES_BEFORE_POINTER \in Nat
  /\ NAME_BYTES_BEFORE_POINTER < NETWORK_NODE_NAME_SIZE
  /\ L3_ROUTER # HUB /\ L2_SWITCH \notin {L3_ROUTER, HUB}
  /\ ACCESS # TRUNK /\ LAYER_2_MODE_UNKNOWN \notin {ACCESS, TRUNK}
  /\ MaxSettings \in Nat

Mode == {ACCESS, TRUNK, LAYER_2_MODE_UNKNOWN}

(* interface1 and interface2 of a link.                                    *)
Interface == Link \X {1, 2}

VARIABLES
  node_list,          \* nodes in the order of network_graph_t.network_node_list
  network_node_name,  \* what a node's array reads as, up to its first zero
  interface,          \* network_node_t.interface[]: the slots in use, in order
  attached_node,      \* NULL while the link has not been allocated
  interface_name,
  ip_address,         \* with its mask; NULL if it was never set
  configured,         \* is_ip_address_configured
  layer_2_mode,
  flags,              \* the bits of node_network_properties_t.flags
  loopback,           \* is_loopback_address_configured
  aborted,            \* an assertion failed
  settings,           \* number of properties set
  created             \* history: <<node, the name it was given>>, oldest first

graph == <<node_list, network_node_name, interface, attached_node, interface_name, created>>
properties == <<ip_address, configured, layer_2_mode, flags, loopback>>
vars == <<graph, properties, aborted, settings>>
-----------------------------------------------------------------------------
(* Mutant: the last slot whose interface has the name.                     *)
LastByName(n, name) ==
  LET hits == {k \in 1..Len(interface[n]) : interface_name[interface[n][k]] = name} IN
  IF hits = {} THEN NULL ELSE interface[n][CHOOSE k \in hits : \A j \in hits : k >= j]

(* The first slot whose interface has the name; namesakes behind it are    *)
(* not found.                                                              *)
get_network_node_interface_by_name(n, name) ==
  LET hits == {k \in 1..Len(interface[n]) : interface_name[interface[n][k]] = name} IN
  IF hits = {} THEN NULL ELSE interface[n][CHOOSE k \in hits : \A j \in hits : k <= j]

(* The first node in the list whose name begins with what was typed, which *)
(* is no longer than the array: of more than that strncmp would compare    *)
(* the rest with whatever bytes interface[0] has.                          *)
get_network_node_by_node_name(node_name) ==
  LET hits == {k \in 1..Len(node_list) : IsPrefix(node_name, network_node_name[node_list[k]])} IN
  IF hits = {} THEN NULL ELSE node_list[CHOOSE k \in hits : \A j \in hits : k <= j]

(* What strncpy copies into the node: the array holds no more of a longer  *)
(* name.  The zero that is stored after it lands behind the array, in the  *)
(* bytes of interface[0], which is still null; the first link ends it.     *)
Kept(name) ==
  IF Len(name) <= NETWORK_NODE_NAME_SIZE THEN name
  ELSE SubSeq(name, 1, NETWORK_NODE_NAME_SIZE)

(* A pointer stored in slot -1 replaces the end of a long name and         *)
(* continues one that just fits; a shorter name ends before it.            *)
NameUnderPointer(name) ==
  IF Len(name) < NAME_BYTES_BEFORE_POINTER THEN name
  ELSE SubSeq(name, 1, NAME_BYTES_BEFORE_POINTER) \o <<POINTER>>

(* Mutants: the limit is one too high, or one too low.                     *)
StoredPastEnd(nodes, n, i) ==
  IF Len(nodes.interface[n]) <= MAXIMUM_INTERFACE_PER_NODE
  THEN [nodes EXCEPT !.interface[n] = Append(@, i)]
  ELSE [nodes EXCEPT !.name[n] = NameUnderPointer(@)]

StoredBeforeLast(nodes, n, i) ==
  IF Len(nodes.interface[n]) < MAXIMUM_INTERFACE_PER_NODE - 1
  THEN [nodes EXCEPT !.interface[n] = Append(@, i)]
  ELSE [nodes EXCEPT !.name[n] = NameUnderPointer(@)]

(* Slots and names of the nodes after interface i was stored in the slot   *)
(* that get_network_node_interface_available_slots returned for n.         *)
Stored(nodes, n, i) ==
  IF Len(nodes.interface[n]) < MAXIMUM_INTERFACE_PER_NODE
  THEN [nodes EXCEPT !.interface[n] = Append(@, i)]
  ELSE [nodes EXCEPT !.name[n] = NameUnderPointer(@)]

-----------------------------------------------------------------------------
(* create_new_network_graph; the objects are not allocated yet.            *)
Init ==
  /\ node_list = <<>> /\ created = <<>>
  /\ network_node_name = [n \in Node |-> <<>>]
  /\ interface = [n \in Node |-> <<>>]
  /\ attached_node = [i \in Interface |-> NULL]
  /\ interface_name = [i \in Interface |-> NULL]
  /\ ip_address = [i \in Interface |-> NULL]
  /\ configured = [i \in Interface |-> FALSE]
  /\ layer_2_mode = [i \in Interface |-> LAYER_2_MODE_UNKNOWN]
  /\ flags = [n \in Node |-> {}]
  /\ loopback = [n \in Node |-> FALSE]
  /\ aborted = FALSE
  /\ settings = 0

Created == {node_list[k] : k \in 1..Len(node_list)}

(* Mutant: the node is added at the end of the list.                       *)
CreateLast(n, name) ==
  /\ ~aborted /\ n \notin Created
  /\ network_node_name' = [network_node_name EXCEPT ![n] = Kept(name)]
  /\ node_list' = Append(node_list, n)
  /\ created' = Append(created, <<n, name>>)
  /\ UNCHANGED <<interface, attached_node, interface_name, properties, aborted, settings>>

create_network_graph_node(n, name) ==
  /\ ~aborted /\ n \notin Created
  /\ network_node_name' = [network_node_name EXCEPT ![n] = Kept(name)]
  /\ node_list' = <<n>> \o node_list
  /\ created' = Append(created, <<n, name>>)
  /\ UNCHANGED <<interface, attached_node, interface_name, properties, aborted, settings>>

(* interface1 takes its slot before interface2 does, possibly of one node. *)
insert_link_between_two_network_nodes(l, n1, n2, name1, name2) ==
  /\ ~aborted /\ attached_node[<<l, 1>>] = NULL
  /\ n1 \in Created /\ n2 \in Created
  /\ attached_node' = [attached_node EXCEPT ![<<l, 1>>] = n1, ![<<l, 2>>] = n2]
  /\ interface_name' = [interface_name EXCEPT ![<<l, 1>>] = name1, ![<<l, 2>>] = name2]
  /\ LET before == [interface |-> interface, name |-> network_node_name]
         after == Stored(Stored(before, n1, <<l, 1>>), n2, <<l, 2>>)
     IN interface' = after.interface /\ network_node_name' = after.name
  /\ UNCHANGED <<node_list, created, properties, aborted, settings>>

Setting ==
  /\ ~aborted /\ settings < MaxSettings
  /\ settings' = settings + 1
  /\ UNCHANGED graph

(* Bit F of the flags: no call clears one.                                 *)
network_node_device_type(n, F) ==
  /\ Setting
  /\ n \in Created
  /\ flags' = [flags EXCEPT ![n] = @ \cup {F}]
  /\ UNCHANGED <<ip_address, configured, layer_2_mode, loopback, aborted>>

(* A hub, or a node that is no router, fails an assertion.                 *)
network_node_set_loopback_address(n) ==
  /\ Setting
  /\ n \in Created
  /\ aborted' = (HUB \in flags[n] \/ L3_ROUTER \notin flags[n])
  /\ loopback' = [loopback EXCEPT ![n] = @ \/ ~aborted']
  /\ UNCHANGED <<ip_address, configured, layer_2_mode, flags>>

network_node_set_interface_ip_address(n, name, a) ==
  LET i == get_network_node_interface_by_name(n, name) IN
  /\ Setting
  /\ n \in Created
  /\ aborted' = (i = NULL)
  /\ IF i = NULL THEN UNCHANGED <<ip_address, configured>>
     ELSE /\ ip_address' = [ip_address EXCEPT ![i] = a]
          /\ configured' = [configured EXCEPT ![i] = TRUE]
  /\ UNCHANGED <<layer_2_mode, flags, loopback>>

(* The mode goes through its string, and LAYER_2_MODE_UNKNOWN has none     *)
(* that network_interface_set_l2_node accepts: an assertion fails.         *)
network_node_set_interface_datalink_mode(n, name, mode) ==
  LET i == get_network_node_interface_by_name(n, name) IN
  /\ Setting
  /\ n \in Created
  /\ aborted' = (i = NULL \/ mode = LAYER_2_MODE_UNKNOWN)
  /\ IF aborted' THEN UNCHANGED <<configured, layer_2_mode>>
     ELSE /\ configured' = [configured EXCEPT ![i] = FALSE]
          /\ layer_2_mode' = [layer_2_mode EXCEPT ![i] = mode]
  /\ UNCHANGED <<ip_address, flags, loopback>>

Next ==
  \/ \E n \in Node, name \in NodeName : create_network_graph_node(n, name)
  \/ \E l \in Link, n1, n2 \in Node, name1, name2 \in Name :
       insert_link_between_two_network_nodes(l, n1, n2, name1, name2)
  \/ \E n \in Node, F \in {L3_ROUTER, L2_SWITCH, HUB} : network_node_device_type(n, F)
  \/ \E n \in Node : network_node_set_loopback_address(n)
  \/ \E n \in Node, name \in Name, a \in Address : network_node_set_interface_ip_address(n, name, a)
  \/ \E n \in Node, name \in Name, mode \in Mode : network_node_set_interface_datalink_mode(n, name, mode)

Spec == Init /\ [][Next]_vars
-----------------------------------------------------------------------------
TypeOK ==
  /\ node_list \in Seq(Node)
  /\ network_node_name \in [Node -> Seq(Char \cup {POINTER})]
  /\ \A n \in Node : Len(network_node_name[n]) <= NETWORK_NODE_NAME_SIZE
  /\ interface \in [Node -> Seq(Interface)]
  /\ \A n \in Node : Len(interface[n]) <= MAXIMUM_INTERFACE_PER_NODE
  /\ attached_node \in [Interface -> Node \cup {NULL}]
  /\ interface_name \in [Interface -> Name \cup {NULL}]
  /\ ip_address \in [Interface -> Address \cup {NULL}]
  /\ configured \in [Interface -> BOOLEAN]
  /\ layer_2_mode \in [Interface -> Mode]
  /\ flags \in [Node -> SUBSET {L3_ROUTER, L2_SWITCH, HUB}]
  /\ loopback \in [Node -> BOOLEAN]
  /\ aborted \in BOOLEAN
  /\ settings \in 0..MaxSettings
  /\ created \in Seq(Node \X NodeName)

InSlot(i, n) == \E k \in 1..Len(interface[n]) : interface[n][k] = i

(* What GraphAssumption of NetworkGraph takes for granted: a slot holds an *)
(* interface of its node, no interface is in two slots, and an interface   *)
(* is missing from the slots only if all slots of its node are taken.      *)
SlotsWellFormed ==
  /\ \A n \in Node : IsInjective(interface[n])
  /\ \A n \in Node, i \in Interface : InSlot(i, n) => attached_node[i] = n
  /\ \A i \in Interface :
       \/ attached_node[i] = NULL
       \/ InSlot(i, attached_node[i])
       \/ Len(interface[attached_node[i]]) = MAXIMUM_INTERFACE_PER_NODE

(* An interface that has been given an address or a mode is the one that   *)
(* its name finds on its node, whatever links are inserted later: a frame  *)
(* sent to it by name cannot end at a namesake.                            *)
SetInterfacesFoundByName ==
  \A i \in Interface :
    ip_address[i] # NULL \/ layer_2_mode[i] # LAYER_2_MODE_UNKNOWN =>
      /\ attached_node[i] # NULL
      /\ get_network_node_interface_by_name(attached_node[i], interface_name[i]) = i

(* What a node keeps of its name, typed in the shell, selects that node,   *)
(* unless a node created later has a name that begins with it, or too many *)
(* links have overwritten its end.  That is the full name if it fits the   *)
(* array; a longer one must be typed as its first NETWORK_NODE_NAME_SIZE   *)
(* characters, since nothing promises that the full one finds a node, and  *)
(* two nodes whose long names begin alike are namesakes.                   *)
KeptNameFindsNode ==
  \A k \in 1..Len(created) :
    LET n == created[k][1]  kept == Kept(created[k][2]) IN
    \/ get_network_node_by_node_name(kept) = n
    \/ \E j \in (k + 1)..Len(created) : IsPrefix(kept, created[j][2])
    \/ /\ Len(interface[n]) = MAXIMUM_INTERFACE_PER_NODE
       /\ Len(kept) > NAME_BYTES_BEFORE_POINTER

(* "Checks for the available slot and if the slot is available then assign *)
(* it to the nodes": every interface of a link is in a slot of its node.   *)
(* It is not once the slots are used up.                                   *)
EveryInterfaceHasSlot ==
  \A i \in Interface : attached_node[i] # NULL => InSlot(i, attached_node[i])
=============================================================================
