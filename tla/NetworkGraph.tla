----------------------------- MODULE NetworkGraph -----------------------------
(***************************************************************************)
(* The emulated network as the rest of the program sees it once a topology *)
(* builder has run: nodes, the interfaces in their slots, the links that   *)
(* pair the interfaces, and the look-ups over them (networkgraph.h,        *)
(* network.c, utils.c).  Nothing in this module changes while the program  *)
(* runs, so all of it is constant.                                         *)
(*                                                                         *)
(* An element of Interface stands for one network_interface_t, that is for *)
(* one of the two ends embedded in a network_link_t.                       *)
(***************************************************************************)
EXTENDS Integers, Sequences

CONSTANTS
  Node,                  \* network_node_t objects
  Interface,             \* network_interface_t objects
  Name,                  \* interface names
  MAC,                   \* 6-byte MAC addresses
  IPAddress,             \* IPv4 addresses in dotted form, as 32-bit numbers
  NULL,                  \* the null pointer
  BROADCAST_MAC_ADDRESS, \* FF:FF:FF:FF:FF:FF
  MAXIMUM_INTERFACE_PER_NODE,
  node_list,             \* nodes in the order of network_graph_t.network_node_list
  interface,             \* network_node_t.interface[]: the used slots, in order
  other_interface,       \* the other end of attached_link
  attached_node,         \* network_interface_t.attached_node
  interface_name,        \* network_interface_t.interface_name
  mac_address,           \* interface_network_properties_t.mac_address
  mac_string,            \* a MAC up to its first zero byte: what strncmp compares
  ip_address,            \* interface_network_properties_t.ip_address, NULL if ""
  mask                   \* interface_network_properties_t.mask

Slot(n) == 1..Len(interface[n])

(***************************************************************************)
(* What insert_link_between_two_network_nodes and the builders establish:  *)
(* an interface sits in a slot of its own node, and the two ends of a link *)
(* point at each other.                                                    *)
(***************************************************************************)
ASSUME GraphAssumption ==
  /\ NULL \notin Node /\ NULL \notin Interface
  /\ node_list \in Seq(Node)
  /\ \A n \in Node : \E k \in 1..Len(node_list) : node_list[k] = n
  /\ interface \in [Node -> Seq(Interface)]
  /\ other_interface \in [Interface -> Interface]
  /\ attached_node \in [Interface -> Node]
  /\ \A n \in Node : \A k \in Slot(n) : attached_node[interface[n][k]] = n
  /\ \A i \in Interface : \E k \in Slot(attached_node[i]) :
        interface[attached_node[i]][k] = i
  /\ \A i \in Interface : other_interface[other_interface[i]] = i

ASSUME PropertyAssumption ==
  /\ interface_name \in [Interface -> Name]
  /\ BROADCAST_MAC_ADDRESS \in MAC
  /\ mac_address \in [Interface -> MAC \ {BROADCAST_MAC_ADDRESS}]
  /\ DOMAIN mac_string = MAC
  /\ ip_address \in [Interface -> IPAddress \cup {NULL}]
  /\ mask \in [Interface -> 0..32]
  /\ NULL \notin IPAddress

(***************************************************************************)
(* Two interfaces of one node never share a name.  The code does not check *)
(* it; every builder of network_topology.c respects it.                    *)
(***************************************************************************)
ASSUME NamesDistinct ==
  \A i, j \in Interface :
    attached_node[i] = attached_node[j] /\ interface_name[i] = interface_name[j] => i = j

(***************************************************************************)
(* A free slot ends every look-up loop before its bound does.  When all    *)
(* the slots are taken node_get_matching_subnet_interface can run off its  *)
(* end without a return; no builder gets near the limit.                   *)
(***************************************************************************)
ASSUME SlotsAssumption ==
  \A n \in Node : Len(interface[n]) < MAXIMUM_INTERFACE_PER_NODE
-----------------------------------------------------------------------------
get_neighbour_node(i) == attached_node[other_interface[i]]

(* The scan of the slots that stops at the first one with property hit.    *)
FirstOf(n, hits) ==
  IF hits = {} THEN NULL
  ELSE interface[n][CHOOSE k \in hits : \A j \in hits : k <= j]

get_network_node_interface_by_name(n, name) ==
  FirstOf(n, {k \in Slot(n) : interface_name[interface[n][k]] = name})

(* Both htonl calls cancel out: the low 32 - m bits are cleared.           *)
apply_subnet_mask(ip, m) == ip - (ip % 2^(32 - m))

(* configured is the current is_ip_address_configured of the interfaces.   *)
node_get_matching_subnet_interface(n, ip, configured) ==
  FirstOf(n, {k \in Slot(n) :
                LET i == interface[n][k] IN
                  /\ configured[i]
                  /\ apply_subnet_mask(ip_address[i], mask[i])
                       = apply_subnet_mask(ip, mask[i])})

(* strncmp on two MACs stops at a zero byte, memcmp does not.              *)
SameMacString(a, b) == mac_string[a] = mac_string[b]
=============================================================================
