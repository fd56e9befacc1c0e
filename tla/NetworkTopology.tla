---------------------------- MODULE NetworkTopology ----------------------------
(***************************************************************************)
(* The three builders of network_topology.c and what the graph functions   *)
(* they call make of them.  A topology is written as the calls are: nodes  *)
(* in the order of their creation, links in the order of their insertion,  *)
(* then the addresses and the L2 modes that are set.                       *)
(*                                                                         *)
(* An interface is the pair of its node's and its own name.  Loopback      *)
(* addresses are left out: no code reads one outside of the dump commands. *)
(***************************************************************************)
EXTENDS Integers, Sequences, SequencesExt

Ip(a, b, c, d) == ((a * 256 + b) * 256 + c) * 256 + d

Link(node1, node2, name1, name2) ==
  [interface1 |-> <<node1, name1>>, interface2 |-> <<node2, name2>>]

build_first_network_topology ==
  [nodes |-> <<"router_0", "router_1", "router_2">>,
   links |-> <<Link("router_0", "router_1", "eth0/0", "eth0/1"),
               Link("router_1", "router_2", "eth0/2", "eth0/3"),
               Link("router_0", "router_2", "eth0/4", "eth0/5")>>,
   addresses |-> {<<<<"router_0", "eth0/4">>, Ip(40, 1, 1, 1), 24>>,
                  <<<<"router_0", "eth0/0">>, Ip(20, 1, 1, 1), 24>>,
                  <<<<"router_1", "eth0/1">>, Ip(20, 1, 1, 1), 24>>,
                  <<<<"router_1", "eth0/2">>, Ip(30, 1, 1, 1), 24>>,
                  <<<<"router_2", "eth0/3">>, Ip(30, 1, 1, 1), 24>>,
                  <<<<"router_2", "eth0/5">>, Ip(40, 1, 1, 1), 24>>},
   access_ports |-> {}]

build_linear_topo ==
  [nodes |-> <<"router_0", "router_1", "router_2">>,
   links |-> <<Link("router_0", "router_1", "eth0/1", "eth0/2"),
               Link("router_1", "router_2", "eth0/3", "eth0/4")>>,
   addresses |-> {<<<<"router_0", "eth0/1">>, Ip(10, 1, 1, 1), 24>>,
                  <<<<"router_1", "eth0/2">>, Ip(10, 1, 1, 2), 24>>,
                  <<<<"router_1", "eth0/3">>, Ip(20, 1, 1, 2), 24>>,
                  <<<<"router_2", "eth0/4">>, Ip(20, 1, 1, 1), 24>>},
   access_ports |-> {}]

build_layer_2_switch_topology ==
  [nodes |-> <<"router_1", "router_2", "router_3", "router_4", "L2Switch">>,
   links |-> <<Link("router_1", "L2Switch", "eth0/5", "eth0/4"),
               Link("router_2", "L2Switch", "eth0/8", "eth0/3"),
               Link("router_3", "L2Switch", "eth0/6", "eth0/2"),
               Link("router_4", "L2Switch", "eth0/7", "eth0/1")>>,
   addresses |-> {<<<<"router_1", "eth0/5">>, Ip(10, 1, 1, 2), 24>>,
                  <<<<"router_2", "eth0/8">>, Ip(10, 1, 1, 4), 24>>,
                  <<<<"router_3", "eth0/6">>, Ip(10, 1, 1, 1), 24>>,
                  <<<<"router_4", "eth0/7">>, Ip(10, 1, 1, 3), 24>>},
   access_ports |-> {<<"L2Switch", "eth0/1">>, <<"L2Switch", "eth0/2">>,
                     <<"L2Switch", "eth0/3">>, <<"L2Switch", "eth0/4">>}]
-----------------------------------------------------------------------------
NodesOf(t) == ToSet(t.nodes)

InterfacesOf(t) ==
  {l.interface1 : l \in ToSet(t.links)} \cup {l.interface2 : l \in ToSet(t.links)}

(* insert_link_between_two_network_nodes puts each end in the first free   *)
(* slot of its node, interface1 first: slots follow the order of the links. *)
insert_link_between_two_network_nodes(slots, l) ==
  [slots EXCEPT ![l.interface1[1]] = Append(@, l.interface1),
                ![l.interface2[1]] = Append(@, l.interface2)]

SlotsOf(t) ==
  FoldLeft(insert_link_between_two_network_nodes, [n \in NodesOf(t) |-> <<>>], t.links)

OtherEnd(t, i) ==
  CHOOSE j \in InterfacesOf(t) : \E l \in ToSet(t.links) :
    {<<i, j>>, <<j, i>>} \cap {<<l.interface1, l.interface2>>} # {}

(* create_network_graph_node adds every node at the front of the list.     *)
NodeListOf(t) == Reverse(t.nodes)

AddressesOf(t, i) == {a \in t.addresses : a[1] = i}
=============================================================================
