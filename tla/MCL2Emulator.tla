----------------------------- MODULE MCL2Emulator -----------------------------
(***************************************************************************)
(* L2Emulator on the topologies the program builds, and on two that its    *)
(* builder functions can be called for.  A .cfg picks the Topology, the    *)
(* shell commands and the bounds; everything else follows.                 *)
(***************************************************************************)
EXTENDS L2Emulator, NetworkTopology

CONSTANTS
  Topology,
  CollidingMacs  \* pairs of interfaces whose MACs agree up to a zero byte

T == Topology
TNode == NodesOf(T)
TInterface == InterfacesOf(T)
TName == {i[2] : i \in TInterface}
TMAC == TInterface \cup {BROADCAST_MAC_ADDRESS}  \* the MAC of i is called i
TNodeList == NodeListOf(T)
TSlots == SlotsOf(T)
TOther == [i \in TInterface |-> OtherEnd(T, i)]
TAttached == [i \in TInterface |-> i[1]]
TInterfaceName == [i \in TInterface |-> i[2]]
TMacAddress == [i \in TInterface |-> i]
TMacString == [m \in TMAC |->
  IF \E p \in CollidingMacs : p[1] = m THEN (CHOOSE p \in CollidingMacs : p[1] = m)[2] ELSE m]
TIp == [i \in TInterface |->
  IF AddressesOf(T, i) = {} THEN NULL ELSE (CHOOSE a \in AddressesOf(T, i) : TRUE)[2]]
TMask == [i \in TInterface |->
  IF AddressesOf(T, i) = {} THEN 0 ELSE (CHOOSE a \in AddressesOf(T, i) : TRUE)[3]]
TMode == [i \in TInterface |->
  IF i \in T.access_ports THEN ACCESS ELSE LAYER_2_MODE_UNKNOWN]
TIPAddress == {a[2] : a \in T.addresses} \cup {c.ip : c \in {d \in Commands : d.type = "resolve"}}

(* The builders of network_topology.c keep clear of what can go wrong in   *)
(* GraphBuilder: each node has a slot to spare and no namesake interfaces, *)
(* and every address and mode is set on an interface that exists.          *)
ASSUME BuildersStayInBounds ==
  \A t \in {build_first_network_topology, build_linear_topo, build_layer_2_switch_topology} :
    /\ \A n \in NodesOf(t) :
         /\ Len(SlotsOf(t)[n]) < MAXIMUM_INTERFACE_PER_NODE
         /\ IsInjective([k \in 1..Len(SlotsOf(t)[n]) |-> SlotsOf(t)[n][k][2]])
    /\ {a[1] : a \in t.addresses} \cup t.access_ports \subseteq InterfacesOf(t)

Resolve(n, ip) == [type |-> "resolve", node |-> n, ip |-> ip]
L2Mode(n, name, mode) == [type |-> "l2mode", interface |-> <<n, name>>, mode |-> mode]
-----------------------------------------------------------------------------
NoCollision == {}

(* build_layer_2_switch_topology: two routers that resolve each other, one *)
(* that resolves a third, an address nobody has and a node's own address.  *)
SwitchCommands ==
  {Resolve("router_1", Ip(10, 1, 1, 1)), Resolve("router_3", Ip(10, 1, 1, 2)),
   Resolve("router_2", Ip(10, 1, 1, 3)), Resolve("router_1", Ip(10, 1, 1, 9)),
   Resolve("router_1", Ip(10, 1, 1, 2)), L2Mode("L2Switch", "eth0/2", TRUNK)}

(* The MACs of router_1 and router_4 agree in their first bytes.           *)
SwitchCollision == {<<<<"router_4", "eth0/7">>, <<"router_1", "eth0/5">>>>}

(* build_linear_topo: the router in the middle is turned into a switch.    *)
LinearCommands ==
  {Resolve("router_0", Ip(10, 1, 1, 2)), Resolve("router_1", Ip(20, 1, 1, 1)),
   L2Mode("router_1", "eth0/2", ACCESS), L2Mode("router_1", "eth0/3", TRUNK),
   L2Mode("router_1", "eth0/3", ACCESS), L2Mode("router_0", "eth0/1", ACCESS)}

(* Two switches in a row with two stations each, the last one deaf.        *)
ChainTopology ==
  [nodes |-> <<"h1", "h2", "h3", "h4", "s1", "s2">>,
   links |-> <<Link("h1", "s1", "e1", "p1"), Link("h2", "s1", "e2", "p2"),
               Link("s1", "s2", "p3", "q1"), Link("s2", "h3", "q2", "e3"),
               Link("s2", "h4", "q3", "e4")>>,
   addresses |-> {<<<<"h1", "e1">>, Ip(10, 1, 1, 1), 24>>, <<<<"h2", "e2">>, Ip(10, 1, 1, 2), 24>>,
                  <<<<"h3", "e3">>, Ip(10, 1, 1, 3), 24>>, <<<<"h4", "e4">>, Ip(10, 1, 1, 4), 24>>},
   access_ports |-> {<<"s1", "p1">>, <<"s1", "p2">>, <<"s1", "p3">>,
                     <<"s2", "q1">>, <<"s2", "q2">>, <<"s2", "q3">>}]

ChainCommands ==
  {Resolve("h1", Ip(10, 1, 1, 3)), Resolve("h3", Ip(10, 1, 1, 2)),
   Resolve("h2", Ip(10, 1, 1, 1)), Resolve("h3", Ip(10, 1, 1, 1))}

(* The deaf station asks, too.                                             *)
DeafCommands ==
  {Resolve("h1", Ip(10, 1, 1, 3)), Resolve("h3", Ip(10, 1, 1, 2)),
   Resolve("h4", Ip(10, 1, 1, 1))}

(* A station next to a loop of three switches.                             *)
LoopTopology ==
  [nodes |-> <<"h1", "s1", "s2", "s3">>,
   links |-> <<Link("h1", "s1", "e1", "p1"), Link("s1", "s2", "p2", "q1"),
               Link("s2", "s3", "q2", "r1"), Link("s3", "s1", "r2", "p3")>>,
   addresses |-> {<<<<"h1", "e1">>, Ip(10, 1, 1, 1), 24>>},
   access_ports |-> {<<"s1", "p1">>, <<"s1", "p2">>, <<"s1", "p3">>, <<"s2", "q1">>,
                     <<"s2", "q2">>, <<"s3", "r1">>, <<"s3", "r2">>}]

LoopCommands == {Resolve("h1", Ip(10, 1, 1, 2))}

(* The topologies are trees but for the loop, and only SwitchCollision     *)
(* makes two MACs look alike.                                              *)
ASSUME TreesButOne ==
  /\ LoopFree <=> Topology # LoopTopology
  /\ MacsDistinct <=> CollidingMacs = NoCollision
=============================================================================
