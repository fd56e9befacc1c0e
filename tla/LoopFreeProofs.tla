---------------------------- MODULE LoopFreeProofs ----------------------------
(***************************************************************************)
(* Theorems about L2Emulator for the networks without loops whose MACs     *)
(* strncmp tells apart, with any modes, commands and losses: what the      *)
(* switches know is where the stations are.                                *)
(***************************************************************************)
EXTENDS L2EmulatorProofs

-----------------------------------------------------------------------------
(* The invariant                                                           *)

(* Interfaces i and o point at each other: what o sends arrives through i, *)
(* if it arrives at the node of i at all.                                  *)
Faces(i, o) ==
  /\ attached_node[i] \in FarSide[o]
  /\ attached_node[o] \in FarSide[i]

(* The MAC tables t of the nodes tell node n where interface o is.         *)
Knows(t, n, o) == \E e \in t[n] : e.mac = mac_address[o]

(* What came through i from o has taught its last switch where o is.       *)
Learned(t, i, o) == other_interface[i] = o \/ Knows(t, get_neighbour_node(i), o)

EntriesLeadHome(t) ==
  \A n \in Node : \A e \in t[n] :
    \E i, o \in Interface :
      /\ attached_node[i] = n
      /\ interface_name[i] = e.oif_name
      /\ mac_address[o] = e.mac
      /\ Faces(i, o)
      /\ Learned(t, i, o)

(* A shell command may turn the station D into a switch port.              *)
Moves(D) == \E c \in Commands : c.type = "l2mode" /\ c.interface = D

(* A reply to D that arrives through i has come home, or its switch knows  *)
(* the way on; or it has left the node of D, which is a switch by now, and *)
(* gets ever farther away.                                                 *)
Homeward(t, i, D) ==
  \/ i = D
  \/ Knows(t, attached_node[i], D) /\ attached_node[D] \notin FarSide[i]

Astray(i, D) ==
  /\ attached_node[i] \notin FarSide[D]
  /\ attached_node[D] \in FarSide[i]

(* Where frame f comes from, and where it goes, as it arrives through i.   *)
FromHome(t, i, f) ==
  \E o \in Interface :
    /\ mac_address[o] = f.src
    /\ ip_address[o] # NULL
    /\ Faces(i, o)
    /\ Learned(t, i, o)

RequestForm(f) ==
  f.operation_code = "ARP_BROADCAST_REQUEST"
    => f.dst = BROADCAST_MAC_ADDRESS /\ f.arp_source_mac = f.src

ToStation(t, i, f) ==
  f.operation_code = "ARP_REPLY"
    => \E D \in Interface :
         /\ mac_address[D] = f.dst
         /\ ip_address[D] # NULL
         /\ Homeward(t, i, D) \/ (Moves(D) /\ Astray(i, D))

Placed(t, i, f) == FromHome(t, i, f) /\ RequestForm(f) /\ ToStation(t, i, f)

Header(i, f) == [interface_name |-> interface_name[i], frame |-> f]

(* Frame f is queued for interface i in the sockets q.                     *)
Arriving(q, i, f) ==
  \E k \in 1..Len(q[attached_node[i]]) : q[attached_node[i]][k] = Header(i, f)

FramesPlaced == \A i \in Interface : \A f \in Frame :
  Arriving(inbox, i, f) => Placed(mac_table, i, f)

(* A frame that a switch floods, after it learned from it.  It is a        *)
(* request, or a reply that finds nobody home.                             *)
NobodyHome(i, f) ==
  f.operation_code = "ARP_REPLY"
    => \E D \in Interface :
         /\ mac_address[D] = f.dst
         /\ ip_address[D] # NULL
         /\ Moves(D)
         /\ i = D \/ Astray(i, D)

Passing(t, i, f) ==
  /\ \E o \in Interface :
       /\ mac_address[o] = f.src
       /\ ip_address[o] # NULL
       /\ Faces(i, o)
       /\ Knows(t, attached_node[i], o)
  /\ RequestForm(f)
  /\ NobodyHome(i, f)

FloodPasses ==
  flood # NULL =>
    /\ attached_node[flood.exempted_interface] = flood.node
    /\ Passing(mac_table, flood.exempted_interface, flood.frame)

(* A station that no command moves stays in L3 mode.                       *)
StationsStayL3 == \A i \in Interface : ip_address[i] # NULL => configured[i] \/ Moves(i)

TreeInv ==
  /\ EntriesLeadHome(mac_table)
  /\ FramesPlaced
  /\ FloodPasses
  /\ StationsStayL3
-----------------------------------------------------------------------------
(* The sides of a link                                                     *)

(* The other end of the other end of a link is the interface itself.       *)
LEMMA GraphFacts ==
  ASSUME NEW i \in Interface
  PROVE  /\ other_interface[i] \in Interface
         /\ other_interface[other_interface[i]] = i
         /\ attached_node[i] \in Node
         /\ get_neighbour_node(i) = attached_node[other_interface[i]]
         /\ get_neighbour_node(i) \in Node
         /\ get_neighbour_node(other_interface[i]) = attached_node[i]
BY GraphAssumption DEF get_neighbour_node

(* The far side of i contains the neighbour, every way out of it but the   *)
(* link of i stays in it, and it is the least such set.                    *)
LEMMA FarSideHolds ==
  ASSUME NEW i \in Interface
  PROVE  get_neighbour_node(i) \in FarSide[i] /\ NoWayOut(FarSide[i], i)
<1>1. FarSide[i] = Beyond(i)
  BY DEF FarSide
<1>2. get_neighbour_node(i) \in Beyond(i)
  BY GraphFacts DEF Beyond
<1>3. ASSUME NEW x \in Interface \ {other_interface[i]}, attached_node[x] \in Beyond(i)
      PROVE  get_neighbour_node(x) \in Beyond(i)
  <2>1. ASSUME NEW nodes \in SUBSET Node, get_neighbour_node(i) \in nodes, NoWayOut(nodes, i)
        PROVE  get_neighbour_node(x) \in nodes
    <3>1. attached_node[x] \in nodes
      BY <1>3, <2>1 DEF Beyond
    <3>2. QED BY <2>1, <3>1 DEF NoWayOut
  <2>2. get_neighbour_node(x) \in Node
    BY GraphFacts
  <2>3. QED BY <2>1, <2>2 DEF Beyond
<1>4. NoWayOut(Beyond(i), i)
  BY <1>3 DEF NoWayOut
<1>5. QED BY <1>1, <1>2, <1>4

(* Nodes that contain the neighbour and have no way out contain the far    *)
(* side.                                                                   *)
LEMMA FarSideLeast ==
  ASSUME NEW i \in Interface, NEW nodes \in SUBSET Node,
         get_neighbour_node(i) \in nodes, NoWayOut(nodes, i)
  PROVE  FarSide[i] \subseteq nodes
BY DEF FarSide, Beyond

(* No other interface leads out of the far side.                           *)
LEMMA FarSideCross ==
  ASSUME NEW i \in Interface, NEW x \in Interface,
         attached_node[x] \in FarSide[i], x # other_interface[i]
  PROVE  get_neighbour_node(x) \in FarSide[i]
BY FarSideHolds DEF NoWayOut

(* The far side is made of nodes.                                          *)
LEMMA FarSideNodes ==
  ASSUME NEW i \in Interface
  PROVE  FarSide[i] \subseteq Node
BY DEF FarSide, Beyond

(* Without loops the two sides of a link have no node in common.           *)
LEMMA SidesDisjoint ==
  ASSUME LoopFree, NEW i \in Interface
  PROVE  FarSide[i] \cap FarSide[other_interface[i]] = {}
<1> DEFINE j == other_interface[i]
           nodes == Node \ FarSide[i]
<1>1. j \in Interface /\ other_interface[j] = i /\ get_neighbour_node(j) = attached_node[i]
  BY GraphFacts
<1>2. get_neighbour_node(j) \in nodes
  BY <1>1, GraphFacts DEF LoopFree
<1>3. NoWayOut(nodes, j)
  <2> SUFFICES ASSUME NEW x \in Interface, x # i, attached_node[x] \in nodes,
                      get_neighbour_node(x) \in FarSide[i]
               PROVE  FALSE
    BY <1>1, GraphFacts DEF NoWayOut
  <2> DEFINE y == other_interface[x]
  <2>1. y \in Interface /\ attached_node[y] = get_neighbour_node(x)
        /\ get_neighbour_node(y) = attached_node[x] /\ y # j
    BY GraphFacts
  <2>2. get_neighbour_node(y) \in FarSide[i]
    BY <2>1, FarSideCross
  <2>3. QED BY <2>1, <2>2
<1>4. FarSide[j] \subseteq nodes
  BY <1>1, <1>2, <1>3, FarSideLeast
<1>5. QED BY <1>4

(* What lies beyond one interface of a node is, seen from the neighbour at *)
(* another one, beyond the link to that neighbour.                         *)
LEMMA SidesNested ==
  ASSUME LoopFree, NEW i \in Interface, NEW z \in Interface,
         attached_node[z] = attached_node[i], z # i
  PROVE  FarSide[i] \subseteq FarSide[other_interface[z]]
<1> DEFINE j == other_interface[z]
           nodes == FarSide[i] \cap FarSide[j]
<1>1. j \in Interface /\ other_interface[j] = z /\ get_neighbour_node(j) = attached_node[z]
  BY GraphFacts
<1>2. attached_node[i] \in FarSide[j]
  BY <1>1, FarSideHolds
<1>3. get_neighbour_node(i) \in nodes
  BY <1>1, <1>2, FarSideCross, FarSideHolds
<1>4. attached_node[z] \notin FarSide[i]
  BY DEF LoopFree
<1>5. NoWayOut(nodes, i)
  <2> SUFFICES ASSUME NEW x \in Interface, x # other_interface[i], attached_node[x] \in nodes
               PROVE  get_neighbour_node(x) \in nodes
    BY DEF NoWayOut
  <2>1. x # z
    BY <1>4
  <2>2. QED BY <1>1, <2>1, FarSideCross
<1>6. nodes \subseteq Node
  BY FarSideNodes
<1>7. QED BY <1>3, <1>5, <1>6, FarSideLeast

(* So every other node is beyond at most one interface of a node.          *)
LEMMA OneWay ==
  ASSUME LoopFree, NEW i \in Interface, NEW z \in Interface,
         attached_node[z] = attached_node[i], NEW n, n \in FarSide[i], n \in FarSide[z]
  PROVE  z = i
BY SidesNested, SidesDisjoint

(* A frame that leaves through another interface than the one it came in   *)
(* on still has its sender behind it, ...                                  *)
LEMMA FacesOnward ==
  ASSUME LoopFree, NEW i \in Interface, NEW z \in Interface, NEW o \in Interface,
         attached_node[z] = attached_node[i], z # i, Faces(i, o)
  PROVE  Faces(other_interface[z], o)
<1> DEFINE j == other_interface[z]
<1>1. j \in Interface /\ attached_node[j] = get_neighbour_node(z) /\ other_interface[j] = z
  BY GraphFacts
<1>2. attached_node[o] \in FarSide[j]
  BY SidesNested DEF Faces
<1>3. z # other_interface[o]
  <2>1. ASSUME z = other_interface[o] PROVE FALSE
    <3>1. attached_node[o] \in FarSide[z]
      BY <2>1, FarSideHolds, GraphFacts
    <3>2. QED BY <3>1, OneWay DEF Faces
  <2>2. QED BY <2>1
<1>4. get_neighbour_node(z) \in FarSide[o]
  BY <1>3, FarSideCross DEF Faces
<1>5. QED BY <1>1, <1>2, <1>4 DEF Faces

(* ... and so has one that was just sent.                                  *)
LEMMA FacesAtOnce ==
  ASSUME NEW o \in Interface
  PROVE  Faces(other_interface[o], o)
BY FarSideHolds, GraphFacts DEF Faces

(* A frame that left the node it was for never finds the way back.         *)
LEMMA AstrayOnward ==
  ASSUME LoopFree, NEW i \in Interface, NEW z \in Interface, NEW D \in Interface,
         attached_node[z] = attached_node[i], z # i, i = D \/ Astray(i, D)
  PROVE  Astray(other_interface[z], D)
<1> DEFINE j == other_interface[z]
<1>1. j \in Interface /\ attached_node[j] = get_neighbour_node(z) /\ other_interface[j] = z
      /\ get_neighbour_node(j) = attached_node[i]
  BY GraphFacts
<1>2. CASE i = D
  <2>1. attached_node[D] \in FarSide[j]
    BY <1>1, <1>2, FarSideHolds
  <2>2. attached_node[j] \in FarSide[z]
    BY <1>1, FarSideHolds
  <2>3. attached_node[j] \notin FarSide[D]
    BY <1>2, <2>2, OneWay
  <2>4. QED BY <2>1, <2>3 DEF Astray
<1>3. CASE Astray(i, D)
  <2>1. attached_node[D] \in FarSide[j]
    BY <1>3, SidesNested DEF Astray
  <2>2. z # D
    BY <1>3 DEF Astray, LoopFree
  <2>3. j # other_interface[D]
    BY <1>1, <2>2, GraphFacts
  <2>4. attached_node[j] \in FarSide[D] => attached_node[i] \in FarSide[D]
    BY <1>1, <2>3, FarSideCross
  <2>5. QED BY <1>3, <2>1, <2>4 DEF Astray
<1>4. QED BY <1>2, <1>3
-----------------------------------------------------------------------------
(* What the switches know                                                  *)

Tables == [Node -> SUBSET MacEntry]

Grows(t, u) == \A n \in Node : t[n] \subseteq u[n]

(* MACs that differ for strncmp differ.                                    *)
LEMMA OwnerUnique ==
  ASSUME MacsDistinct, NEW a \in Interface, NEW b \in Interface,
         mac_address[a] = mac_address[b]
  PROVE  a = b
BY DEF MacsDistinct, SameMacString

(* What a switch has learned stays known while the tables only grow.       *)
LEMMA KnowsMore ==
  ASSUME NEW t, NEW u, Grows(t, u), NEW i \in Interface, NEW o \in Interface
  PROVE  /\ \A n \in Node : Knows(t, n, o) => Knows(u, n, o)
         /\ Learned(t, i, o) => Learned(u, i, o)
<1>1. \A n \in Node : Knows(t, n, o) => Knows(u, n, o)
  BY DEF Knows, Grows
<1>2. QED BY <1>1, GraphFacts DEF Learned

(* Where a frame is placed does not depend on what is learned meanwhile.   *)
LEMMA PlacedGrows ==
  ASSUME NEW t, NEW u, Grows(t, u), NEW i \in Interface, NEW f \in Frame
  PROVE  /\ Placed(t, i, f) => Placed(u, i, f)
         /\ Passing(t, i, f) => Passing(u, i, f)
<1>1. FromHome(t, i, f) => FromHome(u, i, f)
  BY KnowsMore DEF FromHome
<1>2. ToStation(t, i, f) => ToStation(u, i, f)
  BY KnowsMore, GraphFacts DEF ToStation, Homeward
<1>3. Passing(t, i, f) => Passing(u, i, f)
  BY KnowsMore, GraphFacts DEF Passing
<1>4. QED BY <1>1, <1>2, <1>3 DEF Placed

(* What mac_table_lookup finds for the MAC of D is the port to D.          *)
LEMMA LookupFinds ==
  ASSUME MacsDistinct, NEW t, EntriesLeadHome(t), NEW n \in Node,
         NEW D \in Interface, NEW e \in mac_table_lookup(t[n], mac_address[D])
  PROVE  \E p \in Interface :
           /\ attached_node[p] = n /\ interface_name[p] = e.oif_name
           /\ e.mac = mac_address[D]
           /\ Faces(p, D) /\ Learned(t, p, D)
<1>1. e \in t[n] /\ SameMacString(e.mac, mac_address[D])
  BY DEF mac_table_lookup
<1>2. PICK p \in Interface, o \in Interface :
        /\ attached_node[p] = n /\ interface_name[p] = e.oif_name
        /\ mac_address[o] = e.mac
        /\ Faces(p, o) /\ Learned(t, p, o)
  BY <1>1 DEF EntriesLeadHome
<1>3. o = D
  BY <1>1, <1>2 DEF MacsDistinct
<1>4. QED BY <1>2, <1>3

(* Learning from a frame whose sender is beyond its port adds an entry, or *)
(* finds it there; it removes none.                                        *)
LEMMA LearnFacts ==
  ASSUME LoopFree, MacsDistinct, NEW t \in Tables, EntriesLeadHome(t),
         NEW i \in Interface, NEW o \in Interface, Faces(i, o), Learned(t, i, o),
         NEW u, u = [t EXCEPT ![attached_node[i]] =
                       mac_table_entry_add(t[attached_node[i]],
                         [mac |-> mac_address[o], oif_name |-> interface_name[i]])]
  PROVE  /\ Grows(t, u)
         /\ EntriesLeadHome(u)
         /\ Knows(u, attached_node[i], o)
<1> DEFINE n == attached_node[i]
           new == [mac |-> mac_address[o], oif_name |-> interface_name[i]]
           old == mac_table_lookup(t[n], mac_address[o])
<1>1. n \in Node /\ u = [t EXCEPT ![n] = mac_table_entry_add(t[n], new)]
  BY GraphFacts
<1>2. \A e \in old : e \in t[n] /\ e.oif_name = new.oif_name /\ e.mac = mac_address[o]
  <2> SUFFICES ASSUME NEW e \in old
               PROVE  e \in t[n] /\ e.oif_name = new.oif_name /\ e.mac = mac_address[o]
    OBVIOUS
  <2>1. PICK p \in Interface :
          /\ attached_node[p] = n /\ interface_name[p] = e.oif_name
          /\ e.mac = mac_address[o] /\ Faces(p, o)
    BY <1>1, LookupFinds
  <2>2. p = i
    BY <2>1, OneWay DEF Faces
  <2>3. QED BY <2>1, <2>2 DEF mac_table_lookup
<1>3. new.mac = mac_address[o] /\ new.oif_name = interface_name[i]
  OBVIOUS
<1> HIDE DEF new
<1>4. CASE old # {}
  <2>1. mac_table_entry_add(t[n], new) = t[n]
    BY <1>2, <1>3, <1>4 DEF mac_table_entry_add
  <2>2. u = t
    BY <1>1, <2>1 DEF Tables
  <2>3. QED BY <1>2, <1>4, <2>2 DEF Grows, Knows
<1>5. CASE old = {}
  <2>1. mac_table_entry_add(t[n], new) = t[n] \cup {new}
    BY <1>3, <1>5 DEF mac_table_entry_add
  <2>2. u[n] = t[n] \cup {new} /\ \A m \in Node \ {n} : u[m] = t[m]
    BY <1>1, <2>1 DEF Tables
  <2>3. Grows(t, u) /\ Knows(u, n, o)
    BY <1>3, <2>2 DEF Grows, Knows
  <2>4. EntriesLeadHome(u)
    <3> SUFFICES ASSUME NEW m \in Node, NEW e \in u[m]
                 PROVE  \E p, x \in Interface :
                          /\ attached_node[p] = m /\ interface_name[p] = e.oif_name
                          /\ mac_address[x] = e.mac
                          /\ Faces(p, x) /\ Learned(u, p, x)
      BY DEF EntriesLeadHome
    <3>1. CASE e \in t[m]
      <4>1. PICK p \in Interface, x \in Interface :
              /\ attached_node[p] = m /\ interface_name[p] = e.oif_name
              /\ mac_address[x] = e.mac
              /\ Faces(p, x) /\ Learned(t, p, x)
        BY <3>1 DEF EntriesLeadHome
      <4>2. Learned(u, p, x)
        BY <2>3, <4>1, KnowsMore
      <4>3. QED BY <4>1, <4>2
    <3>2. CASE m = n /\ e = new
      BY <1>3, <2>3, <3>2, KnowsMore
    <3>3. QED BY <2>2, <3>1, <3>2
  <2>5. QED BY <2>3, <2>4
<1>6. QED BY <1>4, <1>5
-----------------------------------------------------------------------------
(* What arrives                                                            *)

(* A datagram tells its interface and its frame, as names on a node        *)
(* differ.                                                                 *)
LEMMA HeaderFacts ==
  ASSUME NEW i \in Interface, NEW j \in Interface, NEW f \in Frame, NEW g \in Frame,
         attached_node[i] = attached_node[j], Header(i, f) = Header(j, g)
  PROVE  i = j /\ f = g
BY NamesDistinct DEF Header

(* send_packet_out adds at most its frame, at the other end of the link.   *)
LEMMA SendArrivals ==
  ASSUME NEW q \in Queues, NEW f \in Frame, NEW i \in Interface,
         NEW r \in send_packet_out(q, f, i),
         NEW j \in Interface, NEW g \in Frame, Arriving(r, j, g)
  PROVE  Arriving(q, j, g) \/ (j = other_interface[i] /\ g = f)
<1> DEFINE z == other_interface[i]
           m == get_neighbour_node(i)
           d == Header(z, f)
<1>1. z \in Interface /\ m = attached_node[z] /\ m \in Node /\ attached_node[j] \in Node
  BY GraphFacts
<1>2. CASE r = q
  BY <1>2
<1>3. CASE r = Sent(q, f, i) /\ r # q
  <2>1. r = [q EXCEPT ![m] = Enqueue(q[m], d)]
    BY <1>3 DEF Sent, Header
  <2>2. d \in Datagram
    BY <1>1, PropertyAssumption DEF Header, Datagram
  <2> HIDE DEF d
  <2>3. CASE attached_node[j] = m
    <3>1. r[m] = Enqueue(q[m], d) /\ q[m] \in Seq(Datagram)
      BY <1>1, <2>1 DEF Queues
    <3>2. PICK k \in 1..Len(r[m]) : r[m][k] = Header(j, g)
      BY <2>3 DEF Arriving
    <3> HIDE DEF m
    <3>3. \A l \in 1..Len(Enqueue(q[m], d)) :
            Enqueue(q[m], d)[l] = d \/ \E x \in 1..Len(q[m]) : Enqueue(q[m], d)[l] = q[m][x]
      BY <2>2, <3>1, EnqueueFacts
    <3>4. CASE r[m][k] = d
      <4>1. Header(z, f) = Header(j, g) /\ attached_node[z] = attached_node[j]
        BY <1>1, <2>3, <3>2, <3>4 DEF d
      <4>2. QED BY <1>1, <4>1, HeaderFacts
    <3>5. QED BY <2>3, <3>1, <3>2, <3>3, <3>4 DEF Arriving
  <2>4. CASE attached_node[j] # m
    BY <1>1, <2>1, <2>4 DEF Arriving, Queues
  <2>5. QED BY <2>3, <2>4
<1>4. QED BY <1>2, <1>3 DEF send_packet_out

(* Reading a datagram brings nothing new.                                  *)
LEMMA RestArrivals ==
  ASSUME inbox \in Queues, NEW n \in Node, inbox[n] # <<>>,
         NEW j \in Interface, NEW g \in Frame, Arriving(Rest(n), j, g)
  PROVE  Arriving(inbox, j, g)
<1>1. PICK k \in 1..Len(Rest(n)[attached_node[j]]) : Rest(n)[attached_node[j]][k] = Header(j, g)
  BY DEF Arriving
<1>2. CASE attached_node[j] = n
  <2>1. inbox[n] \in Seq(Datagram) /\ Rest(n)[n] = Tail(inbox[n])
    BY DEF Rest, Queues
  <2>2. /\ Len(Tail(inbox[n])) = Len(inbox[n]) - 1
        /\ \A l \in 1..Len(Tail(inbox[n])) : Tail(inbox[n])[l] = inbox[n][l + 1]
    BY <2>1, HeadTailProperties
  <2>3. Len(inbox[n]) \in Nat /\ k \in 1..(Len(inbox[n]) - 1)
    BY <1>1, <1>2, <2>1, <2>2, LenProperties
  <2>4. k + 1 \in 1..Len(inbox[n]) /\ inbox[n][k + 1] = Header(j, g)
    BY <1>1, <1>2, <2>1, <2>2, <2>3
  <2>5. QED BY <1>2, <2>4 DEF Arriving
<1>3. CASE attached_node[j] # n
  BY <1>1, <1>3, RestFacts, GraphFacts DEF Arriving
<1>4. QED BY <1>2, <1>3

(* The frame that an interface lets in arrived there.                      *)
LEMMA AcceptArrives ==
  ASSUME IInv, NEW n \in Node, NEW i \in Interface, Accept(n, i)
  PROVE  /\ attached_node[i] = n
         /\ Frm(n) \in Frame
         /\ Arriving(inbox, i, Frm(n))
<1> DEFINE d == Head(inbox[n])
<1>1. Recvfrom(n) /\ Accepted(n, i) /\ attached_node[i] = n
  BY AcceptFacts DEF Accept
<1>2. inbox \in Queues /\ inbox[n] # <<>> /\ d \in Datagram /\ Frm(n) \in Frame
  BY <1>1, ServeFacts
<1>3. i = get_network_node_interface_by_name(n, d.interface_name)
  BY <1>1 DEF Accepted
<1>4. interface_name[i] = d.interface_name
  <2>1. get_network_node_interface_by_name(n, d.interface_name) # NULL
    BY <1>3, GraphAssumption
  <2>2. QED BY <1>3, <2>1, ByNameSound
<1>5. d = Header(i, Frm(n))
  BY <1>2, <1>4 DEF Header, Frm, Datagram
<1>6. inbox[n] \in Seq(Datagram) /\ Len(inbox[n]) \in Nat /\ Len(inbox[n]) # 0
  BY <1>2, EmptySeq, LenProperties DEF Queues
<1>7. d = inbox[n][1] /\ 1 \in 1..Len(inbox[n])
  BY <1>6
<1>8. QED BY <1>1, <1>2, <1>5, <1>7 DEF Arriving
-----------------------------------------------------------------------------
(* The steps                                                               *)

(* What a step has to show: tables only grow, their entries lead home, and *)
(* what is new in the sockets is in place.                                 *)
NewFramesPlaced ==
  \A j \in Interface : \A g \in Frame :
    Arriving(inbox', j, g) => Arriving(inbox, j, g) \/ Placed(mac_table', j, g)

(* Frames stay where they belong when the new ones do.                     *)
LEMMA FramesStep ==
  ASSUME FramesPlaced, Grows(mac_table, mac_table'), NewFramesPlaced
  PROVE  FramesPlaced'
<1> SUFFICES ASSUME NEW j \in Interface, NEW g \in Frame, Arriving(inbox', j, g)
             PROVE  Placed(mac_table', j, g)
  BY DEF FramesPlaced
<1>1. CASE Arriving(inbox, j, g)
  BY <1>1, PlacedGrows DEF FramesPlaced
<1>2. QED BY <1>1 DEF NewFramesPlaced

(* A step that reads a datagram and sends nothing.                         *)
LEMMA RestPlaced ==
  ASSUME IInv, NEW n \in Node, Recvfrom(n), inbox' = Rest(n)
  PROVE  NewFramesPlaced
<1>1. inbox \in Queues /\ inbox[n] # <<>>
  BY ServeFacts
<1>2. QED BY <1>1, RestArrivals DEF NewFramesPlaced

(* One that sends frame f through interface z.                             *)
LEMMA ServePlaced ==
  ASSUME IInv, NEW n \in Node, Recvfrom(n), NEW f \in Frame, NEW z \in Interface,
         inbox' \in send_packet_out(Rest(n), f, z),
         Placed(mac_table', other_interface[z], f)
  PROVE  NewFramesPlaced
<1>1. inbox \in Queues /\ inbox[n] # <<>> /\ Rest(n) \in Queues
  BY ServeFacts
<1>2. SUFFICES ASSUME NEW j \in Interface, NEW g \in Frame, Arriving(inbox', j, g)
               PROVE  Arriving(inbox, j, g) \/ Placed(mac_table', j, g)
  BY DEF NewFramesPlaced
<1>3. Arriving(Rest(n), j, g) \/ (j = other_interface[z] /\ g = f)
  BY <1>1, <1>2, SendArrivals
<1>4. QED BY <1>1, <1>3, RestArrivals

(* The shell asks: the request has just left its interface.                *)
LEMMA RequestPlaced ==
  ASSUME IInv, NEW c \in Commands, send_arp_broadcast_request(c)
  PROVE  NewFramesPlaced
<1> DEFINE i == node_get_matching_subnet_interface(c.node, c.ip, configured)
           f == ArpRequest(i, c.ip)
<1>1. CASE inbox' = inbox
  BY <1>1 DEF NewFramesPlaced
<1>2. CASE i # NULL /\ inbox' \in send_packet_out(inbox, f, i)
  <2>1. c.type = "resolve" /\ c.node \in Node /\ UNCHANGED mac_table /\ inbox \in Queues
    BY EmulatorAssumption DEF send_arp_broadcast_request, Command, tables, IInv, TypeOK, Queues
  <2>2. i \in Interface /\ f \in Frame
    BY <1>2, <2>1, RequestFacts
  <2>3. configured[i]
    BY <1>2, <2>1, MatchingSubnet
  <2>4. ip_address[i] # NULL
    BY <2>2, <2>3 DEF IInv, AddressedOnly
  <2>5. f.src = mac_address[i] /\ f.operation_code = "ARP_BROADCAST_REQUEST" /\ RequestForm(f)
    BY DEF ArpRequest, RequestForm
  <2> HIDE DEF i, f
  <2>6. FromHome(mac_table', other_interface[i], f)
    BY <2>2, <2>4, <2>5, FacesAtOnce, GraphFacts DEF FromHome, Learned
  <2>7. Placed(mac_table', other_interface[i], f)
    BY <2>5, <2>6 DEF Placed, ToStation
  <2>8. \A j \in Interface, g \in Frame :
          Arriving(inbox', j, g) => Arriving(inbox, j, g) \/ (j = other_interface[i] /\ g = f)
    BY <1>2, <2>1, <2>2, SendArrivals
  <2>9. QED BY <2>7, <2>8 DEF NewFramesPlaced
<1>3. QED BY <1>1, <1>2 DEF send_arp_broadcast_request

(* A station replies: the reply goes back the way the request came.        *)
LEMMA ReplyPlaced ==
  ASSUME LoopFree, IInv, TreeInv, NEW n \in Node, NEW i \in Interface,
         process_arp_broadcast_request(n, i)
  PROVE  NewFramesPlaced
<1> DEFINE r == ArpReply(i, Frm(n))
           j == other_interface[i]
<1>1. /\ Accept(n, i) /\ configured[i] /\ Recvfrom(n) /\ UNCHANGED mac_table
      /\ Frm(n).operation_code = "ARP_BROADCAST_REQUEST"
  BY DEF process_arp_broadcast_request, Accept, tables
<1>2. CASE inbox' = Rest(n)
  BY <1>1, <1>2, RestPlaced
<1>3. CASE inbox' \in send_packet_out(Rest(n), r, i)
  <2>1. Frm(n) \in Frame /\ Placed(mac_table, i, Frm(n))
    BY <1>1, AcceptArrives DEF TreeInv, FramesPlaced
  <2>2. r \in Frame /\ ip_address[i] # NULL
    BY <1>1, <2>1, ReplyFacts, PropertyAssumption
  <2>3. /\ r.src = mac_address[i] /\ r.dst = Frm(n).src
        /\ r.operation_code = "ARP_REPLY" /\ RequestForm(r)
    BY <1>1, <2>1 DEF ArpReply, RequestForm, Placed
  <2>4. PICK o \in Interface :
          /\ mac_address[o] = Frm(n).src /\ ip_address[o] # NULL
          /\ Faces(i, o) /\ Learned(mac_table, i, o)
    BY <2>1 DEF Placed, FromHome
  <2>5. /\ j \in Interface /\ other_interface[j] = i
        /\ attached_node[j] = get_neighbour_node(i)
    BY GraphFacts
  <2> HIDE DEF r
  <2>6. FromHome(mac_table', j, r)
    BY <2>2, <2>3, <2>5, FacesAtOnce DEF FromHome, Learned
  <2>7. attached_node[o] \notin FarSide[j]
    BY <2>4, SidesDisjoint DEF Faces
  <2>8. Homeward(mac_table, j, o)
    BY <2>4, <2>5, <2>7 DEF Homeward, Learned
  <2>9. Placed(mac_table', j, r)
    BY <1>1, <2>3, <2>4, <2>6, <2>8 DEF Placed, ToStation
  <2>10. QED BY <1>1, <1>3, <2>2, <2>9, ServePlaced
<1>4. QED BY <1>2, <1>3 DEF process_arp_broadcast_request

(* A switch learns from a frame that a port let in.                        *)
LEMMA SwitchLearns ==
  ASSUME LoopFree, MacsDistinct, IInv, TreeInv, NEW n \in Node, NEW i \in Interface,
         Accept(n, i), mac_table' = [mac_table EXCEPT ![n] = l2_switch_mac_learning(n, i)]
  PROVE  /\ attached_node[i] = n
         /\ Grows(mac_table, mac_table') /\ EntriesLeadHome(mac_table')
         /\ Placed(mac_table', i, Frm(n))
         /\ \E o \in Interface : /\ mac_address[o] = Frm(n).src
                                 /\ ip_address[o] # NULL
                                 /\ Faces(i, o)
                                 /\ Knows(mac_table', n, o)
<1>1. attached_node[i] = n /\ Frm(n) \in Frame /\ Placed(mac_table, i, Frm(n))
  BY AcceptArrives DEF TreeInv, FramesPlaced
<1>2. PICK o \in Interface :
        /\ mac_address[o] = Frm(n).src /\ ip_address[o] # NULL
        /\ Faces(i, o) /\ Learned(mac_table, i, o)
  BY <1>1 DEF Placed, FromHome
<1>3. mac_table \in Tables /\ EntriesLeadHome(mac_table)
  BY DEF IInv, TypeOK, Tables, TreeInv
<1>4. mac_table' = [mac_table EXCEPT ![attached_node[i]] =
                      mac_table_entry_add(mac_table[attached_node[i]],
                        [mac |-> mac_address[o], oif_name |-> interface_name[i]])]
  BY <1>1, <1>2 DEF l2_switch_mac_learning
<1>5. /\ Grows(mac_table, mac_table') /\ EntriesLeadHome(mac_table')
      /\ Knows(mac_table', n, o)
  <2>1. /\ Grows(mac_table, mac_table') /\ EntriesLeadHome(mac_table')
        /\ Knows(mac_table', attached_node[i], o)
    <3>1. Faces(i, o) /\ Learned(mac_table, i, o)
      BY <1>2
    <3>2. QED BY <1>3, <1>4, <3>1, LearnFacts
  <2>2. QED BY <1>1, <2>1
<1>6. QED BY <1>1, <1>2, <1>5, PlacedGrows

(* Who knows D is on the far side of D.                                    *)
LEMMA KnowsFarSide ==
  ASSUME MacsDistinct, NEW t, EntriesLeadHome(t), NEW n \in Node, NEW D \in Interface,
         Knows(t, n, D)
  PROVE  n \in FarSide[D]
<1>1. PICK e \in t[n] : e.mac = mac_address[D]
  BY DEF Knows
<1>2. e \in mac_table_lookup(t[n], mac_address[D])
  BY <1>1 DEF mac_table_lookup, SameMacString
<1>3. QED BY <1>2, LookupFinds DEF Faces

(* What a switch floods is for everybody, or for a station that was moved. *)
LEMMA FloodPassesOn ==
  ASSUME LoopFree, MacsDistinct, IInv, TreeInv, NEW n \in Node, NEW i \in Interface,
         l2_switch_frame_flood(n, i)
  PROVE  FloodPasses'
<1> DEFINE f == Frm(n)
           u == mac_table'
<1>1. /\ Accept(n, i) /\ ~configured[i]
      /\ u = [mac_table EXCEPT ![n] = l2_switch_mac_learning(n, i)]
      /\ f.dst = BROADCAST_MAC_ADDRESS
           \/ mac_table_lookup(l2_switch_mac_learning(n, i), f.dst) = {}
      /\ flood' = [node |-> n, exempted_interface |-> i, frame |-> f, i |-> 1]
  BY DEF l2_switch_frame_flood
<1>2. mac_table \in Tables /\ u[n] = l2_switch_mac_learning(n, i)
  BY <1>1 DEF IInv, TypeOK, Tables
<1>3. /\ attached_node[i] = n /\ Grows(mac_table, u) /\ EntriesLeadHome(u) /\ Placed(u, i, f)
      /\ \E o \in Interface : /\ mac_address[o] = f.src /\ ip_address[o] # NULL
                              /\ Faces(i, o) /\ Knows(u, n, o)
  BY <1>1, SwitchLearns
<1> HIDE DEF f, u
<1>4. NobodyHome(i, f)
  <2> SUFFICES ASSUME f.operation_code = "ARP_REPLY"
               PROVE  \E D \in Interface : /\ mac_address[D] = f.dst /\ ip_address[D] # NULL
                                           /\ Moves(D)
                                           /\ i = D \/ Astray(i, D)
    BY DEF NobodyHome
  <2>1. PICK D \in Interface : /\ mac_address[D] = f.dst /\ ip_address[D] # NULL
                               /\ Homeward(u, i, D) \/ (Moves(D) /\ Astray(i, D))
    BY <1>3 DEF Placed, ToStation
  <2>2. mac_table_lookup(u[n], mac_address[D]) = {}
    BY <1>1, <1>2, <2>1, PropertyAssumption
  <2>3. ~Knows(u, n, D)
    BY <2>2 DEF Knows, mac_table_lookup, SameMacString
  <2>4. i = D => Moves(D)
    BY <1>1, <2>1 DEF TreeInv, StationsStayL3
  <2>5. QED BY <1>3, <2>1, <2>3, <2>4 DEF Homeward
<1>5. Passing(u, i, f)
  BY <1>3, <1>4 DEF Passing, Placed
<1>6. flood'.node = n /\ flood'.exempted_interface = i /\ flood'.frame = f
  BY <1>1
<1>7. Passing(mac_table', i, f)
  BY <1>5 DEF u
<1>8. QED BY <1>3, <1>6, <1>7 DEF FloodPasses

(* What it forwards is a reply, on its way home.                           *)
LEMMA ForwardPlaced ==
  ASSUME LoopFree, MacsDistinct, IInv, TreeInv, NEW n \in Node, NEW i \in Interface,
         l2_switch_frame_forward(n, i)
  PROVE  NewFramesPlaced
<1> DEFINE f == Frm(n)
           u == mac_table'
<1>1. /\ Accept(n, i) /\ Recvfrom(n)
      /\ u = [mac_table EXCEPT ![n] = l2_switch_mac_learning(n, i)]
      /\ f.dst # BROADCAST_MAC_ADDRESS
  BY DEF l2_switch_frame_forward, Accept
<1>2. mac_table \in Tables /\ u[n] = l2_switch_mac_learning(n, i) /\ f \in Frame
  BY <1>1, AcceptArrives DEF IInv, TypeOK, Tables
<1>3. PICK e \in mac_table_lookup(u[n], f.dst) :
        LET oif == get_network_node_interface_by_name(n, e.oif_name) IN
        IF oif = NULL THEN inbox' = Rest(n) ELSE inbox' \in send_packet_out(Rest(n), f, oif)
  BY <1>2 DEF l2_switch_frame_forward
<1>4. attached_node[i] = n /\ EntriesLeadHome(u) /\ Placed(u, i, f)
  BY <1>1, SwitchLearns
<1>5. PICK o \in Interface : /\ mac_address[o] = f.src /\ ip_address[o] # NULL
                             /\ Faces(i, o) /\ Knows(u, n, o)
  BY <1>1, SwitchLearns
<1> HIDE DEF f, u
<1>6. f.operation_code = "ARP_REPLY" /\ RequestForm(f)
  BY <1>1, <1>2, <1>4 DEF Frame, Placed, RequestForm
<1>7. PICK D \in Interface : /\ mac_address[D] = f.dst /\ ip_address[D] # NULL
                             /\ Homeward(u, i, D) \/ Astray(i, D)
  BY <1>4, <1>6 DEF Placed, ToStation
<1>8. PICK p \in Interface : /\ attached_node[p] = n /\ interface_name[p] = e.oif_name
                             /\ Faces(p, D) /\ Learned(u, p, D)
  BY <1>3, <1>4, <1>7, LookupFinds
<1>9. inbox' \in send_packet_out(Rest(n), f, p)
  <2>1. get_network_node_interface_by_name(n, e.oif_name) = p /\ p # NULL
    BY <1>8, ByNameComplete, GraphAssumption
  <2>2. QED BY <1>3, <2>1
<1>10. attached_node[D] \notin FarSide[i]
  BY <1>4, <1>7, <1>8 DEF Faces, Homeward, Astray, LoopFree
<1>11. p # i
  BY <1>8, <1>10 DEF Faces
<1> DEFINE j == other_interface[p]
<1>12. /\ j \in Interface /\ other_interface[j] = p /\ attached_node[j] = get_neighbour_node(p)
       /\ get_neighbour_node(j) = n
  BY <1>8, GraphFacts
<1>13. FromHome(u, j, f)
  BY <1>4, <1>5, <1>8, <1>11, <1>12, FacesOnward DEF FromHome, Learned
<1>14. attached_node[D] \notin FarSide[j]
  BY <1>8, SidesDisjoint DEF Faces
<1>15. Homeward(u, j, D)
  BY <1>8, <1>12, <1>14 DEF Homeward, Learned
<1>16. Placed(u, j, f)
  BY <1>6, <1>7, <1>13, <1>15 DEF Placed, ToStation
<1>17. QED BY <1>1, <1>2, <1>9, <1>16, ServePlaced DEF u

(* One turn of send_packet_flood: the frame leaves its sender behind.      *)
LEMMA FloodPlaced ==
  ASSUME LoopFree, IInv, TreeInv, send_packet_flood
  PROVE  NewFramesPlaced /\ FloodPasses'
<1> DEFINE i == flood.exempted_interface
           f == flood.frame
<1>1. /\ flood \in FloodLoop /\ flood # NULL /\ UNCHANGED mac_table /\ inbox \in Queues
      /\ i \in Interface /\ f \in Frame /\ flood.node \in Node
  BY DEF send_packet_flood, IInv, TypeOK, FloodLoop, tables, Queues
<1>2. attached_node[i] = flood.node /\ Passing(mac_table, i, f)
  BY <1>1 DEF TreeInv, FloodPasses
<1>3. CASE flood' = NULL /\ UNCHANGED inbox
  BY <1>3 DEF NewFramesPlaced, FloodPasses
<1>4. ASSUME flood' = [flood EXCEPT !.i = @ + 1] PROVE FloodPasses'
  <2>1. flood'.node = flood.node /\ flood'.exempted_interface = i /\ flood'.frame = f
    BY <1>1, <1>4 DEF FloodLoop
  <2>2. QED BY <1>1, <1>2, <2>1 DEF FloodPasses
<1>5. CASE flood' = [flood EXCEPT !.i = @ + 1] /\ UNCHANGED inbox
  BY <1>4, <1>5 DEF NewFramesPlaced
<1>6. CASE /\ flood.i \in Slot(flood.node)
           /\ flood' = [flood EXCEPT !.i = @ + 1]
           /\ interface[flood.node][flood.i] # i
           /\ inbox' \in send_packet_out(inbox, f, interface[flood.node][flood.i])
  <2> DEFINE z == interface[flood.node][flood.i]
             j == other_interface[z]
  <2>1. z \in Interface /\ attached_node[z] = attached_node[i] /\ z # i
    BY <1>1, <1>2, <1>6, SlotHolds
  <2> HIDE DEF z, i, f
  <2>2. /\ j \in Interface /\ other_interface[j] = z
        /\ get_neighbour_node(j) = attached_node[i]
    BY <2>1, GraphFacts
  <2>3. FromHome(mac_table, j, f)
    BY <1>1, <1>2, <2>1, <2>2, FacesOnward DEF FromHome, Passing, Learned
  <2>4. ToStation(mac_table, j, f)
    BY <1>1, <1>2, <2>1, AstrayOnward DEF ToStation, Passing, NobodyHome
  <2>5. Placed(mac_table', j, f)
    BY <1>1, <1>2, <2>3, <2>4 DEF Placed, Passing
  <2>6. inbox' \in send_packet_out(inbox, f, z)
    BY <1>6 DEF z, f
  <2>7. \A x \in Interface, g \in Frame :
          Arriving(inbox', x, g) => Arriving(inbox, x, g) \/ (x = j /\ g = f)
    BY <1>1, <2>1, <2>6, SendArrivals
  <2>8. NewFramesPlaced
    BY <2>5, <2>7 DEF NewFramesPlaced
  <2>9. QED BY <1>4, <1>6, <2>8
<1>7. QED BY <1>3, <1>5, <1>6 DEF send_packet_flood

(* Who stays in L3 mode.                                                   *)
LEMMA StationsStep ==
  ASSUME IInv, StationsStayL3, [Next]_vars
  PROVE  StationsStayL3'
<1>1. ASSUME NEW c \in Commands, network_interface_set_l2_node(c)
      PROVE  StationsStayL3'
  <2>1. Moves(c.interface) /\ \A i \in Interface \ {c.interface} : configured'[i] = configured[i]
    BY <1>1 DEF network_interface_set_l2_node, Moves, IInv, TypeOK
  <2>2. QED BY <2>1 DEF StationsStayL3
<1>2. ASSUME \A c \in Commands : ~network_interface_set_l2_node(c)
      PROVE  UNCHANGED configured
  <2>1. CASE ReceiverThread \/ UNCHANGED vars
    BY <2>1 DEF ReceiverThread, Select, send_packet_flood, Receive, RejectFrame, Accept, Recvfrom,
      process_arp_broadcast_request, process_arp_reply_message, l2_switch_frame_flood,
      l2_switch_frame_forward, config, vars
  <2>2. CASE ShellThread
    BY <1>2, <2>2 DEF ShellThread, send_arp_broadcast_request, StoreLayer2Mode, config
  <2>3. QED BY <2>1, <2>2 DEF Next
<1>3. QED BY <1>1, <1>2 DEF StationsStayL3

(* Every step keeps what the switches know, and everything in its place.   *)
LEMMA TreeStep ==
  ASSUME LoopFree, MacsDistinct, IInv, TreeInv, [Next]_vars
  PROVE  TreeInv' /\ Grows(mac_table, mac_table')
<1> DEFINE Learns == Grows(mac_table, mac_table') /\ EntriesLeadHome(mac_table')
<1>1. ASSUME UNCHANGED mac_table PROVE Learns
  BY <1>1 DEF Grows, TreeInv
<1>2. ASSUME UNCHANGED flood, Grows(mac_table, mac_table') PROVE FloodPasses'
  <2>1. CASE flood # NULL
    <3>1. flood.exempted_interface \in Interface /\ flood.frame \in Frame
      BY <2>1 DEF IInv, TypeOK, FloodLoop
    <3>2. QED BY <1>2, <2>1, <3>1, PlacedGrows DEF FloodPasses, TreeInv
  <2>2. QED BY <1>2, <2>1 DEF FloodPasses
<1>3. ASSUME UNCHANGED inbox PROVE NewFramesPlaced
  BY <1>3 DEF NewFramesPlaced
<1>4. ASSUME Select \/ ShellThread \/ UNCHANGED vars
      PROVE  Learns /\ NewFramesPlaced /\ FloodPasses'
  <2>1. UNCHANGED <<mac_table, flood>>
    BY <1>4 DEF Select, ShellThread, send_arp_broadcast_request, network_interface_set_l2_node,
      StoreLayer2Mode, tables, vars
  <2>2. ASSUME \A c \in Commands : ~send_arp_broadcast_request(c) PROVE UNCHANGED inbox
    BY <1>4, <2>2 DEF Select, ShellThread, network_interface_set_l2_node, StoreLayer2Mode, vars
  <2>3. QED BY <1>1, <1>2, <1>3, <2>1, <2>2, RequestPlaced
<1>5. ASSUME NEW n \in Node, Receive(n)
      PROVE  Learns /\ NewFramesPlaced /\ FloodPasses'
  <2>1. CASE RejectFrame(n)
    <3>1. Recvfrom(n) /\ inbox' = Rest(n) /\ UNCHANGED <<mac_table, flood>>
      BY <2>1 DEF RejectFrame, tables
    <3>2. QED BY <1>1, <1>2, <3>1, RestPlaced
  <2>2. ASSUME NEW i \in Interface, process_arp_broadcast_request(n, i)
        PROVE  Learns /\ NewFramesPlaced /\ FloodPasses'
    <3>1. UNCHANGED <<mac_table, flood>>
      BY <2>2 DEF process_arp_broadcast_request, tables
    <3>2. QED BY <1>1, <1>2, <2>2, <3>1, ReplyPlaced
  <2>3. ASSUME NEW i \in Interface, process_arp_reply_message(n, i)
        PROVE  Learns /\ NewFramesPlaced /\ FloodPasses'
    <3>1. Recvfrom(n) /\ inbox' = Rest(n) /\ UNCHANGED <<mac_table, flood>>
      BY <2>3 DEF process_arp_reply_message, Accept
    <3>2. QED BY <1>1, <1>2, <3>1, RestPlaced
  <2>4. ASSUME NEW i \in Interface, l2_switch_frame_flood(n, i)
        PROVE  Learns /\ NewFramesPlaced /\ FloodPasses'
    <3>1. /\ Accept(n, i) /\ Recvfrom(n) /\ inbox' = Rest(n)
          /\ mac_table' = [mac_table EXCEPT ![n] = l2_switch_mac_learning(n, i)]
      BY <2>4 DEF l2_switch_frame_flood, Accept
    <3>2. QED BY <2>4, <3>1, SwitchLearns, RestPlaced, FloodPassesOn
  <2>5. ASSUME NEW i \in Interface, l2_switch_frame_forward(n, i)
        PROVE  Learns /\ NewFramesPlaced /\ FloodPasses'
    <3>1. /\ Accept(n, i) /\ UNCHANGED flood
          /\ mac_table' = [mac_table EXCEPT ![n] = l2_switch_mac_learning(n, i)]
      BY <2>5 DEF l2_switch_frame_forward
    <3>2. Learns
      BY <3>1, SwitchLearns
    <3>3. QED BY <1>2, <2>5, <3>1, <3>2, ForwardPlaced
  <2>6. QED BY <1>5, <2>1, <2>2, <2>3, <2>4, <2>5 DEF Receive
<1>6. ASSUME send_packet_flood PROVE Learns /\ NewFramesPlaced /\ FloodPasses'
  BY <1>1, <1>6, FloodPlaced DEF send_packet_flood, tables
<1>7. Learns /\ NewFramesPlaced /\ FloodPasses'
  BY <1>4, <1>5, <1>6 DEF Next, ReceiverThread
<1>8. QED BY <1>7, FramesStep, StationsStep DEF TreeInv

(* At start-up there are no frames and nothing has been learned.           *)
LEMMA TreeInit ==
  ASSUME Init
  PROVE  TreeInv
<1>1. \A i \in Interface : Len(inbox[attached_node[i]]) = 0
  BY GraphFacts DEF Init
<1>2. FramesPlaced
  BY <1>1 DEF FramesPlaced, Arriving
<1>3. EntriesLeadHome(mac_table)
  BY DEF Init, EntriesLeadHome
<1>4. FloodPasses /\ StationsStayL3
  BY DEF Init, FloodPasses, StationsStayL3
<1>5. QED BY <1>2, <1>3, <1>4 DEF TreeInv

(* The invariant holds in every state the network can reach.               *)
LEMMA TreeInvariance ==
  ASSUME LoopFree, MacsDistinct
  PROVE  Spec => [](IInv /\ TreeInv)
<1>1. Init => IInv /\ TreeInv
  BY InitStep, TreeInit
<1>2. IInv /\ TreeInv /\ [Next]_vars => (IInv /\ TreeInv)'
  BY InductiveStep, TreeStep
<1>3. QED BY <1>1, <1>2, PTL DEF Spec
-----------------------------------------------------------------------------
(* The theorems                                                            *)

(* Whatever is flooded, lost or typed, in a network without loops every    *)
(* entry that l2_switch_mac_learning ever makes leads to the owner of its  *)
(* MAC, although l2_switch_frame_forward may send a frame back out of the  *)
(* port it came in on and l2mode turns stations into switch ports.         *)
THEOREM MacEntriesAlwaysPointHome ==
  ASSUME LoopFree, MacsDistinct
  PROVE  Spec => []MacEntriesPointHome
<1>1. TreeInv => MacEntriesPointHome
  BY DEF TreeInv, EntriesLeadHome, Faces, MacEntriesPointHome
<1>2. QED BY <1>1, TreeInvariance, PTL

(* And once mac_table_entry_add has made an entry, it never has to replace *)
(* it: no entry moves to another port or is lost.                          *)
THEOREM NeverThrashes ==
  ASSUME LoopFree, MacsDistinct
  PROVE  Spec => NoThrashing
<1>1. IInv /\ TreeInv /\ [Next]_vars => [\A n \in Node : mac_table[n] \subseteq mac_table'[n]]_vars
  BY TreeStep DEF Grows
<1>2. QED BY <1>1, TreeInvariance, PTL DEF Spec, NoThrashing

(* Where no command touches an interface with an address, every switch     *)
(* that receives a reply knows the way to the station it is for.           *)
THEOREM RepliesNeverFlooded ==
  ASSUME LoopFree, MacsDistinct,
         \A c \in Commands : c.type = "l2mode" => ip_address[c.interface] = NULL
  PROVE  Spec => []ReplyNeverFlooded
<1>1. TreeInv => ReplyNeverFlooded
  BY DEF TreeInv, FloodPasses, Passing, NobodyHome, Moves, ReplyNeverFlooded
<1>2. QED BY <1>1, TreeInvariance, PTL
=============================================================================
