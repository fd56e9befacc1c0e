--------------------------- MODULE L2EmulatorProofs ---------------------------
(***************************************************************************)
(* Theorems about L2Emulator, for every network, every initial mode of the *)
(* interfaces, every size of the socket buffers and every sequence of      *)
(* shell commands, with or without losses.                                 *)
(***************************************************************************)
EXTENDS L2Emulator, NetworkGraphProofs, SequenceTheorems

Queues == [Node -> Seq(Datagram)]

(* The frames under way in the socket queues q.                            *)
Frames(q) == {f \in Frame : \E n \in Node : \E k \in 1..Len(q[n]) : q[n][k].frame = f}
-----------------------------------------------------------------------------
(* The socket queues                                                       *)

(* Putting a datagram into a queue, if there is room.                      *)
LEMMA EnqueueFacts ==
  ASSUME NEW q \in Seq(Datagram), NEW d \in Datagram
  PROVE  /\ Enqueue(q, d) \in Seq(Datagram)
         /\ q # <<>> => Enqueue(q, d) # <<>>
         /\ \A k \in 1..Len(Enqueue(q, d)) :
              Enqueue(q, d)[k] = d \/ \E j \in 1..Len(q) : Enqueue(q, d)[k] = q[j]
<1>1. CASE Len(q) < SocketBuffer
  <2>1. Enqueue(q, d) = Append(q, d)
    BY <1>1 DEF Enqueue
  <2>2. /\ Append(q, d) \in Seq(Datagram)
        /\ Len(Append(q, d)) = Len(q) + 1
        /\ \A k \in 1..Len(q) : Append(q, d)[k] = q[k]
        /\ Append(q, d)[Len(q) + 1] = d
    BY AppendProperties
  <2>3. Len(q) \in Nat
    BY LenProperties
  <2>4. Append(q, d) # <<>>
    BY <2>2, <2>3, EmptySeq
  <2>5. QED BY <2>1, <2>2, <2>3, <2>4
<1>2. CASE ~ (Len(q) < SocketBuffer)
  BY <1>2 DEF Enqueue
<1>3. QED BY <1>1, <1>2

(* What send_packet_out may leave in the queues.                           *)
LEMMA SendFacts ==
  ASSUME NEW q \in Queues, NEW f \in Frame, NEW i \in Interface,
         NEW r \in send_packet_out(q, f, i)
  PROVE  /\ r \in Queues
         /\ \A n \in Node : q[n] # <<>> => r[n] # <<>>
         /\ Frames(r) \subseteq Frames(q) \cup {f}
<1>1. CASE r = q
  BY <1>1
<1>2. CASE r = Sent(q, f, i) /\ r # q
  <2> DEFINE m == get_neighbour_node(i)
             d == [interface_name |-> interface_name[other_interface[i]], frame |-> f]
  <2>1. m \in Node /\ d \in Datagram
    BY GraphAssumption, PropertyAssumption DEF get_neighbour_node, Datagram
  <2>2. r = [q EXCEPT ![m] = Enqueue(q[m], d)]
    BY <1>2 DEF Sent
  <2>3. \A n \in Node : q[n] \in Seq(Datagram)
    BY DEF Queues
  <2>4. /\ Enqueue(q[m], d) \in Seq(Datagram)
        /\ q[m] # <<>> => Enqueue(q[m], d) # <<>>
        /\ \A k \in 1..Len(Enqueue(q[m], d)) :
             Enqueue(q[m], d)[k] = d \/ \E j \in 1..Len(q[m]) : Enqueue(q[m], d)[k] = q[m][j]
    BY <2>1, <2>3, EnqueueFacts
  <2> HIDE DEF m, d
  <2>5. \A n \in Node : r[n] = IF n = m THEN Enqueue(q[m], d) ELSE q[n]
    BY <2>1, <2>2 DEF Queues
  <2>6. r \in Queues
    BY <2>1, <2>2, <2>4 DEF Queues
  <2>7. d.frame = f
    BY DEF d
  <2>8. Frames(r) \subseteq Frames(q) \cup {f}
    <3> SUFFICES ASSUME NEW g \in Frame, NEW n \in Node, NEW k \in 1..Len(r[n]),
                        r[n][k].frame = g, g # f
                 PROVE  \E j \in 1..Len(q[n]) : q[n][j].frame = g
      BY DEF Frames
    <3>1. CASE n = m
      BY <2>4, <2>5, <2>7, <3>1
    <3>2. CASE n # m
      BY <2>5, <3>2
    <3>3. QED BY <3>1, <3>2
  <2>9. QED BY <2>4, <2>5, <2>6, <2>8
<1>3. QED BY <1>1, <1>2 DEF send_packet_out

(* Reading the datagram at the head of a queue.                            *)
LEMMA RestFacts ==
  ASSUME inbox \in Queues, NEW n \in Node, inbox[n] # <<>>
  PROVE  /\ Rest(n) \in Queues
         /\ Head(inbox[n]) \in Datagram
         /\ Frm(n) \in Frames(inbox)
         /\ Frames(Rest(n)) \subseteq Frames(inbox)
         /\ \A m \in Node \ {n} : Rest(n)[m] = inbox[m]
<1>1. inbox[n] \in Seq(Datagram)
  BY DEF Queues
<1>2. /\ Head(inbox[n]) \in Datagram
      /\ Tail(inbox[n]) \in Seq(Datagram)
      /\ Len(Tail(inbox[n])) = Len(inbox[n]) - 1
      /\ \A k \in 1..Len(Tail(inbox[n])) : Tail(inbox[n])[k] = inbox[n][k + 1]
  BY <1>1, HeadTailProperties
<1>3. Len(inbox[n]) \in Nat /\ Len(inbox[n]) # 0
  BY <1>1, EmptySeq, LenProperties
<1>4. Head(inbox[n]) = inbox[n][1]
  BY <1>1
<1>5. Frm(n) \in Frame
  BY <1>2 DEF Frm, Datagram
<1>6. Frm(n) \in Frames(inbox)
  BY <1>3, <1>4, <1>5 DEF Frames, Frm
<1>7. Rest(n) \in Queues
  BY <1>2 DEF Rest, Queues
<1>8. /\ Rest(n)[n] = Tail(inbox[n])
      /\ \A m \in Node \ {n} : Rest(n)[m] = inbox[m]
  BY DEF Rest, Queues
<1>9. Frames(Rest(n)) \subseteq Frames(inbox)
  <2> SUFFICES ASSUME NEW g \in Frame, NEW m \in Node, NEW k \in 1..Len(Rest(n)[m]),
                      Rest(n)[m][k].frame = g
               PROVE  \E j \in 1..Len(inbox[m]) : inbox[m][j].frame = g
    BY DEF Frames
  <2>1. CASE m = n
    <3>0. k \in 1..Len(Tail(inbox[n]))
      BY <1>8, <2>1
    <3>1. k + 1 \in 1..Len(inbox[n])
      BY <1>2, <1>3, <3>0
    <3>2. QED BY <1>2, <1>8, <2>1, <3>0, <3>1
  <2>2. CASE m # n
    BY <1>8, <2>2
  <2>3. QED BY <2>1, <2>2
<1>10. QED BY <1>2, <1>6, <1>7, <1>8, <1>9
-----------------------------------------------------------------------------
(* The inductive invariant                                                 *)

(* select() only reports sockets that hold a datagram.                     *)
ReadyHasDatagram == \A n \in active : inbox[n] # <<>>

(* Only an interface with an address is ever in L3 mode.                   *)
AddressedOnly == \A i \in Interface : configured[i] => ip_address[i] # NULL

(* A command between its two stores has switched the address off.          *)
PendingOff ==
  pending # NULL => /\ pending \in Command
                    /\ pending.type = "l2mode"
                    /\ ~configured[pending.interface]

(* Requests come from interfaces, never from the broadcast address.        *)
AskersAreInterfaces == \A a \in asked : a[1] # BROADCAST_MAC_ADDRESS

(* What a frame claims, given the requests a made so far: a request is one *)
(* of them, and a reply is addressed to a station that asked and comes     *)
(* from an owner of the address.                                           *)
Truthful(f, a) ==
  /\ f.operation_code = "ARP_BROADCAST_REQUEST"
       => <<f.arp_source_mac, f.arp_destignation_ip>> \in a
  /\ f.operation_code = "ARP_REPLY"
       => /\ <<f.dst, f.arp_source_ip>> \in a
          /\ \E j \in Interface : ip_address[j] = f.arp_source_ip /\ mac_address[j] = f.arp_source_mac

(* Every frame in a socket, or in the loop of send_packet_flood.           *)
UnderWay == Frames(inbox) \cup {f \in Frame : flood # NULL /\ f = flood.frame}

FramesTruthful == \A f \in UnderWay : Truthful(f, asked)

IInv ==
  /\ TypeOK
  /\ ReadyHasDatagram
  /\ AddressedOnly /\ OneLayer /\ PendingOff
  /\ AskersAreInterfaces /\ FramesTruthful
  /\ ArpEntriesAreAnswers
  /\ OneEntryPerKey
-----------------------------------------------------------------------------
(* What the actions work on                                                *)

(* The receiver thread serves a socket that has a datagram.                *)
LEMMA ServeFacts ==
  ASSUME IInv, NEW n \in Node, Recvfrom(n)
  PROVE  /\ inbox \in Queues /\ inbox[n] # <<>> /\ flood = NULL
         /\ Rest(n) \in Queues
         /\ Head(inbox[n]) \in Datagram
         /\ Frm(n) \in Frame /\ Frm(n) \in Frames(inbox)
         /\ Frames(Rest(n)) \subseteq Frames(inbox)
         /\ \A m \in active' : Rest(n)[m] # <<>>
<1>1. inbox \in Queues /\ inbox[n] # <<>> /\ flood = NULL /\ active' = active \ {n}
  BY DEF Recvfrom, IInv, TypeOK, Queues, ReadyHasDatagram
<1>2. active \subseteq Node /\ \A m \in active : inbox[m] # <<>>
  BY DEF IInv, TypeOK, ReadyHasDatagram
<1>3. QED BY <1>1, <1>2, RestFacts DEF Frames

(* It hands the frame to the interface that the header names.              *)
LEMMA AcceptFacts ==
  ASSUME IInv, NEW n \in Node, NEW i \in Interface, Accept(n, i)
  PROVE  /\ Recvfrom(n)
         /\ attached_node[i] = n
         /\ Truthful(Frm(n), asked)
         /\ configured[i] => Frm(n).dst \in {mac_address[i], BROADCAST_MAC_ADDRESS}
<1>1. Recvfrom(n) /\ Accepted(n, i)
  BY DEF Accept
<1>2. get_network_node_interface_by_name(n, Head(inbox[n]).interface_name) = i
  BY <1>1 DEF Accepted
<1>3. attached_node[i] = n
  BY <1>2, ByNameSound, GraphAssumption
<1>4. Truthful(Frm(n), asked)
  BY <1>1, ServeFacts DEF IInv, FramesTruthful, UnderWay
<1>5. QED BY <1>1, <1>3, <1>4 DEF Accepted, layer_2_frame_recieving_qualify_on_interface

(* A request is a frame.                                                   *)
LEMMA RequestFacts ==
  ASSUME IInv, NEW c \in Commands, c.type = "resolve",
         NEW i, i = node_get_matching_subnet_interface(c.node, c.ip, configured), i # NULL
  PROVE  i \in Interface /\ c.ip \in IPAddress /\ ArpRequest(i, c.ip) \in Frame
<1>1. c.node \in Node /\ c.ip \in IPAddress
  BY EmulatorAssumption DEF Command
<1>2. i \in Interface /\ configured[i]
  BY <1>1, MatchingSubnet
<1>3. ip_address[i] \in IPAddress
  BY <1>2, PropertyAssumption DEF IInv, AddressedOnly
<1>4. mac_address[i] \in MAC /\ BROADCAST_MAC_ADDRESS \in MAC
  BY <1>2, PropertyAssumption
<1>5. QED BY <1>1, <1>2, <1>3, <1>4 DEF ArpRequest, Frame

(* So is a reply.                                                          *)
LEMMA ReplyFacts ==
  ASSUME IInv, NEW i \in Interface, configured[i], NEW f \in Frame
  PROVE  ArpReply(i, f) \in Frame /\ ip_address[i] \in IPAddress
<1>1. ip_address[i] \in IPAddress
  BY PropertyAssumption DEF IInv, AddressedOnly
<1>2. mac_address[i] \in MAC
  BY PropertyAssumption
<1>3. QED BY <1>1, <1>2 DEF ArpReply, Frame
-----------------------------------------------------------------------------
(* The layers of the interfaces                                            *)

LEMMA LayerStep ==
  ASSUME IInv, [Next]_vars
  PROVE  (AddressedOnly /\ OneLayer /\ PendingOff)'
<1> USE DEF AddressedOnly, OneLayer, PendingOff
<1>0. /\ AddressedOnly /\ OneLayer /\ PendingOff
      /\ configured \in [Interface -> BOOLEAN] /\ layer_2_mode \in [Interface -> Mode]
  BY DEF IInv, TypeOK
<1>1. CASE UNCHANGED <<config, pending>>
  BY <1>0, <1>1 DEF config
<1>2. ASSUME NEW c \in Commands, network_interface_set_l2_node(c)
      PROVE  (AddressedOnly /\ OneLayer /\ PendingOff)'
  <2>1. /\ c \in Command /\ c # NULL /\ c.type = "l2mode" /\ pending = NULL
        /\ c.interface \in Interface /\ c.mode \in {ACCESS, TRUNK}
    BY <1>2, EmulatorAssumption DEF network_interface_set_l2_node, Type, Command
  <2>2. CASE configured[c.interface]
    BY <1>0, <1>2, <2>1, <2>2 DEF network_interface_set_l2_node
  <2>3. CASE ~configured[c.interface]
    BY <1>0, <1>2, <2>1, <2>3, EmulatorAssumption DEF network_interface_set_l2_node
  <2>4. QED BY <2>2, <2>3
<1>3. ASSUME StoreLayer2Mode
      PROVE  (AddressedOnly /\ OneLayer /\ PendingOff)'
  <2>1. /\ pending \in Command /\ pending.type = "l2mode" /\ ~configured[pending.interface]
        /\ pending.interface \in Interface /\ pending.mode \in {ACCESS, TRUNK}
    BY <1>0, <1>3 DEF StoreLayer2Mode, Command
  <2>2. QED BY <1>0, <1>3, <2>1, EmulatorAssumption DEF StoreLayer2Mode
<1>4. ASSUME NEW c \in Commands, send_arp_broadcast_request(c)
      PROVE  UNCHANGED <<config, pending>>
  BY <1>4 DEF send_arp_broadcast_request, config
<1>5. ASSUME ReceiverThread PROVE UNCHANGED <<config, pending>>
  BY <1>5 DEF ReceiverThread, Select, send_packet_flood, Receive, RejectFrame, Accept, Recvfrom,
    process_arp_broadcast_request, process_arp_reply_message, l2_switch_frame_flood,
    l2_switch_frame_forward, config, shell
<1>6. CASE UNCHANGED vars
  BY <1>1, <1>6 DEF vars, config
<1>7. QED BY <1>1, <1>2, <1>3, <1>4, <1>5, <1>6 DEF Next, ShellThread

(* One entry per key                                                       *)

LEMMA ArpTableKeys ==
  ASSUME NEW table, NEW new,
         \A e, f \in table : e.ip = f.ip => e = f
  PROVE  \A e, f \in arp_table_add_entry(table, new) : e.ip = f.ip => e = f
BY DEF arp_table_add_entry, arp_table_lookup

LEMMA MacTableKeys ==
  ASSUME NEW table, NEW new,
         \A e, f \in table : SameMacString(e.mac, f.mac) => e = f
  PROVE  \A e, f \in mac_table_entry_add(table, new) : SameMacString(e.mac, f.mac) => e = f
BY DEF mac_table_entry_add, mac_table_lookup, SameMacString

(* Only these two functions change a table.                                *)
LEMMA KeyStep ==
  ASSUME IInv, [Next]_vars
  PROVE  OneEntryPerKey'
<1> USE DEF OneEntryPerKey
<1>0. /\ OneEntryPerKey
      /\ arp_table \in [Node -> SUBSET ArpEntry] /\ mac_table \in [Node -> SUBSET MacEntry]
  BY DEF IInv, TypeOK
<1>1. CASE UNCHANGED tables
  BY <1>0, <1>1 DEF tables
<1>2. ASSUME NEW n \in Node, NEW i \in Interface, process_arp_reply_message(n, i)
      PROVE  OneEntryPerKey'
  BY <1>0, <1>2, ArpTableKeys DEF process_arp_reply_message
<1>3. ASSUME NEW n \in Node, NEW i \in Interface,
             mac_table' = [mac_table EXCEPT ![n] = l2_switch_mac_learning(n, i)],
             UNCHANGED arp_table
      PROVE  OneEntryPerKey'
  <2>1. \A e, f \in l2_switch_mac_learning(n, i) : SameMacString(e.mac, f.mac) => e = f
    BY <1>0, MacTableKeys DEF l2_switch_mac_learning
  <2>2. QED BY <1>0, <1>3, <2>1
<1>4. ASSUME NEW n \in Node, NEW i \in Interface,
             l2_switch_frame_flood(n, i) \/ l2_switch_frame_forward(n, i)
      PROVE  OneEntryPerKey'
  BY <1>3, <1>4 DEF l2_switch_frame_flood, l2_switch_frame_forward
<1>5. ASSUME NEW n \in Node,
             RejectFrame(n) \/ \E i \in Interface : process_arp_broadcast_request(n, i)
      PROVE  UNCHANGED tables
  BY <1>5 DEF RejectFrame, process_arp_broadcast_request
<1>6. ASSUME Select \/ send_packet_flood \/ ShellThread PROVE UNCHANGED tables
  BY <1>6 DEF Select, send_packet_flood, ShellThread, send_arp_broadcast_request,
    network_interface_set_l2_node, StoreLayer2Mode
<1>7. CASE UNCHANGED vars
  BY <1>1, <1>7 DEF vars, tables
<1>8. QED BY <1>1, <1>2, <1>4, <1>5, <1>6, <1>7 DEF Next, ReceiverThread, Receive
-----------------------------------------------------------------------------
(* The socket queues                                                       *)

(* New in the queues after a step: frames that claim the truth, given what *)
(* has been asked by then.                                                 *)
QueuesGrowTruthful ==
  /\ inbox' \in Queues
  /\ \A n \in active' : inbox'[n] # <<>>
  /\ \A f \in Frames(inbox') : f \in UnderWay \/ Truthful(f, asked')

LEMMA RequestQueues ==
  ASSUME IInv, NEW c \in Commands, send_arp_broadcast_request(c)
  PROVE  QueuesGrowTruthful /\ asked' \subseteq MAC \X IPAddress /\ asked \subseteq asked' /\ AskersAreInterfaces'
<1> DEFINE oif == node_get_matching_subnet_interface(c.node, c.ip, configured)
<1>0. inbox \in Queues /\ ReadyHasDatagram /\ asked \subseteq MAC \X IPAddress /\ AskersAreInterfaces
  BY DEF IInv, TypeOK, Queues
<1>1. c.type = "resolve" /\ active' = active /\ active \subseteq Node
  BY DEF send_arp_broadcast_request, IInv, TypeOK
<1>2. CASE UNCHANGED <<inbox, asked>>
  BY <1>0, <1>1, <1>2 DEF QueuesGrowTruthful, ReadyHasDatagram, UnderWay, AskersAreInterfaces
<1>3. CASE /\ oif # NULL
           /\ inbox' \in send_packet_out(inbox, ArpRequest(oif, c.ip), oif)
           /\ asked' = asked \cup {<<mac_address[oif], c.ip>>}
  <2>1. oif \in Interface /\ c.ip \in IPAddress /\ ArpRequest(oif, c.ip) \in Frame
    BY <1>1, <1>3, RequestFacts
  <2>2. mac_address[oif] \in MAC \ {BROADCAST_MAC_ADDRESS}
    BY <2>1, PropertyAssumption
  <2> HIDE DEF oif
  <2>3. /\ inbox' \in Queues
        /\ \A n \in Node : inbox[n] # <<>> => inbox'[n] # <<>>
        /\ Frames(inbox') \subseteq Frames(inbox) \cup {ArpRequest(oif, c.ip)}
    BY <1>0, <1>3, <2>1, SendFacts
  <2>4. Truthful(ArpRequest(oif, c.ip), asked')
    BY <1>3 DEF Truthful, ArpRequest
  <2>5. QueuesGrowTruthful
    BY <1>0, <1>1, <2>3, <2>4 DEF QueuesGrowTruthful, ReadyHasDatagram, UnderWay
  <2>6. QED BY <1>0, <1>3, <2>1, <2>2, <2>5 DEF AskersAreInterfaces
<1>4. QED BY <1>2, <1>3 DEF send_arp_broadcast_request

(* A step of the receiver thread that serves a socket and sends frame f,   *)
(* or nothing.                                                             *)
LEMMA ServeQueues ==
  ASSUME IInv, NEW n \in Node, Recvfrom(n),
         \/ inbox' = Rest(n)
         \/ \E f \in Frame, i \in Interface :
              /\ inbox' \in send_packet_out(Rest(n), f, i)
              /\ f \in UnderWay \/ Truthful(f, asked')
  PROVE  QueuesGrowTruthful
<1>1. /\ Rest(n) \in Queues /\ Frames(Rest(n)) \subseteq Frames(inbox)
      /\ \A m \in active' : Rest(n)[m] # <<>>
      /\ active' \subseteq Node
  BY ServeFacts DEF Recvfrom, IInv, TypeOK
<1>2. CASE inbox' = Rest(n)
  BY <1>1, <1>2 DEF QueuesGrowTruthful, UnderWay
<1>3. ASSUME NEW f \in Frame, NEW i \in Interface,
             inbox' \in send_packet_out(Rest(n), f, i), f \in UnderWay \/ Truthful(f, asked')
      PROVE  QueuesGrowTruthful
  <2>1. /\ inbox' \in Queues
        /\ \A m \in Node : Rest(n)[m] # <<>> => inbox'[m] # <<>>
        /\ Frames(inbox') \subseteq Frames(Rest(n)) \cup {f}
    BY <1>1, <1>3, SendFacts
  <2>2. QED BY <1>1, <1>3, <2>1 DEF QueuesGrowTruthful, UnderWay
<1>4. QED BY <1>2, <1>3

LEMMA ReplyQueues ==
  ASSUME IInv, NEW n \in Node, NEW i \in Interface, process_arp_broadcast_request(n, i)
  PROVE  QueuesGrowTruthful
<1>1. Accept(n, i) /\ configured[i] /\ UNCHANGED asked
  BY DEF process_arp_broadcast_request, Accept, Recvfrom, shell
<1>2. Recvfrom(n) /\ Truthful(Frm(n), asked) /\ Frm(n) \in Frame
  BY <1>1, AcceptFacts, ServeFacts
<1>3. ArpReply(i, Frm(n)) \in Frame
  BY <1>1, <1>2, ReplyFacts
<1>4. ASSUME ip_address[i] = Frm(n).arp_destignation_ip PROVE Truthful(ArpReply(i, Frm(n)), asked')
  BY <1>1, <1>2, <1>4 DEF Truthful, ArpReply, process_arp_broadcast_request
<1>5. \/ inbox' = Rest(n)
      \/ /\ inbox' \in send_packet_out(Rest(n), ArpReply(i, Frm(n)), i)
         /\ Truthful(ArpReply(i, Frm(n)), asked')
  BY <1>4 DEF process_arp_broadcast_request
<1>6. QED BY <1>2, <1>3, <1>5, ServeQueues

LEMMA ForwardQueues ==
  ASSUME IInv, NEW n \in Node, NEW i \in Interface, l2_switch_frame_forward(n, i)
  PROVE  QueuesGrowTruthful
<1>1. Accept(n, i)
  BY DEF l2_switch_frame_forward
<1>2. Recvfrom(n) /\ Frm(n) \in Frame /\ Frm(n) \in UnderWay
  BY <1>1, AcceptFacts, ServeFacts DEF UnderWay
<1>3. PICK e : LET oif == get_network_node_interface_by_name(n, e.oif_name) IN
               IF oif = NULL THEN inbox' = Rest(n)
               ELSE inbox' \in send_packet_out(Rest(n), Frm(n), oif)
  BY DEF l2_switch_frame_forward
<1>4. CASE inbox' = Rest(n)
  BY <1>2, <1>4, ServeQueues
<1>5. CASE get_network_node_interface_by_name(n, e.oif_name) # NULL
  <2>1. get_network_node_interface_by_name(n, e.oif_name) \in Interface
    BY <1>5, ByNameSound
  <2>2. QED BY <1>2, <1>3, <1>5, <2>1, ServeQueues
<1>6. QED BY <1>3, <1>4, <1>5

LEMMA FloodQueues ==
  ASSUME IInv, send_packet_flood
  PROVE  QueuesGrowTruthful /\ flood' \in FloodLoop \cup {NULL} /\ (flood' # NULL => flood'.frame = flood.frame)
<1>0. /\ inbox \in Queues /\ ReadyHasDatagram /\ active' = active /\ active \subseteq Node
      /\ flood \in FloodLoop /\ flood # NULL /\ flood.frame \in Frame /\ flood.node \in Node
  BY DEF IInv, TypeOK, Queues, send_packet_flood, FloodLoop
<1>1. CASE flood.i \notin Slot(flood.node)
  BY <1>0, <1>1 DEF send_packet_flood, QueuesGrowTruthful, ReadyHasDatagram, UnderWay
<1>2. CASE flood.i \in Slot(flood.node)
  <2> DEFINE i == interface[flood.node][flood.i]
  <2>1. i \in Interface
    BY <1>0, <1>2, SlotHolds
  <2>2. /\ flood' = [flood EXCEPT !.i = @ + 1]
        /\ inbox' = inbox \/ inbox' \in send_packet_out(inbox, flood.frame, i)
    BY <1>2 DEF send_packet_flood
  <2>3. flood' \in FloodLoop /\ flood'.frame = flood.frame
    BY <1>0, <2>2 DEF FloodLoop
  <2> HIDE DEF i
  <2>4. CASE inbox' = inbox
    BY <1>0, <2>3, <2>4 DEF QueuesGrowTruthful, ReadyHasDatagram, UnderWay
  <2>5. CASE inbox' \in send_packet_out(inbox, flood.frame, i)
    <3>1. /\ inbox' \in Queues
          /\ \A n \in Node : inbox[n] # <<>> => inbox'[n] # <<>>
          /\ Frames(inbox') \subseteq Frames(inbox) \cup {flood.frame}
      BY <1>0, <2>1, <2>5, SendFacts
    <3>2. flood.frame \in UnderWay
      BY <1>0 DEF UnderWay
    <3>3. QED BY <1>0, <2>3, <3>1, <3>2 DEF QueuesGrowTruthful, ReadyHasDatagram, UnderWay
  <2>6. QED BY <2>2, <2>4, <2>5
<1>3. QED BY <1>1, <1>2
-----------------------------------------------------------------------------
(* Every step                                                              *)

LEMMA QueueStep ==
  ASSUME IInv, [Next]_vars
  PROVE  /\ QueuesGrowTruthful
         /\ asked' \subseteq MAC \X IPAddress /\ asked \subseteq asked' /\ AskersAreInterfaces'
<1> DEFINE AskedGrows == /\ asked' \subseteq MAC \X IPAddress /\ asked \subseteq asked'
                         /\ AskersAreInterfaces'
<1>0. /\ inbox \in Queues /\ active \subseteq Node /\ ReadyHasDatagram
      /\ asked \subseteq MAC \X IPAddress /\ AskersAreInterfaces
  BY DEF IInv, TypeOK, Queues
<1>1. ASSUME UNCHANGED asked PROVE AskedGrows
  BY <1>0, <1>1 DEF AskersAreInterfaces
<1>2. ASSUME UNCHANGED <<inbox, asked>>, active' = active \/ active' = {n \in Node : inbox[n] # <<>>}
      PROVE  QueuesGrowTruthful /\ AskedGrows
  BY <1>0, <1>1, <1>2 DEF QueuesGrowTruthful, ReadyHasDatagram, UnderWay
<1>3. ASSUME \/ Select \/ StoreLayer2Mode \/ UNCHANGED vars
             \/ \E c \in Commands : network_interface_set_l2_node(c)
      PROVE  QueuesGrowTruthful /\ AskedGrows
  <2>1. CASE Select
    BY <1>2, <2>1 DEF Select, shell
  <2>2. CASE StoreLayer2Mode
    BY <1>2, <2>2 DEF StoreLayer2Mode
  <2>3. CASE UNCHANGED vars
    BY <1>2, <2>3 DEF vars
  <2>4. ASSUME NEW c \in Commands, network_interface_set_l2_node(c)
        PROVE  QueuesGrowTruthful /\ AskedGrows
    BY <1>2, <2>4 DEF network_interface_set_l2_node
  <2>5. QED BY <1>3, <2>1, <2>2, <2>3, <2>4
<1>4. ASSUME NEW c \in Commands, send_arp_broadcast_request(c)
      PROVE  QueuesGrowTruthful /\ AskedGrows
  BY <1>4, RequestQueues
<1>5. ASSUME send_packet_flood PROVE QueuesGrowTruthful /\ AskedGrows
  BY <1>1, <1>5, FloodQueues DEF send_packet_flood, shell
<1>6. ASSUME NEW n \in Node, Receive(n) PROVE QueuesGrowTruthful /\ AskedGrows
  <2>1. UNCHANGED asked
    BY <1>6 DEF Receive, RejectFrame, Accept, Recvfrom, process_arp_broadcast_request,
      process_arp_reply_message, l2_switch_frame_flood, l2_switch_frame_forward, shell
  <2>2. ASSUME RejectFrame(n) PROVE QueuesGrowTruthful
    BY <2>2, ServeQueues DEF RejectFrame
  <2>3. ASSUME NEW i \in Interface, process_arp_reply_message(n, i) \/ l2_switch_frame_flood(n, i)
        PROVE  QueuesGrowTruthful
    BY <2>3, ServeQueues DEF process_arp_reply_message, l2_switch_frame_flood, Accept
  <2>4. QueuesGrowTruthful
    BY <1>6, <2>2, <2>3, ReplyQueues, ForwardQueues DEF Receive
  <2>5. QED BY <1>1, <2>1, <2>4
<1>7. QED BY <1>3, <1>4, <1>5, <1>6 DEF Next, ReceiverThread, ShellThread

(* The loop of send_packet_flood floods a frame that was received.         *)
LEMMA FloodStep ==
  ASSUME IInv, [Next]_vars
  PROVE  /\ flood' \in FloodLoop \cup {NULL}
         /\ flood' # NULL => flood'.frame \in UnderWay
<1>0. flood \in FloodLoop \cup {NULL} /\ (flood # NULL => flood.frame \in UnderWay)
  BY DEF IInv, TypeOK, UnderWay, FloodLoop
<1>1. CASE UNCHANGED flood
  BY <1>0, <1>1
<1>2. CASE send_packet_flood
  BY <1>0, <1>2, FloodQueues DEF send_packet_flood
<1>3. ASSUME NEW n \in Node, NEW i \in Interface, l2_switch_frame_flood(n, i)
      PROVE  flood' \in FloodLoop /\ flood'.frame \in UnderWay
  <2>1. Recvfrom(n) /\ Frm(n) \in Frame /\ Frm(n) \in UnderWay
    BY <1>3, AcceptFacts, ServeFacts DEF l2_switch_frame_flood, UnderWay
  <2>2. flood' = [node |-> n, exempted_interface |-> i, frame |-> Frm(n), i |-> 1]
    BY <1>3 DEF l2_switch_frame_flood
  <2>3. QED BY <2>1, <2>2 DEF FloodLoop
<1>4. ASSUME Select \/ ShellThread \/ UNCHANGED vars PROVE UNCHANGED flood
  BY <1>4 DEF Select, ShellThread, send_arp_broadcast_request, network_interface_set_l2_node,
    StoreLayer2Mode, vars
<1>5. ASSUME NEW n \in Node, Receive(n), \A i \in Interface : ~l2_switch_frame_flood(n, i)
      PROVE  UNCHANGED flood
  BY <1>5 DEF Receive, RejectFrame, process_arp_broadcast_request, process_arp_reply_message,
    l2_switch_frame_forward
<1>6. QED BY <1>1, <1>2, <1>3, <1>4, <1>5 DEF Next, ReceiverThread

(* What the tables take in has the types of their fields.                  *)
LEMMA TableStep ==
  ASSUME IInv, [Next]_vars
  PROVE  arp_table' \in [Node -> SUBSET ArpEntry] /\ mac_table' \in [Node -> SUBSET MacEntry]
<1>0. arp_table \in [Node -> SUBSET ArpEntry] /\ mac_table \in [Node -> SUBSET MacEntry]
  BY DEF IInv, TypeOK
<1>1. CASE UNCHANGED tables
  BY <1>0, <1>1 DEF tables
<1>2. ASSUME NEW n \in Node, NEW i \in Interface, process_arp_reply_message(n, i)
      PROVE  arp_table' \in [Node -> SUBSET ArpEntry] /\ UNCHANGED mac_table
  <2>1. Frm(n) \in Frame
    BY <1>2, AcceptFacts, ServeFacts DEF process_arp_reply_message
  <2>2. [ip |-> Frm(n).arp_source_ip, mac |-> Frm(n).arp_source_mac,
         oif_name |-> interface_name[i]] \in ArpEntry
    BY <2>1, PropertyAssumption DEF Frame, ArpEntry
  <2>3. QED BY <1>0, <1>2, <2>2
          DEF process_arp_reply_message, arp_table_add_entry, arp_table_lookup
<1>3. ASSUME NEW n \in Node, NEW i \in Interface,
             l2_switch_frame_flood(n, i) \/ l2_switch_frame_forward(n, i)
      PROVE  mac_table' \in [Node -> SUBSET MacEntry] /\ UNCHANGED arp_table
  <2>1. Frm(n) \in Frame
    BY <1>3, AcceptFacts, ServeFacts DEF l2_switch_frame_flood, l2_switch_frame_forward
  <2>2. [mac |-> Frm(n).src, oif_name |-> interface_name[i]] \in MacEntry
    BY <2>1, PropertyAssumption DEF Frame, MacEntry
  <2>3. l2_switch_mac_learning(n, i) \in SUBSET MacEntry
    BY <1>0, <2>2 DEF l2_switch_mac_learning, mac_table_entry_add
  <2>4. /\ mac_table' = [mac_table EXCEPT ![n] = l2_switch_mac_learning(n, i)]
        /\ UNCHANGED arp_table
    BY <1>3 DEF l2_switch_frame_flood, l2_switch_frame_forward
  <2>5. QED BY <1>0, <2>3, <2>4
<1>4. ASSUME NEW n \in Node,
             RejectFrame(n) \/ \E i \in Interface : process_arp_broadcast_request(n, i)
      PROVE  UNCHANGED tables
  BY <1>4 DEF RejectFrame, process_arp_broadcast_request
<1>5. ASSUME Select \/ send_packet_flood \/ ShellThread \/ UNCHANGED vars PROVE UNCHANGED tables
  BY <1>5 DEF Select, send_packet_flood, ShellThread, send_arp_broadcast_request,
    network_interface_set_l2_node, StoreLayer2Mode, tables, vars
<1>6. QED BY <1>0, <1>1, <1>2, <1>3, <1>4, <1>5 DEF Next, ReceiverThread, Receive

LEMMA TypeStep ==
  ASSUME IInv, [Next]_vars
  PROVE  TypeOK'
<1>0. TypeOK
  BY DEF IInv
<1>1. inbox' \in [Node -> Seq(Datagram)] /\ asked' \subseteq MAC \X IPAddress
  BY QueueStep DEF QueuesGrowTruthful, Queues
<1>2. active' \subseteq Node
  BY <1>0 DEF TypeOK, Next, ReceiverThread, ShellThread, Select, send_packet_flood, Receive,
    RejectFrame, Accept, Recvfrom, process_arp_broadcast_request, process_arp_reply_message,
    l2_switch_frame_flood, l2_switch_frame_forward, send_arp_broadcast_request,
    network_interface_set_l2_node, StoreLayer2Mode, vars
<1>3. /\ configured' \in [Interface -> BOOLEAN] /\ layer_2_mode' \in [Interface -> Mode]
      /\ pending' \in Command \cup {NULL} /\ commands' \in Nat
  <2>1. ASSUME UNCHANGED <<config, pending>>, commands' \in Nat
        PROVE  /\ configured' \in [Interface -> BOOLEAN] /\ layer_2_mode' \in [Interface -> Mode]
               /\ pending' \in Command \cup {NULL} /\ commands' \in Nat
    BY <1>0, <2>1 DEF TypeOK, config
  <2>2. ASSUME NEW c \in Commands, send_arp_broadcast_request(c)
        PROVE  UNCHANGED <<config, pending>> /\ commands' \in Nat
    BY <1>0, <2>2 DEF send_arp_broadcast_request, Type, TypeOK
  <2>3. ASSUME NEW c \in Commands, network_interface_set_l2_node(c)
        PROVE  /\ configured' \in [Interface -> BOOLEAN] /\ layer_2_mode' \in [Interface -> Mode]
               /\ pending' \in Command \cup {NULL} /\ commands' \in Nat
    <3>1. c \in Command /\ c.interface \in Interface /\ c.mode \in Mode
      BY <2>3, EmulatorAssumption DEF network_interface_set_l2_node, Command, Mode
    <3>2. commands' \in Nat
      BY <1>0, <2>3 DEF network_interface_set_l2_node, Type, TypeOK
    <3>3. CASE configured[c.interface]
      BY <1>0, <2>3, <3>1, <3>2, <3>3 DEF network_interface_set_l2_node, TypeOK
    <3>4. CASE ~configured[c.interface]
      BY <1>0, <2>3, <3>1, <3>2, <3>4 DEF network_interface_set_l2_node, TypeOK
    <3>5. QED BY <3>3, <3>4
  <2>4. ASSUME StoreLayer2Mode
        PROVE  /\ configured' \in [Interface -> BOOLEAN] /\ layer_2_mode' \in [Interface -> Mode]
               /\ pending' \in Command \cup {NULL} /\ commands' \in Nat
    <3>1. pending.mode \in Mode
      BY <2>4 DEF StoreLayer2Mode, IInv, PendingOff, Command, Mode
    <3>2. QED BY <1>0, <2>4, <3>1 DEF StoreLayer2Mode, TypeOK
  <2>5. ASSUME ReceiverThread \/ UNCHANGED vars
        PROVE  UNCHANGED <<config, pending>> /\ commands' \in Nat
    BY <1>0, <2>5 DEF TypeOK, ReceiverThread, Select, send_packet_flood, Receive, RejectFrame, Accept, Recvfrom,
      process_arp_broadcast_request, process_arp_reply_message, l2_switch_frame_flood,
      l2_switch_frame_forward, config, shell, vars
  <2>6. QED BY <2>1, <2>2, <2>3, <2>4, <2>5 DEF Next, ShellThread
<1>4. QED BY <1>1, <1>2, <1>3, FloodStep, TableStep DEF TypeOK
-----------------------------------------------------------------------------
(* The frames under way stay truthful: what was asked stays asked.         *)
LEMMA TruthStep ==
  ASSUME IInv, [Next]_vars
  PROVE  (ReadyHasDatagram /\ AskersAreInterfaces /\ FramesTruthful)'
<1>1. QueuesGrowTruthful /\ asked \subseteq asked' /\ AskersAreInterfaces'
  BY QueueStep
<1>2. ReadyHasDatagram'
  BY <1>1 DEF QueuesGrowTruthful, ReadyHasDatagram
<1>3. \A f \in UnderWay : Truthful(f, asked)
  BY DEF IInv, FramesTruthful
<1>4. ASSUME NEW f, Truthful(f, asked) PROVE Truthful(f, asked')
  BY <1>1, <1>4 DEF Truthful
<1>5. \A f \in UnderWay' : f \in UnderWay \/ Truthful(f, asked')
  BY <1>1, FloodStep DEF QueuesGrowTruthful, UnderWay
<1>6. \A f \in UnderWay' : Truthful(f, asked')
  BY <1>3, <1>4, <1>5
<1>7. FramesTruthful'
  BY <1>6 DEF FramesTruthful
<1>8. QED BY <1>1, <1>2, <1>7

(* A reply that an interface in L3 mode takes in is an answer to its own   *)
(* node's request: it is addressed to that interface, and nobody addresses *)
(* a reply to everybody.                                                   *)
LEMMA ReplyIsAnswer ==
  ASSUME IInv, NEW n \in Node, NEW i \in Interface, process_arp_reply_message(n, i)
  PROVE  /\ attached_node[i] = n
         /\ <<mac_address[i], Frm(n).arp_source_ip>> \in asked
         /\ \E j \in Interface : /\ ip_address[j] = Frm(n).arp_source_ip
                                 /\ mac_address[j] = Frm(n).arp_source_mac
<1>1. Accept(n, i) /\ configured[i] /\ Frm(n).operation_code = "ARP_REPLY"
  BY DEF process_arp_reply_message
<1>2. /\ attached_node[i] = n
      /\ Truthful(Frm(n), asked)
      /\ Frm(n).dst \in {mac_address[i], BROADCAST_MAC_ADDRESS}
  BY <1>1, AcceptFacts
<1>3. <<Frm(n).dst, Frm(n).arp_source_ip>> \in asked
  BY <1>1, <1>2 DEF Truthful
<1>4. Frm(n).dst # BROADCAST_MAC_ADDRESS
  BY <1>3 DEF IInv, AskersAreInterfaces
<1>5. QED BY <1>1, <1>2, <1>3, <1>4 DEF Truthful

(* Only a reply changes an ARP table.                                      *)
LEMMA ArpUnchanged ==
  ASSUME [Next]_vars, \A n \in Node, i \in Interface : ~process_arp_reply_message(n, i)
  PROVE  UNCHANGED arp_table
<1>1. CASE Select \/ send_packet_flood \/ ShellThread \/ UNCHANGED vars
  BY <1>1 DEF Select, send_packet_flood, ShellThread, send_arp_broadcast_request,
    network_interface_set_l2_node, StoreLayer2Mode, tables, vars
<1>2. ASSUME NEW n \in Node, Receive(n) PROVE UNCHANGED arp_table
  BY <1>2 DEF Receive, RejectFrame, process_arp_broadcast_request, l2_switch_frame_flood,
    l2_switch_frame_forward, tables
<1>3. QED BY <1>1, <1>2 DEF Next, ReceiverThread

LEMMA ArpStep ==
  ASSUME IInv, [Next]_vars
  PROVE  ArpEntriesAreAnswers'
<1>0. ArpEntriesAreAnswers /\ arp_table \in [Node -> SUBSET ArpEntry] /\ asked \subseteq asked'
  BY QueueStep DEF IInv, TypeOK
<1>1. CASE UNCHANGED arp_table
  BY <1>0, <1>1 DEF ArpEntriesAreAnswers
<1>2. ASSUME NEW n \in Node, NEW i \in Interface, process_arp_reply_message(n, i)
      PROVE  ArpEntriesAreAnswers'
  <2> DEFINE new == [ip |-> Frm(n).arp_source_ip, mac |-> Frm(n).arp_source_mac,
                     oif_name |-> interface_name[i]]
  <2>1. /\ attached_node[i] = n
        /\ <<mac_address[i], new.ip>> \in asked
        /\ \E j \in Interface : ip_address[j] = new.ip /\ mac_address[j] = new.mac
    BY <1>2, ReplyIsAnswer
  <2>2. arp_table' = [arp_table EXCEPT ![n] = arp_table_add_entry(arp_table[n], new)]
    BY <1>2 DEF process_arp_reply_message
  <2>3. new.oif_name = interface_name[i]
    OBVIOUS
  <2> HIDE DEF new
  <2>4. ASSUME NEW m \in Node, NEW e \in arp_table'[m]
        PROVE  e \in arp_table[m] \/ (m = n /\ e = new)
    BY <1>0, <2>2, <2>4 DEF arp_table_add_entry
  <2>5. QED BY <1>0, <2>1, <2>3, <2>4 DEF ArpEntriesAreAnswers
<1>3. QED BY <1>1, <1>2, ArpUnchanged

LEMMA InitStep ==
  ASSUME Init
  PROVE  IInv
<1>1. \A n \in Node : inbox[n] = <<>> /\ Len(inbox[n]) = 0
  BY DEF Init
<1>2. Frames(inbox) = {}
  BY <1>1 DEF Frames
<1>3. TypeOK
  <2>1. inbox \in [Node -> Seq(Datagram)]
    BY DEF Init
  <2>2. layer_2_mode \in [Interface -> Mode]
    BY EmulatorAssumption DEF Init
  <2>3. QED BY <2>1, <2>2 DEF Init, TypeOK
<1>4. AddressedOnly /\ OneLayer /\ PendingOff
  BY EmulatorAssumption DEF Init, AddressedOnly, OneLayer, PendingOff
<1>5. ReadyHasDatagram /\ AskersAreInterfaces
  BY DEF Init, ReadyHasDatagram, AskersAreInterfaces
<1>6. FramesTruthful
  BY <1>2 DEF Init, FramesTruthful, UnderWay
<1>7. ArpEntriesAreAnswers /\ OneEntryPerKey
  BY DEF Init, ArpEntriesAreAnswers, OneEntryPerKey
<1>8. QED BY <1>3, <1>4, <1>5, <1>6, <1>7 DEF IInv

LEMMA InductiveStep ==
  ASSUME IInv, [Next]_vars
  PROVE  IInv'
BY TypeStep, LayerStep, TruthStep, ArpStep, KeyStep DEF IInv

LEMMA Invariance == Spec => []IInv
<1>1. Init => IInv
  BY InitStep
<1>2. IInv /\ [Next]_vars => IInv'
  BY InductiveStep
<1>3. QED BY <1>1, <1>2, PTL DEF Spec
-----------------------------------------------------------------------------
(* The theorems                                                            *)

(* The variables keep their types, whatever is typed and whatever is lost: *)
(* in particular every frame handed to send_packet_out is complete, and a  *)
(* flood is always over ports of its node.                                 *)
THEOREM TypesAlways == Spec => []TypeOK
<1>1. IInv => TypeOK
  BY DEF IInv
<1>2. QED BY <1>1, Invariance, PTL

(* arp_table_lookup and mac_table_lookup never have two entries to choose  *)
(* from, also where strncmp takes different MACs for one.                  *)
THEOREM OneEntryPerKeyAlways == Spec => []OneEntryPerKey
<1>1. IInv => OneEntryPerKey
  BY DEF IInv
<1>2. QED BY <1>1, Invariance, PTL

(* network_interface_set_l2_node never leaves an interface in both layers, *)
(* or in neither.                                                          *)
THEOREM OneLayerAlways == Spec => []OneLayer
<1>1. IInv => OneLayer
  BY DEF IInv
<1>2. QED BY <1>1, Invariance, PTL

(* No ARP table of any network ever holds an entry that was not asked for, *)
(* or that no owner of the address gave, with loops, losses, colliding     *)
(* MACs and mode changes at any moment.                                    *)
THEOREM ArpEntriesAreAnswersAlways == Spec => []ArpEntriesAreAnswers
<1>1. IInv => ArpEntriesAreAnswers
  BY DEF IInv
<1>2. QED BY <1>1, Invariance, PTL

(* A step of the emulator asks, or takes in an answer, or is invisible to  *)
(* address resolution.                                                     *)
LEMMA StepRefines ==
  ASSUME IInv, [Next]_vars
  PROVE  [ARP!ArpNext]_<<arp_table, asked>>
<1>1. ASSUME NEW n \in Node, NEW i \in Interface, process_arp_reply_message(n, i)
      PROVE  ARP!ArpNext
  <2>1. PICK owner \in Interface : /\ ip_address[owner] = Frm(n).arp_source_ip
                                   /\ mac_address[owner] = Frm(n).arp_source_mac
    BY <1>1, ReplyIsAnswer
  <2>2. /\ attached_node[i] = n
        /\ <<mac_address[i], Frm(n).arp_source_ip>> \in asked
    BY <1>1, ReplyIsAnswer
  <2>3. Frm(n).arp_source_ip \in IPAddress /\ UNCHANGED asked
    BY <1>1, AcceptFacts, ServeFacts DEF process_arp_reply_message, Frame, Accept, Recvfrom, shell
  <2>4. arp_table' = [arp_table EXCEPT ![n] =
                        {e \in @ : e.ip # Frm(n).arp_source_ip}
                          \cup {ARP!Entry(i, Frm(n).arp_source_ip, owner)}]
    BY <1>1, <2>1 DEF process_arp_reply_message, arp_table_add_entry, arp_table_lookup, ARP!Entry
  <2>5. ARP!Answer(i, Frm(n).arp_source_ip, owner)
    BY <2>1, <2>2, <2>3, <2>4 DEF ARP!Answer
  <2>6. QED BY <2>3, <2>5 DEF ARP!ArpNext
<1>2. ASSUME NEW c \in Commands, send_arp_broadcast_request(c)
      PROVE  ARP!ArpNext \/ UNCHANGED asked
  <2> DEFINE i == node_get_matching_subnet_interface(c.node, c.ip, configured)
  <2>1. CASE i # NULL /\ asked' = asked \cup {<<mac_address[i], c.ip>>}
    <3>1. i \in Interface /\ c.ip \in IPAddress
      BY <1>2, <2>1, RequestFacts DEF send_arp_broadcast_request
    <3>2. UNCHANGED arp_table
      BY <1>2 DEF send_arp_broadcast_request, tables
    <3>3. ARP!Ask(i, c.ip)
      BY <2>1, <3>2 DEF ARP!Ask
    <3>4. QED BY <3>1, <3>3 DEF ARP!ArpNext
  <2>2. QED BY <1>2, <2>1 DEF send_arp_broadcast_request
<1>3. ASSUME \A c \in Commands : ~send_arp_broadcast_request(c) PROVE UNCHANGED asked
  <2>1. CASE ReceiverThread \/ UNCHANGED vars
    BY <2>1 DEF ReceiverThread, Select, send_packet_flood, Receive, RejectFrame, Accept, Recvfrom,
      process_arp_broadcast_request, process_arp_reply_message, l2_switch_frame_flood,
      l2_switch_frame_forward, shell, vars
  <2>2. CASE ShellThread
    BY <1>3, <2>2 DEF ShellThread, network_interface_set_l2_node, StoreLayer2Mode
  <2>3. QED BY <2>1, <2>2 DEF Next
<1>4. QED BY <1>1, <1>2, <1>3, ArpUnchanged

(* The emulator implements ArpResolution, for every network.               *)
THEOREM ImplementsArpResolutionAlways == Spec => ImplementsArpResolution
<1>1. Init => ARP!ArpInit
  BY DEF Init, ARP!ArpInit
<1>2. IInv /\ [Next]_vars => [ARP!ArpNext]_<<arp_table, asked>>
  BY StepRefines
<1>3. QED BY <1>1, <1>2, Invariance, PTL DEF Spec, ImplementsArpResolution, ARP!ArpSpec
=============================================================================
