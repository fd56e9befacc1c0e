------------------------------ MODULE L2Emulator ------------------------------
(***************************************************************************)
(* The running emulator: the receiver thread of communication.c, the data  *)
(* link layer and the L2 switch it calls (dataLinkLayer.c, l2switch.c),    *)
(* and the shell commands that send or reconfigure (cli_module.c).         *)
(*                                                                         *)
(* Two threads run.  The shell thread executes one command at a time.  The *)
(* receiver thread selects on the UDP sockets of all the nodes and serves  *)
(* the ready ones in list order, one datagram each.  A step of this module *)
(* ends where a thread touches state the other one uses: a call of         *)
(* send_packet_out, or a store to the mode of an interface.                *)
(*                                                                         *)
(* A call of send_packet_out is one step here.  That is exact as long as   *)
(* the two threads are not inside it together; module SendPacketOut models *)
(* the call step by step and shows what happens when they are.             *)
(***************************************************************************)
EXTENDS NetworkGraph, FiniteSets

CONSTANTS
  ACCESS, TRUNK, LAYER_2_MODE_UNKNOWN,
  InitialMode,   \* [Interface -> mode], as the topology builder leaves it
  SocketBuffer,  \* datagrams a UDP socket holds before the kernel drops more
  Unbound,       \* nodes whose bind() failed at start-up
  SendMayFail,   \* whether socket() or sendto() in send_packet_out may fail
  Commands,      \* the shell commands offered, a subset of Command
  MaxCommands    \* bound: shell commands typed in one run

Mode == {ACCESS, TRUNK, LAYER_2_MODE_UNKNOWN}

(* run node <n> resolve <ip>   and   config node .. interface <i> l2mode <m> *)
Command == [type : {"resolve"}, node : Node, ip : IPAddress]
             \cup [type : {"l2mode"}, interface : Interface, mode : {ACCESS, TRUNK}]

ASSUME EmulatorAssumption ==
  /\ ACCESS # TRUNK /\ LAYER_2_MODE_UNKNOWN \notin {ACCESS, TRUNK}
  /\ InitialMode \in [Interface -> Mode]
  /\ \A i \in Interface : ip_address[i] # NULL => InitialMode[i] = LAYER_2_MODE_UNKNOWN
  /\ SocketBuffer \in Nat \ {0}
  /\ Unbound \subseteq Node
  /\ SendMayFail \in BOOLEAN
  /\ Commands \subseteq Command
  /\ NULL \notin Command
  /\ MaxCommands \in Nat

(***************************************************************************)
(* An Ethernet frame that carries an ARP message, the only kind this       *)
(* program sends.  Constant header fields are left out, and so is the ARP  *)
(* target MAC, which nothing reads.                                        *)
(***************************************************************************)
Frame == [dst : MAC, src : MAC, operation_code : {"ARP_BROADCAST_REQUEST", "ARP_REPLY"},
          arp_source_mac : MAC, arp_source_ip : IPAddress, arp_destignation_ip : IPAddress]

(* What travels over UDP: the auxiliary header and the frame.              *)
Datagram == [interface_name : Name, frame : Frame]

ArpEntry == [ip : IPAddress, mac : MAC, oif_name : Name]
MacEntry == [mac : MAC, oif_name : Name]
FloodLoop == [node : Node, exempted_interface : Interface, frame : Frame, i : Nat \ {0}]

VARIABLES
  inbox,       \* per node, the datagrams queued in its UDP socket
  arp_table,   \* per node, the entries of NODE_ARP_TABLE
  mac_table,   \* per node, the entries of NODE_MAC_TABLE
  configured,  \* is_ip_address_configured of every interface: it is in L3 mode
  layer_2_mode,
  active,      \* receiver thread: nodes select() reported and not yet served
  flood,       \* receiver thread: the loop of send_packet_flood it is in, or NULL
  pending,     \* shell thread: an l2mode command between its two stores, or NULL
  commands,    \* number of shell commands typed
  asked        \* history: <<MAC of the asking interface, ip>> of every ARP request

vars == <<inbox, arp_table, mac_table, configured, layer_2_mode,
          active, flood, pending, commands, asked>>
tables == <<arp_table, mac_table>>
config == <<configured, layer_2_mode>>
shell == <<pending, commands, asked>>

Init ==
  /\ inbox = [n \in Node |-> <<>>]
  /\ arp_table = [n \in Node |-> {}]
  /\ mac_table = [n \in Node |-> {}]
  /\ configured = [i \in Interface |-> ip_address[i] # NULL]
  /\ layer_2_mode = InitialMode
  /\ active = {}
  /\ flood = NULL
  /\ pending = NULL
  /\ commands = 0
  /\ asked = {}
-----------------------------------------------------------------------------
(* send_packet_out: the socket queues after frame f left through interface *)
(* i.  A full socket drops it, and so does a failed socket() or sendto().  *)
(* A node whose socket is not bound keeps descriptor 0, which the receiver *)
(* thread never selects on, and nobody listens on its port; it can send.   *)

Enqueue(q, d) == IF Len(q) < SocketBuffer THEN Append(q, d) ELSE q

Listening == Node \ Unbound

Sent(q, f, i) ==
  IF get_neighbour_node(i) \notin Listening THEN q
  ELSE [q EXCEPT ![get_neighbour_node(i)] =
          Enqueue(@, [interface_name |-> interface_name[other_interface[i]], frame |-> f])]

send_packet_out(q, f, i) == {Sent(q, f, i)} \cup (IF SendMayFail THEN {q} ELSE {})

(* The tables.  Entry lists are sets here: at most one entry has a key, so *)
(* the order of the list is not observable.                                *)

mac_table_lookup(table, mac) == {e \in table : SameMacString(e.mac, mac)}

(* Mutant: the entry of another port is not deleted.                       *)
AddKeepsOldPort(table, new) == table \cup {new}

(* An entry with the same key and port stops the call: even the MAC bytes  *)
(* that strncmp does not see stay as they were.                            *)
mac_table_entry_add(table, new) ==
  LET old == mac_table_lookup(table, new.mac) IN
  IF \E e \in old : e.oif_name = new.oif_name THEN table
  ELSE (table \ old) \cup {new}

arp_table_lookup(table, ip) == {e \in table : e.ip = ip}

(* The whole-struct memcmp also compares the list pointers, so it never    *)
(* finds two entries equal: the old entry always goes.                     *)
arp_table_add_entry(table, new) == (table \ arp_table_lookup(table, new.ip)) \cup {new}
-----------------------------------------------------------------------------
(* The shell thread                                                        *)

ArpRequest(i, ip) ==
  [dst |-> BROADCAST_MAC_ADDRESS, src |-> mac_address[i],
   operation_code |-> "ARP_BROADCAST_REQUEST",
   arp_source_mac |-> mac_address[i], arp_source_ip |-> ip_address[i],
   arp_destignation_ip |-> ip]

Type(c) ==
  /\ pending = NULL
  /\ c \in Commands
  /\ commands < MaxCommands
  /\ commands' = commands + 1

(* arp_handler calls send_arp_broadcast_request without an interface.      *)
send_arp_broadcast_request(c) ==
  LET oif == node_get_matching_subnet_interface(c.node, c.ip, configured) IN
  /\ c.type = "resolve"
  /\ Type(c)
  /\ IF oif = NULL \/ (oif # NULL /\ ip_address[oif] = c.ip)
     THEN UNCHANGED <<inbox, asked>>
     ELSE /\ inbox' \in send_packet_out(inbox, ArpRequest(oif, c.ip), oif)
          /\ asked' = asked \cup {<<mac_address[oif], c.ip>>}
  /\ UNCHANGED <<tables, config, active, flood, pending>>

(* Mutant: the IP of the interface stays on.                               *)
SetL2NodeKeepsIp(c) ==
  /\ c.type = "l2mode"
  /\ Type(c)
  /\ pending' = c
  /\ UNCHANGED <<inbox, tables, config, active, flood, asked>>

(* The IP of an L3 interface is switched off before its mode is stored, so *)
(* the receiver thread can find the interface in neither layer.            *)
network_interface_set_l2_node(c) ==
  /\ c.type = "l2mode"
  /\ Type(c)
  /\ IF configured[c.interface]
     THEN /\ configured' = [configured EXCEPT ![c.interface] = FALSE]
          /\ pending' = c
          /\ UNCHANGED layer_2_mode
     ELSE /\ layer_2_mode' = [layer_2_mode EXCEPT ![c.interface] = c.mode]
          /\ UNCHANGED <<configured, pending>>
  /\ UNCHANGED <<inbox, tables, active, flood, asked>>

StoreLayer2Mode ==
  /\ pending # NULL
  /\ layer_2_mode' = [layer_2_mode EXCEPT ![pending.interface] = pending.mode]
  /\ pending' = NULL
  /\ UNCHANGED <<inbox, tables, configured, active, flood, commands, asked>>
-----------------------------------------------------------------------------
(* The receiver thread: select() and the scan of the ready sockets         *)

Select ==
  /\ flood = NULL
  /\ active = {}
  /\ \E n \in Node : inbox[n] # <<>>
  /\ active' = {n \in Node : inbox[n] # <<>>}
  /\ UNCHANGED <<inbox, tables, config, flood, shell>>

(* The scan reaches node n and reads one datagram from its socket.         *)
Recvfrom(n) ==
  /\ flood = NULL
  /\ n \in active
  /\ \E k \in 1..Len(node_list) :
        node_list[k] = n /\ \A j \in 1..(k - 1) : node_list[j] \notin active
  /\ active' = active \ {n}
  /\ UNCHANGED <<config, shell>>

Frm(n) == Head(inbox[n]).frame
Rest(n) == [inbox EXCEPT ![n] = Tail(@)]

(* Mutant: a station takes in what is for others.                          *)
QualifyAnyMac(i, f) == configured[i] \/ layer_2_mode[i] \in {ACCESS, TRUNK}

layer_2_frame_recieving_qualify_on_interface(i, f) ==
  \/ ~configured[i] /\ layer_2_mode[i] \in {ACCESS, TRUNK}
  \/ configured[i] /\ f.dst \in {mac_address[i], BROADCAST_MAC_ADDRESS}

(* _packet_recieve and the first test of datalink_layer_frame_recieve: the  *)
(* datagram is for interface i, which lets its frame in.                   *)
Accepted(n, i) ==
  /\ i = get_network_node_interface_by_name(n, Head(inbox[n]).interface_name)
  /\ layer_2_frame_recieving_qualify_on_interface(i, Frm(n))

Accept(n, i) == Recvfrom(n) /\ Accepted(n, i)

(* No interface has the name, or the one that has it rejects the frame.    *)
RejectFrame(n) ==
  /\ Recvfrom(n)
  /\ \A i \in Interface : ~Accepted(n, i)
  /\ inbox' = Rest(n)
  /\ UNCHANGED <<tables, flood>>

(* Mutants: the reply lacks the address it is about, names the asker's MAC *)
(* as the answer, or goes out with the operation code of a request.        *)
ReplyWithoutIp(i, request) ==
  [dst |-> request.arp_source_mac, src |-> mac_address[i],
   operation_code |-> "ARP_REPLY",
   arp_source_mac |-> mac_address[i], arp_source_ip |-> NULL,
   arp_destignation_ip |-> request.arp_source_ip]

ReplyWithAskersMac(i, request) ==
  [dst |-> request.arp_source_mac, src |-> mac_address[i],
   operation_code |-> "ARP_REPLY",
   arp_source_mac |-> request.arp_source_mac, arp_source_ip |-> ip_address[i],
   arp_destignation_ip |-> request.arp_source_ip]

ReplyAsRequest(i, request) ==
  [dst |-> request.arp_source_mac, src |-> mac_address[i],
   operation_code |-> "ARP_BROADCAST_REQUEST",
   arp_source_mac |-> mac_address[i], arp_source_ip |-> ip_address[i],
   arp_destignation_ip |-> request.arp_source_ip]

ArpReply(i, request) ==
  [dst |-> request.arp_source_mac, src |-> mac_address[i],
   operation_code |-> "ARP_REPLY",
   arp_source_mac |-> mac_address[i], arp_source_ip |-> ip_address[i],
   arp_destignation_ip |-> request.arp_source_ip]

(* Mutant: the station answers for every address.                          *)
AnswerEveryRequest(n, i) ==
  /\ Accept(n, i)
  /\ configured[i]
  /\ Frm(n).operation_code = "ARP_BROADCAST_REQUEST"
  /\ inbox' \in send_packet_out(Rest(n), ArpReply(i, Frm(n)), i)
  /\ UNCHANGED <<tables, flood>>

process_arp_broadcast_request(n, i) ==
  /\ Accept(n, i)
  /\ configured[i]
  /\ Frm(n).operation_code = "ARP_BROADCAST_REQUEST"
  /\ IF ip_address[i] = Frm(n).arp_destignation_ip
     THEN inbox' \in send_packet_out(Rest(n), ArpReply(i, Frm(n)), i)
     ELSE inbox' = Rest(n)
  /\ UNCHANGED <<tables, flood>>

process_arp_reply_message(n, i) ==
  /\ Accept(n, i)
  /\ configured[i]
  /\ Frm(n).operation_code = "ARP_REPLY"
  /\ arp_table' = [arp_table EXCEPT ![n] =
       arp_table_add_entry(@, [ip |-> Frm(n).arp_source_ip,
                               mac |-> Frm(n).arp_source_mac,
                               oif_name |-> interface_name[i]])]
  /\ inbox' = Rest(n)
  /\ UNCHANGED <<mac_table, flood>>

(* Mutants: the switch learns the destination, or nothing.                 *)
LearnDestination(n, i) ==
  mac_table_entry_add(mac_table[n], [mac |-> Frm(n).dst, oif_name |-> interface_name[i]])

LearnNothing(n, i) == mac_table[n]

(* l2_switch_mac_learning, for every frame a switch port receives.         *)
l2_switch_mac_learning(n, i) ==
  mac_table_entry_add(mac_table[n], [mac |-> Frm(n).src, oif_name |-> interface_name[i]])

(* Mutant: the loop over the ports starts at the second one.               *)
FloodSkipsFirstPort(n, i) ==
  LET table == l2_switch_mac_learning(n, i) IN
  /\ Accept(n, i)
  /\ ~configured[i]
  /\ \/ Frm(n).dst = BROADCAST_MAC_ADDRESS
     \/ mac_table_lookup(table, Frm(n).dst) = {}
  /\ mac_table' = [mac_table EXCEPT ![n] = table]
  /\ inbox' = Rest(n)
  /\ flood' = [node |-> n, exempted_interface |-> i, frame |-> Frm(n), i |-> 2]
  /\ UNCHANGED arp_table

(* l2_switch_frame_forward: the destination is unknown or everybody.       *)
l2_switch_frame_flood(n, i) ==
  LET table == l2_switch_mac_learning(n, i) IN
  /\ Accept(n, i)
  /\ ~configured[i]
  /\ \/ Frm(n).dst = BROADCAST_MAC_ADDRESS
     \/ mac_table_lookup(table, Frm(n).dst) = {}
  /\ mac_table' = [mac_table EXCEPT ![n] = table]
  /\ inbox' = Rest(n)
  /\ flood' = [node |-> n, exempted_interface |-> i, frame |-> Frm(n), i |-> 1]
  /\ UNCHANGED arp_table

(* l2_switch_frame_forward: the destination was learned on a port, which   *)
(* may be the very port the frame came in on.                              *)
l2_switch_frame_forward(n, i) ==
  LET table == l2_switch_mac_learning(n, i) IN
  /\ Accept(n, i)
  /\ ~configured[i]
  /\ Frm(n).dst # BROADCAST_MAC_ADDRESS
  /\ \E e \in mac_table_lookup(table, Frm(n).dst) :
       LET oif == get_network_node_interface_by_name(n, e.oif_name) IN
       IF oif = NULL THEN inbox' = Rest(n)
       ELSE inbox' \in send_packet_out(Rest(n), Frm(n), oif)
  /\ mac_table' = [mac_table EXCEPT ![n] = table]
  /\ UNCHANGED <<arp_table, flood>>

(* Mutant: no port is exempted.                                            *)
FloodEveryPort ==
  /\ flood # NULL
  /\ IF flood.i \notin Slot(flood.node)
     THEN flood' = NULL /\ UNCHANGED inbox
     ELSE /\ flood' = [flood EXCEPT !.i = @ + 1]
          /\ inbox' \in send_packet_out(inbox, flood.frame, interface[flood.node][flood.i])
  /\ UNCHANGED <<tables, config, active, shell>>

(* One turn of the loop of send_packet_flood.  The loop ends at the first  *)
(* free slot; it sends through every port but one, whatever their mode.    *)
send_packet_flood ==
  /\ flood # NULL
  /\ IF flood.i \notin Slot(flood.node)
     THEN flood' = NULL /\ UNCHANGED inbox
     ELSE LET i == interface[flood.node][flood.i] IN
          /\ flood' = [flood EXCEPT !.i = @ + 1]
          /\ IF i = flood.exempted_interface THEN UNCHANGED inbox
             ELSE inbox' \in send_packet_out(inbox, flood.frame, i)
  /\ UNCHANGED <<tables, config, active, shell>>
-----------------------------------------------------------------------------
Receive(n) ==
  \/ RejectFrame(n)
  \/ \E i \in Interface :
       \/ process_arp_broadcast_request(n, i)
       \/ process_arp_reply_message(n, i)
       \/ l2_switch_frame_flood(n, i)
       \/ l2_switch_frame_forward(n, i)

ReceiverThread == Select \/ send_packet_flood \/ \E n \in Node : Receive(n)

ShellThread ==
  \/ \E c \in Commands : send_arp_broadcast_request(c) \/ network_interface_set_l2_node(c)
  \/ StoreLayer2Mode

Next == ReceiverThread \/ ShellThread

Spec == Init /\ [][Next]_vars

(***************************************************************************)
(* The receiver thread loops for ever and the kernel schedules it; a shell *)
(* command once begun runs to its end.  Nobody has to type a command.      *)
(***************************************************************************)
FairSpec == Spec /\ WF_vars(ReceiverThread) /\ WF_vars(StoreLayer2Mode)
-----------------------------------------------------------------------------
(* Properties                                                              *)

(* The variables hold what the C types allow.                              *)
TypeOK ==
  /\ inbox \in [Node -> Seq(Datagram)]
  /\ arp_table \in [Node -> SUBSET ArpEntry]
  /\ mac_table \in [Node -> SUBSET MacEntry]
  /\ configured \in [Interface -> BOOLEAN]
  /\ layer_2_mode \in [Interface -> Mode]
  /\ active \subseteq Node
  /\ flood \in FloodLoop \cup {NULL}
  /\ pending \in Command \cup {NULL}
  /\ commands \in Nat
  /\ asked \subseteq MAC \X IPAddress

(***************************************************************************)
(* A look-up finds at most one entry: arp_table_add_entry and              *)
(* mac_table_entry_add remove what a new entry supersedes, whatever order  *)
(* frames arrive in and however MACs collide under strncmp.                *)
(***************************************************************************)
OneEntryPerKey ==
  \A n \in Node :
    /\ \A e, f \in arp_table[n] : e.ip = f.ip => e = f
    /\ \A e, f \in mac_table[n] : SameMacString(e.mac, f.mac) => e = f

(***************************************************************************)
(* Every ARP entry is an answer its node asked for through that interface, *)
(* and names a MAC that owns the address.  process_arp_reply_message       *)
(* checks neither; it follows from who sends replies, to whom, and from    *)
(* what the switches do to them.                                           *)
(***************************************************************************)
ArpEntriesAreAnswers ==
  \A n \in Node : \A e \in arp_table[n] :
    /\ \E i \in Interface :
         /\ attached_node[i] = n
         /\ interface_name[i] = e.oif_name
         /\ <<mac_address[i], e.ip>> \in asked
    /\ \E j \in Interface : ip_address[j] = e.ip /\ mac_address[j] = e.mac

(* The emulator implements address resolution.                             *)
ARP == INSTANCE ArpResolution
ImplementsArpResolution == ARP!ArpSpec

(***************************************************************************)
(* An interface with an address is in L3 mode or, once reconfigured, in an *)
(* L2 mode: never in both, and in neither only between the two stores of   *)
(* network_interface_set_l2_node.                                          *)
(***************************************************************************)
OneLayer ==
  \A i \in Interface :
    /\ configured[i] => layer_2_mode[i] = LAYER_2_MODE_UNKNOWN
    /\ ip_address[i] # NULL /\ ~configured[i] /\ layer_2_mode[i] = LAYER_2_MODE_UNKNOWN
         => pending # NULL /\ pending.interface = i

(* The nodes reached through interface i without coming back over its      *)
(* link: the least set that contains the neighbour and that no other       *)
(* interface leads out of.                                                 *)
NoWayOut(nodes, i) ==
  \A x \in Interface \ {other_interface[i]} :
    attached_node[x] \in nodes => get_neighbour_node(x) \in nodes

Beyond(i) ==
  {n \in Node : \A nodes \in SUBSET Node :
     get_neighbour_node(i) \in nodes /\ NoWayOut(nodes, i) => n \in nodes}

FarSide == [i \in Interface |-> Beyond(i)]

(* What the properties below depend on: no way out of an interface leads   *)
(* back to its own node, and strncmp tells the MACs of any two apart.      *)
LoopFree == \A i \in Interface : attached_node[i] \notin FarSide[i]
MacsDistinct ==
  \A i, j \in Interface : SameMacString(mac_address[i], mac_address[j]) => i = j

(***************************************************************************)
(* In a network without loops a switch knows every MAC at the port that    *)
(* leads to its owner: no frame ever arrives from the wrong side, although *)
(* forwarding may use the port a frame came in on and floods use every     *)
(* other port, L3 ports included.                                          *)
(***************************************************************************)
MacEntriesPointHome ==
  \A n \in Node : \A e \in mac_table[n] :
    \E i, owner \in Interface :
      /\ attached_node[i] = n
      /\ interface_name[i] = e.oif_name
      /\ mac_address[owner] = e.mac
      /\ attached_node[owner] \in FarSide[i]

(***************************************************************************)
(* A reply retraces the way the request taught the switches: none of them  *)
(* has to flood it.                                                        *)
(***************************************************************************)
ReplyNeverFlooded == flood # NULL => flood.frame.operation_code # "ARP_REPLY"

(***************************************************************************)
(* A station that does not move keeps its port: an entry of a switch table *)
(* is never replaced by one for another port.                              *)
(***************************************************************************)
NoThrashing == [][\A n \in Node : mac_table[n] \subseteq mac_table'[n]]_vars

Quiet == flood = NULL /\ \A n \in Node : inbox[n] = <<>>

(***************************************************************************)
(* In a network without loops every frame is consumed in the end: no       *)
(* broadcast circulates for ever.                                          *)
(***************************************************************************)
NetworkDrains == []<>Quiet

(***************************************************************************)
(* Without losses, every request for an address that somebody has ends up  *)
(* as an entry in the ARP table of the node that asked, if the sockets of  *)
(* both and of the switches between them are bound; that other nodes are   *)
(* deaf changes nothing for them.                                          *)
(***************************************************************************)
Answered(i, owner) ==
  \E e \in arp_table[attached_node[i]] :
    /\ e.ip = ip_address[owner]
    /\ e.mac = mac_address[owner]
    /\ e.oif_name = interface_name[i]

ResolutionCompletes ==
  []<>(\A i, owner \in {j \in Interface : attached_node[j] \in Listening} :
         <<mac_address[i], ip_address[owner]>> \in asked => Answered(i, owner))
=============================================================================
