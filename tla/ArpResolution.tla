----------------------------- MODULE ArpResolution -----------------------------
(***************************************************************************)
(* What address resolution promises, whatever lies between the stations:   *)
(* an ARP table only ever holds answers, given by an interface that owns   *)
(* the address, to questions its own node has asked.  Switches, floods,    *)
(* loops, lost frames and mode changes may delay or prevent an answer;     *)
(* they may not invent one.  L2Emulator implements this specification.     *)
(***************************************************************************)
EXTENDS NetworkGraph

VARIABLES
  arp_table,  \* per node, a set of entries
  asked       \* <<MAC of the asking interface, ip>> of every ARP request

ArpInit ==
  /\ arp_table = [n \in Node |-> {}]
  /\ asked = {}

Entry(i, ip, owner) ==
  [ip |-> ip, mac |-> mac_address[owner], oif_name |-> interface_name[i]]

Ask(i, ip) ==
  /\ asked' = asked \cup {<<mac_address[i], ip>>}
  /\ UNCHANGED arp_table

(* The entry replaces what the node knew about that address.               *)
Answer(i, ip, owner) ==
  /\ <<mac_address[i], ip>> \in asked
  /\ ip_address[owner] = ip
  /\ arp_table' = [arp_table EXCEPT ![attached_node[i]] =
                     {e \in @ : e.ip # ip} \cup {Entry(i, ip, owner)}]
  /\ UNCHANGED asked

ArpNext == \E i \in Interface, ip \in IPAddress :
             Ask(i, ip) \/ \E owner \in Interface : Answer(i, ip, owner)

ArpSpec == ArpInit /\ [][ArpNext]_<<arp_table, asked>>
=============================================================================
