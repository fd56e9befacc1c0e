----------------------------- MODULE SendPacketOut -----------------------------
(***************************************************************************)
(* send_packet_out of communication.c, one memory access at a time.        *)
(*                                                                         *)
(* The function assembles its datagram in the static array send_buffer and *)
(* hands the array to sendto.  The shell thread calls it for ARP requests, *)
(* the receiver thread for replies, forwarded and flooded frames, and no   *)
(* lock keeps the two apart.                                               *)
(*                                                                         *)
(* The array is seen as three regions: the auxiliary header, the byte at   *)
(* offset NETWORK_INTERFACE_NAME_SIZE, which the terminator of the header  *)
(* and the payload share, and the rest of the payload.  A library call     *)
(* that covers several regions may touch them in any order.                *)
(***************************************************************************)
EXTENDS Naturals, FiniteSets

CONSTANTS
  Thread,     \* callers of send_packet_out
  Interface,  \* interfaces to send out of
  Packet,     \* frames to send
  Zero,       \* bytes set to 0
  None,       \* no call in progress
  MaxCalls    \* bound: calls made in one run

Region == {"header", "first", "rest"}

(* A region holds the bytes of one frame, the name of the interface at the *)
(* other end of some interface's link, written as that interface, or zeros. *)
Bytes == Interface \cup Packet \cup {Zero}

ASSUME SendAssumption ==
  /\ Zero \notin Interface \cup Packet
  /\ None \notin [interface : Interface, packet : Packet]
  /\ MaxCalls \in Nat

VARIABLES
  pc,           \* per thread, the library call it is in
  todo,         \* per thread, the regions that call has not touched yet
  call,         \* per thread, the arguments of send_packet_out
  send_buffer,
  read,         \* per thread, what its sendto has copied so far
  overlapped,   \* history: another thread was in send_packet_out during this call
  calls,        \* number of calls made
  wire          \* history: the datagrams sent, with the call that sent them

vars == <<pc, todo, call, send_buffer, read, overlapped, calls, wire>>

Step == {"memset", "strncpy", "terminate", "memcpy", "sendto"}

Regions(step) ==
  CASE step = "strncpy"   -> {"header"}
    [] step = "terminate" -> {"first"}
    [] step = "memcpy"    -> {"first", "rest"}
    [] OTHER              -> Region

(* Mutant: the header is terminated after the payload is in place.         *)
TerminateLast(step) ==
  CASE step = "memset"  -> "strncpy"
    [] step = "strncpy" -> "memcpy"
    [] step = "memcpy"  -> "terminate"
    [] OTHER            -> "sendto"

Following(step) ==
  CASE step = "memset"    -> "strncpy"
    [] step = "strncpy"   -> "terminate"
    [] step = "terminate" -> "memcpy"
    [] OTHER              -> "sendto"

Stored(t) ==
  CASE pc[t] = "strncpy" -> call[t].interface
    [] pc[t] = "memcpy"  -> call[t].packet
    [] OTHER             -> Zero

Init ==
  /\ pc = [t \in Thread |-> "idle"]
  /\ todo = [t \in Thread |-> {}]
  /\ call = [t \in Thread |-> None]
  /\ send_buffer = [r \in Region |-> Zero]
  /\ read = [t \in Thread |-> [r \in Region |-> Zero]]
  /\ overlapped = [t \in Thread |-> FALSE]
  /\ calls = 0
  /\ wire = {}

Others(t) == {u \in Thread \ {t} : pc[u] # "idle"}

(* Mutant: the arguments are swapped.                                      *)
CallSwapped(t, i, p) ==
  /\ pc[t] = "idle"
  /\ calls < MaxCalls
  /\ calls' = calls + 1
  /\ call' = [call EXCEPT ![t] = [interface |-> p, packet |-> i]]
  /\ pc' = [pc EXCEPT ![t] = "memset"]
  /\ todo' = [todo EXCEPT ![t] = Regions("memset")]
  /\ UNCHANGED <<send_buffer, read, overlapped, wire>>

(* A call that fails for want of a neighbour or a socket returns before it *)
(* touches the buffer; it changes nothing.                                 *)
send_packet_out(t, i, p) ==
  /\ pc[t] = "idle"
  /\ calls < MaxCalls
  /\ calls' = calls + 1
  /\ call' = [call EXCEPT ![t] = [interface |-> i, packet |-> p]]
  /\ pc' = [pc EXCEPT ![t] = "memset"]
  /\ todo' = [todo EXCEPT ![t] = Regions("memset")]
  /\ overlapped' = [u \in Thread |->
       IF u = t THEN Others(t) # {}
       ELSE overlapped[u] \/ pc[u] # "idle"]
  /\ UNCHANGED <<send_buffer, read, wire>>

(* memset, strncpy, the terminator and memcpy store into a region.         *)
Store(t, r) ==
  /\ pc[t] \in Step \ {"sendto"}
  /\ r \in todo[t]
  /\ send_buffer' = [send_buffer EXCEPT ![r] = Stored(t)]
  /\ todo' = [todo EXCEPT ![t] = @ \ {r}]
  /\ UNCHANGED <<pc, call, read, overlapped, calls, wire>>

Advance(t) ==
  /\ pc[t] \in Step \ {"sendto"}
  /\ todo[t] = {}
  /\ pc' = [pc EXCEPT ![t] = Following(@)]
  /\ todo' = [todo EXCEPT ![t] = Regions(Following(pc[t]))]
  /\ UNCHANGED <<call, send_buffer, read, overlapped, calls, wire>>

(* sendto copies the buffer into the kernel ...                            *)
Load(t, r) ==
  /\ pc[t] = "sendto"
  /\ r \in todo[t]
  /\ read' = [read EXCEPT ![t][r] = send_buffer[r]]
  /\ todo' = [todo EXCEPT ![t] = @ \ {r}]
  /\ UNCHANGED <<pc, call, send_buffer, overlapped, calls, wire>>

(* ... and the datagram goes to the neighbour's port; the call returns.    *)
Return(t) ==
  /\ pc[t] = "sendto"
  /\ todo[t] = {}
  /\ wire' = wire \cup {[call |-> call[t], data |-> read[t], overlapped |-> overlapped[t]]}
  /\ pc' = [pc EXCEPT ![t] = "idle"]
  /\ call' = [call EXCEPT ![t] = None]
  /\ UNCHANGED <<todo, send_buffer, read, overlapped, calls>>

Next ==
  \E t \in Thread :
    \/ \E i \in Interface, p \in Packet : send_packet_out(t, i, p)
    \/ \E r \in Region : Store(t, r) \/ Load(t, r)
    \/ Advance(t)
    \/ Return(t)

Spec == Init /\ [][Next]_vars
-----------------------------------------------------------------------------
Call == [interface : Interface, packet : Packet]

(* The variables hold what the C types allow.                              *)
TypeOK ==
  /\ pc \in [Thread -> Step \cup {"idle"}]
  /\ todo \in [Thread -> SUBSET Region]
  /\ call \in [Thread -> Call \cup {None}]
  /\ send_buffer \in [Region -> Bytes]
  /\ read \in [Thread -> [Region -> Bytes]]
  /\ overlapped \in [Thread -> BOOLEAN]
  /\ calls \in Nat
  /\ wire \subseteq [call : Call, data : [Region -> Bytes], overlapped : BOOLEAN]

(* The datagram names the far end of the interface it left through and     *)
(* carries the packet of the same call.                                    *)
Whole(d) ==
  d.data = [r \in Region |-> IF r = "header" THEN d.call.interface ELSE d.call.packet]

(***************************************************************************)
(* A call that no other call overlapped sends its own frame under its own  *)
(* header, whatever earlier calls left in send_buffer: the terminator of   *)
(* the header does not survive in the payload and nothing stale is sent.   *)
(***************************************************************************)
WholeUnlessOverlapped == \A d \in wire : d.overlapped \/ Whole(d)

(***************************************************************************)
(* What the comments of send_packet_out say: the packet gets the header of *)
(* the interface it is sent to and its own data.                           *)
(***************************************************************************)
DatagramsWhole == \A d \in wire : Whole(d)
=============================================================================
