-------------------------- MODULE SendPacketOutProofs --------------------------
(***************************************************************************)
(* A call of send_packet_out that no other call overlaps sends exactly its *)
(* own datagram, for any number of threads, interfaces and packets.        *)
(***************************************************************************)
EXTENDS SendPacketOut, TLAPS

(* What send_buffer must hold when a call c hands it to sendto.            *)
Datagram(c) == [r \in Region |-> IF r = "header" THEN c.interface ELSE c.packet]

Busy(t) == pc[t] # "idle"

(* Two threads inside at once both know it.                                *)
OverlapNoticed ==
  \A t, u \in Thread : t # u /\ Busy(t) /\ Busy(u) => overlapped[t]

(* A library call only has regions of its own left to touch.               *)
TodoInReach ==
  \A t \in Thread : Busy(t) => call[t] \in Call /\ todo[t] \subseteq Regions(pc[t])

(* How far the buffer has got in a call that runs alone: its header is in  *)
(* place after strncpy, its payload after memcpy, and what sendto has      *)
(* copied is what it was given.                                            *)
Assembled(t) ==
  /\ pc[t] = "strncpy" /\ "header" \notin todo[t]
       => send_buffer["header"] = call[t].interface
  /\ pc[t] \in {"terminate", "memcpy", "sendto"}
       => send_buffer["header"] = call[t].interface
  /\ pc[t] = "memcpy" => \A r \in {"first", "rest"} \ todo[t] : send_buffer[r] = call[t].packet
  /\ pc[t] = "sendto" =>
       /\ \A r \in {"first", "rest"} : send_buffer[r] = call[t].packet
       /\ \A r \in Region \ todo[t] : read[t][r] = Datagram(call[t])[r]

AloneAssembles == \A t \in Thread : Busy(t) /\ ~overlapped[t] => Assembled(t)

IInv == TypeOK /\ OverlapNoticed /\ TodoInReach /\ AloneAssembles /\ WholeUnlessOverlapped
-----------------------------------------------------------------------------
(* Types are kept by every step of the call.                               *)
LEMMA TypeStep == ASSUME TypeOK, TodoInReach, [Next]_vars PROVE TypeOK'
<1> USE SendAssumption DEF TypeOK
<1>1. ASSUME NEW t \in Thread, NEW i \in Interface, NEW p \in Packet, send_packet_out(t, i, p)
      PROVE  TypeOK'
  <2>1. [interface |-> i, packet |-> p] \in Call
    BY DEF Call
  <2>2. overlapped' \in [Thread -> BOOLEAN]
    BY <1>1 DEF send_packet_out
  <2>3. QED BY <1>1, <2>1, <2>2 DEF send_packet_out, Step, Regions, Region
<1>2. ASSUME NEW t \in Thread, NEW r \in Region, Store(t, r) PROVE TypeOK'
  <2>1. call[t] \in Call /\ Stored(t) \in Bytes
    BY <1>2 DEF Store, TodoInReach, Busy, Stored, Bytes, Call, Step
  <2>2. QED BY <1>2, <2>1 DEF Store
<1>3. ASSUME NEW t \in Thread, Advance(t) PROVE TypeOK'
  BY <1>3 DEF Advance, Following, Regions, Step, Region
<1>4. ASSUME NEW t \in Thread, NEW r \in Region, Load(t, r) PROVE TypeOK'
  BY <1>4 DEF Load
<1>5. ASSUME NEW t \in Thread, Return(t) PROVE TypeOK'
  <2>1. call[t] \in Call
    BY <1>5 DEF Return, TodoInReach, Busy
  <2>2. QED BY <1>5, <2>1 DEF Return
<1>6. CASE UNCHANGED vars
  BY <1>6 DEF vars
<1>7. QED BY <1>1, <1>2, <1>3, <1>4, <1>5, <1>6 DEF Next

(* Each step of a call leaves the buffer as far as it should be.           *)
LEMMA SendStep == ASSUME IInv, [Next]_vars PROVE IInv'
<1>0. TypeOK'
  BY TypeStep DEF IInv
<1> USE DEF Busy, IInv, TypeOK, OverlapNoticed, TodoInReach
<1> SUFFICES ASSUME TRUE
    PROVE (OverlapNoticed /\ TodoInReach /\ AloneAssembles /\ WholeUnlessOverlapped)'
  BY <1>0 DEF IInv
<1>1. ASSUME NEW t \in Thread, NEW i \in Interface, NEW p \in Packet, send_packet_out(t, i, p)
      PROVE  (OverlapNoticed /\ TodoInReach /\ AloneAssembles /\ WholeUnlessOverlapped)'
  <2>1. OverlapNoticed'
    BY <1>1 DEF send_packet_out, Others
  <2>2. TodoInReach'
    BY <1>1 DEF send_packet_out, Call
  <2>3. AloneAssembles'
    BY <1>1 DEF send_packet_out, AloneAssembles, Assembled
  <2>4. WholeUnlessOverlapped'
    BY <1>1 DEF send_packet_out, WholeUnlessOverlapped
  <2>5. QED BY <2>1, <2>2, <2>3, <2>4
<1>2. ASSUME NEW t \in Thread, NEW r \in Region, Store(t, r)
      PROVE  (OverlapNoticed /\ TodoInReach /\ AloneAssembles /\ WholeUnlessOverlapped)'
  <2>1. OverlapNoticed'
    BY <1>2 DEF Store
  <2>2. TodoInReach'
    BY <1>2 DEF Store
  <2>3. AloneAssembles'
    <3> SUFFICES ASSUME NEW u \in Thread, Busy(u)', ~overlapped'[u] PROVE Assembled(u)'
      BY DEF AloneAssembles
    <3>1. u = t
      BY <1>2 DEF Store, Step
    <3>2. Assembled(t)
      BY <1>2, <3>1 DEF Store, AloneAssembles
    <3>3. r \in Regions(pc[t])
      BY <1>2 DEF Store, Step
    <3>4. \A x \in Region : send_buffer'[x] = IF x = r THEN Stored(t) ELSE send_buffer[x]
      BY <1>2 DEF Store
    <3>5. UNCHANGED <<pc, call, read>> /\ todo'[t] = todo[t] \ {r}
      BY <1>2 DEF Store
    <3>6. CASE pc[t] = "memset"
      BY <3>1, <3>5, <3>6 DEF Assembled
    <3>7. CASE pc[t] = "strncpy"
      BY <3>1, <3>3, <3>4, <3>5, <3>7 DEF Assembled, Regions, Region, Stored
    <3>8. CASE pc[t] = "terminate"
      <4>1. r = "first"
        BY <3>3, <3>8 DEF Regions
      <4>2. QED BY <3>1, <3>2, <3>4, <3>5, <3>8, <4>1 DEF Assembled, Region
    <3>9. CASE pc[t] = "memcpy"
      <4>1. r \in {"first", "rest"} /\ Stored(t) = call[t].packet
        BY <3>3, <3>9 DEF Regions, Stored
      <4>2. QED BY <3>1, <3>2, <3>4, <3>5, <3>9, <4>1 DEF Assembled, Region
    <3>10. QED BY <1>2, <3>6, <3>7, <3>8, <3>9 DEF Store, Step
  <2>4. WholeUnlessOverlapped'
    BY <1>2 DEF Store, WholeUnlessOverlapped
  <2>5. QED BY <2>1, <2>2, <2>3, <2>4
<1>3. ASSUME NEW t \in Thread, Advance(t)
      PROVE  (OverlapNoticed /\ TodoInReach /\ AloneAssembles /\ WholeUnlessOverlapped)'
  <2>0. pc'[t] = Following(pc[t]) /\ pc'[t] # "idle"
    BY <1>3 DEF Advance, Following, Step
  <2>1. OverlapNoticed'
    BY <1>3, <2>0 DEF Advance, Step
  <2>2. TodoInReach'
    BY <1>3, <2>0 DEF Advance, Step
  <2>3. AloneAssembles'
    <3> SUFFICES ASSUME NEW u \in Thread, Busy(u)', ~overlapped'[u] PROVE Assembled(u)'
      BY DEF AloneAssembles
    <3>1. u = t
      BY <1>3, <2>0 DEF Advance, Step
    <3>2. Assembled(t)
      BY <1>3, <3>1 DEF Advance, AloneAssembles, Step
    <3>3. QED BY <1>3, <2>0, <3>1, <3>2 DEF Advance, Assembled, Following, Regions, Region, Step
  <2>4. WholeUnlessOverlapped'
    BY <1>3 DEF Advance, WholeUnlessOverlapped
  <2>5. QED BY <2>1, <2>2, <2>3, <2>4
<1>4. ASSUME NEW t \in Thread, NEW r \in Region, Load(t, r)
      PROVE  (OverlapNoticed /\ TodoInReach /\ AloneAssembles /\ WholeUnlessOverlapped)'
  <2>1. OverlapNoticed'
    BY <1>4 DEF Load
  <2>2. TodoInReach'
    BY <1>4 DEF Load
  <2>3. AloneAssembles'
    <3> SUFFICES ASSUME NEW u \in Thread, Busy(u)', ~overlapped'[u] PROVE Assembled(u)'
      BY DEF AloneAssembles
    <3>1. u = t
      BY <1>4 DEF Load
    <3>2. Assembled(t)
      BY <1>4, <3>1 DEF Load, AloneAssembles
    <3>3. send_buffer[r] = Datagram(call[t])[r]
      BY <1>4, <3>2 DEF Load, Assembled, Datagram, Region
    <3>4. QED BY <1>4, <3>1, <3>2, <3>3 DEF Load, Assembled
  <2>4. WholeUnlessOverlapped'
    BY <1>4 DEF Load, WholeUnlessOverlapped
  <2>5. QED BY <2>1, <2>2, <2>3, <2>4
<1>5. ASSUME NEW t \in Thread, Return(t)
      PROVE  (OverlapNoticed /\ TodoInReach /\ AloneAssembles /\ WholeUnlessOverlapped)'
  <2>1. OverlapNoticed'
    BY <1>5 DEF Return
  <2>2. TodoInReach'
    BY <1>5 DEF Return
  <2>3. AloneAssembles'
    BY <1>5 DEF Return, AloneAssembles, Assembled
  <2>4. WholeUnlessOverlapped'
    <3> DEFINE new == [call |-> call[t], data |-> read[t], overlapped |-> overlapped[t]]
    <3>1. new.overlapped \/ Whole(new)
      <4> SUFFICES ASSUME ~overlapped[t] PROVE Whole(new)
        OBVIOUS
      <4>1. Assembled(t)
        BY <1>5 DEF Return, AloneAssembles
      <4>2. \A r \in Region : read[t][r] = Datagram(call[t])[r]
        BY <1>5, <4>1 DEF Return, Assembled
      <4>3. read[t] \in [Region -> Bytes]
        OBVIOUS
      <4>4. read[t] = Datagram(call[t])
        BY <4>2, <4>3 DEF Datagram
      <4>5. QED BY <4>4 DEF Whole, Datagram
    <3>2. wire' = wire \cup {new}
      BY <1>5 DEF Return
    <3>3. QED BY <3>1, <3>2 DEF WholeUnlessOverlapped
  <2>5. QED BY <2>1, <2>2, <2>3, <2>4
<1>6. CASE UNCHANGED vars
  BY <1>6 DEF vars, AloneAssembles, Assembled, WholeUnlessOverlapped, Whole
<1>7. QED BY <1>1, <1>2, <1>3, <1>4, <1>5, <1>6 DEF Next

(* No call is in progress at first and nothing is on the wire.             *)
LEMMA SendInit == ASSUME Init PROVE IInv
BY SendAssumption DEF Init, IInv, TypeOK, OverlapNoticed, TodoInReach, Busy, AloneAssembles,
  WholeUnlessOverlapped, Bytes

(* A datagram of a call without overlap names its own far end and carries  *)
(* its own packet: what send_packet_out of communication.c is meant to do, *)
(* as long as its callers take turns.                                      *)
THEOREM WholeUnlessOverlappedAlways == Spec => []WholeUnlessOverlapped
<1>1. IInv /\ [Next]_vars => IInv'
  BY SendStep
<1>2. IInv => WholeUnlessOverlapped
  BY DEF IInv
<1>3. QED BY SendInit, <1>1, <1>2, PTL DEF Spec

(* The variables keep their types.                                         *)
THEOREM SendTypes == Spec => []TypeOK
<1>1. IInv /\ [Next]_vars => IInv'
  BY SendStep
<1>2. IInv => TypeOK
  BY DEF IInv
<1>3. QED BY SendInit, <1>1, <1>2, PTL DEF Spec
=============================================================================
