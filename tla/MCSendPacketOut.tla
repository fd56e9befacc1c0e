---------------------------- MODULE MCSendPacketOut ----------------------------
(* SendPacketOut for two threads.  Threads, interfaces and packets are     *)
(* interchangeable.                                                        *)
EXTENDS SendPacketOut, TLC

Symmetry == Permutations(Thread) \cup Permutations(Interface) \cup Permutations(Packet)
=============================================================================
