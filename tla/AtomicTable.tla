------------------------------ MODULE AtomicTable ------------------------------
(***************************************************************************)
(* What an ARP or MAC table promises to its node: at most one value per    *)
(* key, and an add replaces that value and nothing else.  Once it has      *)
(* begun, the table does not change until the next add.                    *)
(***************************************************************************)
CONSTANTS Key, Value, None

VARIABLES table, pending

Init == table = [k \in Key |-> None] /\ pending = None

Begin(k, v) ==
  /\ pending = None /\ pending' = <<k, v>>
  /\ table' = [table EXCEPT ![k] = v]

End == pending # None /\ pending' = None /\ UNCHANGED table

Next == End \/ \E k \in Key, v \in Value : Begin(k, v)

Spec == Init /\ [][Next]_<<table, pending>>
=============================================================================
