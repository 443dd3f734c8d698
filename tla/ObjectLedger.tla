---------------------------- MODULE ObjectLedger ----------------------------
(***************************************************************************)
(* What the migration promises about the completed-key ledger, whatever    *)
(* retries, partial uploads, deletions and cancellations happen below:     *)
(*   - a key enters the ledger only while the destination holds an object  *)
(*     that passes that key's verification;                                *)
(*   - once a key is in the ledger, its destination object is never        *)
(*     written, replaced or deleted again.                                 *)
(* TransferEngine implements it.                                           *)
(***************************************************************************)
CONSTANTS
    Keys,      \* the object keys
    Objects,   \* what a destination key can hold, absence included
    Verified   \* Verified[k]: the objects that pass the checks made for key k

VARIABLES
    dest,      \* dest[k]: the object the destination bucket holds under k
    recorded   \* the keys entered in the ledger

vars == <<dest, recorded>>

Init ==
    /\ dest \in [Keys -> Objects]
    /\ recorded = {}

(* The object of an unrecorded key may be stored, replaced or removed.     *)
Store(k) ==
    /\ k \notin recorded
    /\ \E d \in Objects : dest' = [dest EXCEPT ![k] = d]
    /\ UNCHANGED recorded

(* A key is recorded while its destination object passes the checks.       *)
Record(k) ==
    /\ dest[k] \in Verified[k]
    /\ recorded' = recorded \cup {k}
    /\ UNCHANGED dest

Next == \E k \in Keys : Store(k) \/ Record(k)

Spec == Init /\ [][Next]_vars
=============================================================================
