------------------------------ MODULE KeyMutex ------------------------------
(***************************************************************************)
(* What a submission relies on between the lookup of a key's receipts and  *)
(* the caching of its own: it is alone with its key.                       *)
(***************************************************************************)
CONSTANTS Proc, Key, None

VARIABLE owner   \* the process that holds each key, or None

Init == owner = [k \in Key |-> None]

Acquire(p, k) == owner[k] = None /\ owner' = [owner EXCEPT ![k] = p]

Release(p, k) == owner[k] = p /\ owner' = [owner EXCEPT ![k] = None]

Next == \E p \in Proc, k \in Key : Acquire(p, k) \/ Release(p, k)

Spec == Init /\ [][Next]_owner
=============================================================================
