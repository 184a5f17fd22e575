---------------------------- MODULE SessionRecord ----------------------------
(***************************************************************************)
(* What sessions.json promises the processes that share it: a table that   *)
(* changes one entry at a time, and keeps every other entry as it was.     *)
(***************************************************************************)
CONSTANTS Keys, Entries

VARIABLE table

Init == table \in [Keys -> Entries]

Update(k) == \E e \in Entries : table' = [table EXCEPT ![k] = e]

Next == \E k \in Keys : Update(k)

Spec == Init /\ [][Next]_table
=============================================================================
