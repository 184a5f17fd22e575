----------------------------- MODULE MCSessions -----------------------------
(* Sessions with two tasks of one chat, so that their lookups race, and a  *)
(* CLI process that may resume the chat's session.                         *)
EXTENDS Sessions, TLC
TaskSymmetry == Permutations(Tasks)
=============================================================================
