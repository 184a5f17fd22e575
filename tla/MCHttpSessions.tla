--------------------------- MODULE MCHttpSessions ---------------------------
(* HttpSessions with two requests in flight, a table of one native entry   *)
(* (so that a second id evicts the first) and one OpenAI id.               *)
EXTENDS HttpSessions, TLC

ReqSymmetry == Permutations(Reqs)
=============================================================================
