------------------------------- MODULE MCWatch ------------------------------
(* Small instances of WatchTui.                                            *)
EXTENDS WatchTui

CONSTANTS a1, a2, a3

(* File 1 is a copy of the ask in file 2, in a parent session that is      *)
(* listed before the session that asks; file 5 is a copy of the ask in     *)
(* file 3, in one that is listed after it.                                 *)
CopiesAround == [f \in 1 .. 5 |-> CASE f \in {1, 2} -> a1 [] f \in {3, 5} -> a2 [] f = 4 -> a3]
============================================================================
