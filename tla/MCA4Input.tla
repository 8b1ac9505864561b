----------------------------- MODULE MCA4Input -----------------------------
(* Two files, the second one longer; the threads are alike. *)
EXTENDS A4Input, TLC

MCMessages == [f \in FileName |-> IF f = "a" THEN 1 ELSE 2]
Symmetry == Permutations(Worker)
=============================================================================
