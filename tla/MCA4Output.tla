----------------------------- MODULE MCA4Output -----------------------------
(* No postfix, and a postfix whose file has the name of the first stream   *)
(* of no postfix: "out.1".                                                 *)
EXTENDS A4Output, TLC

MCPostfixes == << << >>, <<1>> >>
Symmetry == Permutations(Worker)
=============================================================================
