----------------------------- MODULE MCPbMessage -----------------------------
(* A few message objects, read by two threads.  The cached size of a dirty   *)
(* message is read by no step, so that states which differ in it alone are   *)
(* explored once.                                                            *)
EXTENDS PbMessage, FiniteSets, TLC

Symmetry == Permutations(Obj) \union Permutations(Thread)

SizesRead == [o \in Obj |-> IF dirty[o] THEN 0 ELSE cached[o]]

View == <<book, content, extent, reads, work, SizesRead>>

\* At most MaxWeight things exist at a time, counting messages, those that
\* were collected, fields that are set, getters under way and what they gave.
Weight ==
    Cardinality(Obj \ Free) + Cardinality({o \in Obj : scalar[o] > 0})
    + Cardinality({o \in Obj : rep[o] > 0}) + Cardinality(handed)
    + Cardinality({t \in Thread : pending[t] # NoGetter})

Light == Weight <= IF Free = {} THEN 4 ELSE 5
=============================================================================
