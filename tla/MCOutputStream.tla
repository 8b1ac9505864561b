--------------------------- MODULE MCOutputStream ---------------------------
(* Three classes that share a dependency; B also has a field of class A.    *)
(* Class A is extended in a file that imports more than A.proto does.       *)
(* The class ids are 0, 1, then 12, 13: the second class of a role already  *)
(* jumps over the reserved range 2 .. 11.                                   *)
EXTENDS OutputStream

MCFile == {"A.proto", "B.proto", "C.proto", "common.proto", "ext.proto"}
MCFileOf == [c \in Class |-> c \o ".proto"]
MCDependencies ==
    [f \in MCFile |->
        CASE f = "B.proto" -> <<"common.proto", "A.proto">>
          [] f = "ext.proto" -> <<"A.proto", "C.proto">>
          [] f = "common.proto" -> << >>
          [] OTHER -> <<"common.proto">>]
MCExtensionFiles == [c \in Class |-> IF c = "C" THEN {} ELSE {"ext.proto"}]
=============================================================================
