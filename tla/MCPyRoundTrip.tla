---------------------------- MODULE MCPyRoundTrip ----------------------------
(* Event classes "A" and "B" and metadata class "M".  The imports have a     *)
(* diamond: A imports base directly and through common.  The ids 0, 1 and 2  *)
(* of the classes are below the reserved range.                              *)
EXTENDS PyRoundTrip

MCFile == {"A.proto", "B.proto", "M.proto", "common.proto", "base.proto"}
MCFileOf == [c \in Class |-> c \o ".proto"]
MCDependencies ==
    [f \in MCFile |->
        CASE f = "A.proto" -> <<"base.proto", "common.proto">>
          [] f = "B.proto" -> <<"common.proto">>
          [] f = "M.proto" -> <<"base.proto">>
          [] f = "common.proto" -> <<"base.proto">>
          [] OTHER -> << >>]
=============================================================================
