---------------------------- MODULE MCRoundTrip ----------------------------
(* Classes that a stream may use for events or metadata.  Class A is       *)
(* extended in a file of its own.                                          *)
EXTENDS RoundTrip

MCFile == {"A.proto", "B.proto", "M.proto", "common.proto", "ext.proto"}
MCFileOf == [c \in Class |-> c \o ".proto"]
MCDependencies ==
    [f \in MCFile |->
        CASE f = "ext.proto" -> <<"A.proto">>
          [] f = "common.proto" -> << >>
          [] OTHER -> <<"common.proto">>]
MCExtensionFiles == [c \in Class |-> IF c = "A" THEN {"ext.proto"} ELSE {}]
=============================================================================
