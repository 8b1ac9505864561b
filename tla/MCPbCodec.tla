----------------------------- MODULE MCPbCodec -----------------------------
(* One message type per family of fields, and for each an older one.       *)
EXTENDS PbCodec

F(type, label) == [type |-> type, label |-> label, packed |-> FALSE,
                   item |-> FALSE, sub |-> "none"]
Of(type, label, sub) == [F(type, label) EXCEPT !.sub = sub]
Pack(d) == [d EXCEPT !.packed = TRUE]
Item(d) == [d EXCEPT !.item = TRUE]

MCSchema ==
    [Ints |-> (1 :> F("int32", "optional") @@ 2 :> F("sint64", "optional")
               @@ 3 :> Pack(F("int64", "repeated")) @@ 4 :> F("uint32", "repeated")
               @@ 5 :> F("uint64", "optional")),
     OldInts |-> (1 :> F("int32", "optional") @@ 3 :> F("int64", "repeated")
               @@ 4 :> Pack(F("uint32", "repeated"))),
     Fixed |-> (1 :> F("fixed32", "repeated") @@ 2 :> F("sfixed64", "optional")
               @@ 3 :> Pack(F("float", "repeated")) @@ 4 :> F("double", "optional")
               @@ 5 :> Pack(F("bool", "repeated"))),
     OldFixed |-> (1 :> Pack(F("fixed32", "repeated")) @@ 3 :> F("float", "repeated")),
     Texts |-> (1 :> F("string", "optional") @@ 2 :> F("string", "repeated")
               @@ 3 :> F("bytes", "repeated") @@ 4 :> Pack(F("enum", "repeated"))
               @@ 5 :> Pack(F("sint32", "repeated"))),
     OldTexts |-> (2 :> F("string", "repeated") @@ 5 :> F("sint32", "repeated")),
     Nest |-> (1 :> Of("message", "optional", "Inner")
               @@ 2 :> Of("message", "repeated", "Inner")
               @@ 3 :> Of("group", "optional", "Inner")
               @@ 4 :> Of("group", "repeated", "Leaf")
               @@ 5 :> Of("message", "optional", "Items")),
     OldNest |-> (1 :> Of("message", "optional", "OldInner")
               @@ 2 :> Of("message", "repeated", "OldInner")
               @@ 5 :> Of("message", "optional", "OldItems")),
     Inner |-> (1 :> F("int32", "required") @@ 2 :> Of("group", "repeated", "Leaf")),
     OldInner |-> (1 :> F("int32", "required")),
     Leaf |-> (1 :> F("bool", "optional") @@ 2 :> F("bytes", "required")),
     Items |-> (2 :> Item(Of("message", "optional", "Leaf"))
               @@ 3 :> Item(Of("message", "optional", "OldInner"))),
     OldItems |-> (3 :> Item(Of("message", "optional", "OldInner")))]

MCOlder == [Ints |-> "OldInts", Fixed |-> "OldFixed", Texts |-> "OldTexts",
            Nest |-> "OldNest"]

\* The extremes of the signed and of the unsigned types, and the first number
\* of two bytes.
MCEdges == {-(Wide \div 2), -(Narrow \div 2), -1, 0, Group, (Narrow \div 2) - 1,
            Narrow - 1, (Wide \div 2) - 1, Wide - 1}
MCStrings == {<< >>, <<1, Group + 1>>}
\* All kinds of escapes, and a string whose length takes two bytes.
MCByteStrings == {<<Backslash, LetterN, Group + 3, 3>>, [i \in 1 .. Group |-> 16 - i]}
\* A backslash before what looks like the rest of a hexadecimal escape.
MCHexStrings == {<<Backslash, LetterX, 3>>}
============================================================================
