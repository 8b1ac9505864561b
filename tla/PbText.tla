------------------------------- MODULE PbText -------------------------------
(* text_format.py: a message printed as tokens and merged back from them.  *)
(* White space, positions and the wording of errors are left out; the      *)
(* characters inside a string literal are not, for its escapes are undone  *)
(* in two passes.                                                          *)
EXTENDS PbDecoder
CONSTANTS EnumNumbers   \* the numbers the enum types declare

(* Characters are the bytes below Group, those from Group on are not ASCII. *)
(* The digits 0 to 7 are their own characters, and the hexadecimal digits.  *)
Digit == 0 .. 7
Backslash == 8
Quote == 9
Apostrophe == 10
LetterX == 11
Newline == 12   \* tab and carriage return are escaped in the same way
LetterN == 13

\* An octal escape is as long as any byte needs: three digits in the code.
EscapeCharacter(c, as_utf8) ==
    CASE c = Newline -> <<Backslash, LetterN>>
      [] c \in {Apostrophe, Quote, Backslash} -> <<Backslash, c>>
      [] c >= Group /\ ~as_utf8 -> <<Backslash, c \div 8, c % 8>>
      [] OTHER -> <<c>>

CEscape(s, as_utf8) == Concat(LAMBDA c : EscapeCharacter(c, as_utf8), s)

\* _CUNESCAPE_HEX.sub(ReplaceHex, text): one or two digits after "\x".
RECURSIVE ReplaceHex(_)
ReplaceHex(s) ==
    IF Len(s) >= 3 /\ s[1] = Backslash /\ s[2] = LetterX /\ s[3] \in Digit
    THEN IF Len(s) >= 4 /\ s[4] \in Digit
         THEN <<(s[3] * Group + s[4]) % Byte>> \o ReplaceHex(SubSeq(s, 5, Len(s)))
         ELSE <<s[3]>> \o ReplaceHex(SubSeq(s, 4, Len(s)))
    ELSE IF s = << >> THEN s ELSE <<s[1]>> \o ReplaceHex(Tail(s))

\* decode('string_escape'): an unknown escape keeps its backslash.
RECURSIVE StringEscape(_)
StringEscape(s) ==
    IF s = << >> THEN s
    ELSE IF Head(s) # Backslash \/ Len(s) = 1 THEN <<s[1]>> \o StringEscape(Tail(s))
    ELSE LET rest == SubSeq(s, 3, Len(s))
         IN CASE s[2] = LetterN -> <<Newline>> \o StringEscape(rest)
              [] s[2] \in {Apostrophe, Quote, Backslash} -> <<s[2]>> \o StringEscape(rest)
              [] s[2] \in Digit /\ rest # << >> /\ Head(rest) \in Digit ->
                    <<(s[2] * 8 + Head(rest)) % Byte>> \o StringEscape(Tail(rest))
              [] s[2] \in Digit -> <<s[2]>> \o StringEscape(rest)
              [] OTHER -> <<Backslash, s[2]>> \o StringEscape(rest)

CUnescape(s) == StringEscape(ReplaceHex(s))

-----------------------------------------------------------------------------
(* Tokens: [k, v], with the kind k one of "mark", "word", "name", "type",    *)
(* "extension", "enum", "number", "float" and "string".                      *)

Token(k, v) == <<[k |-> k, v |-> v]>>
Mark(v) == Token("mark", v)

\* str() of an integer.
Decimal(value) ==
    LET size == IF value < 0 THEN -value ELSE value
        n == CHOOSE n \in 1 .. 10 : size < 10 ^ n /\ (n = 1 \/ size >= 10 ^ (n - 1))
    IN [neg |-> value < 0,
        digits |-> [i \in 1 .. n |-> (size \div 10 ^ (n - i)) % 10]]

\* str() of a double drops the bits beyond twelve decimal digits.
Rounded(value, type) ==
    IF type = "double" /\ value # NaN THEN [value EXCEPT !.sig[1] = 0] ELSE value

\* Printing raises KeyError for a number the enum type does not declare.
RECURSIVE Printable(_, _)
Printable(T, m) ==
    \A n \in DOMAIN m :
        LET s == IF Schema[T][n].label = "repeated" THEN m[n] ELSE <<m[n]>>
        IN \A i \in DOMAIN s :
            CASE Schema[T][n].type = "enum" -> s[i] \in EnumNumbers
              [] Schema[T][n].type \in Composite -> Printable(Schema[T][n].sub, s[i])
              [] OTHER -> TRUE

RECURSIVE PrintMessage(_, _, _)

PrintFieldValue(desc, value, as_utf8) ==
    CASE desc.type \in Composite ->
            Mark("{") \o PrintMessage(desc.sub, value, as_utf8) \o Mark("}")
      [] desc.type = "enum" -> Token("enum", value)
      [] desc.type = "string" -> Token("string", CEscape(EncodeUtf8(value), as_utf8))
      [] desc.type = "bytes" -> Token("string", CEscape(value, as_utf8))
      [] desc.type = "bool" -> Token("word", IF value THEN "true" ELSE "false")
      [] desc.type \in Floating -> Token("float", Rounded(value, desc.type))
      [] OTHER -> Token("number", Decimal(value))

\* Mutant of PrintField: a group is printed with the name of its field.
PrintFieldPlainName(desc, n, value, as_utf8) ==
    (IF desc.item THEN Mark("[") \o Token("extension", n) \o Mark("]")
     ELSE Token("name", n))
    \o (IF desc.type \in Composite THEN << >> ELSE Mark(":"))
    \o PrintFieldValue(desc, value, as_utf8)

PrintField(desc, n, value, as_utf8) ==
    (IF desc.item THEN Mark("[") \o Token("extension", n) \o Mark("]")
     ELSE Token(IF desc.type = "group" THEN "type" ELSE "name", n))
    \o (IF desc.type \in Composite THEN << >> ELSE Mark(":"))
    \o PrintFieldValue(desc, value, as_utf8)

PrintMessage(T, m, as_utf8) ==
    Concat(LAMBDA n :
             Concat(LAMBDA v : PrintField(Schema[T][n], n, v, as_utf8),
                    IF Schema[T][n].label = "repeated" THEN m[n] ELSE <<m[n]>>),
           ListFields(m))

-----------------------------------------------------------------------------
(* Consuming tokens: [st, value, rest].  A ParseError ends the merge. *)

Consumed(value, rest) == [st |-> "ok", value |-> value, rest |-> rest]
ParseError == [st |-> "ParseError", value |-> 0, rest |-> << >>]

LookingAt(tokens, k, v) ==
    tokens # << >> /\ Head(tokens).k = k /\ Head(tokens).v = v
LookingAtKind(tokens, kinds) == tokens # << >> /\ Head(tokens).k \in kinds

\* Nothing is consumed when the token is another one.
TryConsume(tokens, mark) ==
    IF LookingAt(tokens, "mark", mark) THEN Tail(tokens) ELSE tokens

\* A leading 0 makes the number octal.
ParseInteger(number) ==
    LET base == IF Head(number.digits) = 0 THEN 8 ELSE 10
        size == FoldLeft(LAMBDA sum, d : sum * base + d, 0, number.digits)
    IN IF number.neg THEN -size ELSE size

\* ConsumeInt32, ConsumeUint32, ConsumeInt64 and ConsumeUint64.
ConsumeInteger(tokens, kind) ==
    IF ~LookingAtKind(tokens, {"number"}) THEN ParseError
    ELSE IF ~CheckValue(kind, ParseInteger(Head(tokens).v)) THEN ParseError
    ELSE Consumed(ParseInteger(Head(tokens).v), Tail(tokens))

ConsumeFloat(tokens) ==
    IF ~LookingAtKind(tokens, {"float"}) THEN ParseError
    ELSE Consumed(Head(tokens).v, Tail(tokens))

ConsumeBool(tokens) ==
    IF ~LookingAtKind(tokens, {"word"}) THEN ParseError
    ELSE Consumed(Head(tokens).v = "true", Tail(tokens))

\* Adjacent literals are one string.
RECURSIVE ConsumeByteString(_)
ConsumeByteString(tokens) ==
    IF ~LookingAtKind(tokens, {"string"}) THEN ParseError
    ELSE LET more == ConsumeByteString(Tail(tokens))
             this == CUnescape(Head(tokens).v)
         IN IF more.st = "ok" THEN Consumed(this \o more.value, more.rest)
            ELSE Consumed(this, Tail(tokens))

ConsumeString(tokens) ==
    LET bytes == ConsumeByteString(tokens)
    IN IF bytes.st # "ok" \/ ~ValidUtf8(bytes.value) THEN ParseError
       ELSE Consumed(DecodeUtf8(bytes.value), bytes.rest)

\* By its name, or by its number.
ConsumeEnum(tokens) ==
    LET number == ConsumeInteger(tokens, "int32")
    IN IF LookingAtKind(tokens, {"number"})
       THEN IF number.st = "ok" /\ number.value \in EnumNumbers THEN number ELSE ParseError
       ELSE IF LookingAtKind(tokens, {"enum"}) THEN Consumed(Head(tokens).v, Tail(tokens))
       ELSE ParseError

ConsumeScalar(type, tokens) ==
    CASE type \in {"int32", "sint32", "sfixed32"} -> ConsumeInteger(tokens, "int32")
      [] type \in {"int64", "sint64", "sfixed64"} -> ConsumeInteger(tokens, "int64")
      [] type \in {"uint32", "fixed32"} -> ConsumeInteger(tokens, "uint32")
      [] type \in {"uint64", "fixed64"} -> ConsumeInteger(tokens, "uint64")
      [] type \in Floating -> ConsumeFloat(tokens)
      [] type = "bool" -> ConsumeBool(tokens)
      [] type = "string" -> ConsumeString(tokens)
      [] type = "bytes" -> ConsumeByteString(tokens)
      [] type = "enum" -> ConsumeEnum(tokens)

-----------------------------------------------------------------------------
(* Merging.  value is the message as far as it got. *)

\* append for a repeated field, the setter for another one.
MergeScalarField(desc, n, m, tokens) ==
    LET r == ConsumeScalar(desc.type, Tail(tokens))
    IN IF ~LookingAt(tokens, "mark", ":") \/ r.st # "ok"
       THEN [ParseError EXCEPT !.value = m]
       ELSE Consumed(Put(m, n, IF desc.label = "repeated"
                               THEN Append(Held(m, n, << >>), r.value) ELSE r.value),
                     r.rest)

\* The field a name stands for, 0 if none: an extension by the name in
\* brackets, a group by the name of its type only.
FieldNamed(T, tokens) ==
    LET bracket == LookingAt(tokens, "mark", "[")
        name == IF bracket THEN Tail(tokens) ELSE tokens
        Names(d) == IF bracket THEN d.item /\ Head(name).k = "extension"
                    ELSE Head(name).k = (IF d.type = "group" THEN "type" ELSE "name")
    IN IF LookingAtKind(name, {"name", "type", "extension"})
          /\ Head(name).v \in DOMAIN Schema[T] /\ Names(Schema[T][Head(name).v])
          /\ (bracket => LookingAt(Tail(name), "mark", "]"))
       THEN Consumed(Head(name).v, IF bracket THEN Tail(Tail(name)) ELSE Tail(name))
       ELSE ParseError

RECURSIVE MergeFields(_, _, _, _)

\* The colon before a submessage may be left out; "<" ends with ">".
MergeSubmessage(desc, m, tokens) ==
    LET open == TryConsume(tokens, ":")
    IN IF LookingAt(open, "mark", "<") THEN MergeFields(desc.sub, m, Tail(open), ">")
       ELSE IF LookingAt(open, "mark", "{") THEN MergeFields(desc.sub, m, Tail(open), "}")
       ELSE [ParseError EXCEPT !.value = m]

MergeField(T, m, tokens) ==
    LET named == FieldNamed(T, tokens)
        n == named.value
        desc == Schema[T][n]
        sub == MergeSubmessage(desc, IF desc.label = "repeated" THEN EmptyMessage
                                     ELSE Held(m, n, EmptyMessage), named.rest)
    IN IF named.st # "ok" THEN [ParseError EXCEPT !.value = m]
       ELSE IF desc.type \notin Composite THEN MergeScalarField(desc, n, m, named.rest)
       ELSE [sub EXCEPT !.value =
                Put(m, n, IF desc.label = "repeated" THEN Append(Held(m, n, << >>), @)
                          ELSE @)]

\* Fields up to the end token, "" for the end of the text.
MergeFields(T, m, tokens, end) ==
    LET r == MergeField(T, m, tokens)
    IN IF end = "" /\ tokens = << >> THEN Consumed(m, tokens)
       ELSE IF end # "" /\ LookingAt(tokens, "mark", end) THEN Consumed(m, Tail(tokens))
       ELSE IF tokens = << >> THEN [ParseError EXCEPT !.value = m]
       ELSE IF r.st # "ok" THEN r
       ELSE MergeFields(T, r.value, r.rest, end)

Merge(T, m, tokens) == MergeFields(T, m, tokens, "")
=============================================================================
