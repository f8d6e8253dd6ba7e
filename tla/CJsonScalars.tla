---------------------------- MODULE CJsonScalars ----------------------------
(***************************************************************************)
(* How cJSON reads and writes strings, keeps numbers and compares items      *)
(* (Util/src/cJSON.c:305-398, 611-1018, 2977-3099).  A string's text between  *)
(* its quotes is a sequence of units: a plain byte, a backslash with one more  *)
(* character, \u with four digits, or \u cut short by the closing quote.      *)
(***************************************************************************)
EXTENDS Integers, FiniteSets, Sequences, SequencesExt

CONSTANTS
  Plain,      \* the bytes tried
  Codes,      \* the values of four hexadecimal digits tried
  MaxUnits,   \* bound: on the length of a string
  IntMax      \* INT_MAX

VARIABLES
  units,  \* a string's text
  pair    \* two items to compare

vars == <<units, pair>>

-----------------------------------------------------------------------------
(***************************************************************************)
(* Strings                                                                 *)
(***************************************************************************)

Quote == 34
Backslash == 92

\* What stands for a byte after a backslash, by name: '"', '\\', '/', b, f, n, r, t.
EscapedByte == [quote |-> Quote, backslash |-> Backslash, slash |-> 47,
                b |-> 8, f |-> 12, n |-> 10, r |-> 13, t |-> 9]

Unit(kind, code) == [kind |-> kind, code |-> code]

\* A backslash before another character is in no table; digits that are none
\* make parse_hex4 return 0.
Units ==
  {Unit("plain", c) : c \in Plain} \cup {Unit("escape", e) : e \in DOMAIN EscapedByte}
  \cup {Unit("unicode", c) : c \in Codes}
  \cup {Unit("unknown", 0), Unit("badhex", 0), Unit("short", 0)}

UnitLength(unit) ==
  CASE unit.kind = "plain" -> 1
    [] unit.kind \in {"escape", "unknown"} -> 2
    [] unit.kind \in {"unicode", "badhex"} -> 6
    [] unit.kind = "short" -> 4

TextLength(text) == FoldLeft(LAMBDA sum, unit : sum + UnitLength(unit), 0, text)

High(code) == code \in 55296 .. 56319
Low(code) == code \in 56320 .. 57343

\* The loop of utf16_literal_to_utf8 that writes from the last byte to the first.
Utf8(codepoint) ==
  LET length == IF codepoint < 128 THEN 1 ELSE IF codepoint < 2048 THEN 2
                ELSE IF codepoint < 65536 THEN 3 ELSE 4
      mark == <<0, 192, 224, 240>>[length]
      Shifted(n) == codepoint \div 64 ^ n
  IN [i \in 1 .. length |-> IF i = 1 THEN (mark + Shifted(length - 1)) % 256
                            ELSE 128 + (Shifted(length - i) % 64)]

\* Mutant of Utf16Literal: the second half is not looked at.
Utf16Literal_AnyPair(rest) ==
  LET first == rest[1].code
      second == rest[2].code
  IN IF rest[1].kind = "short" \/ Low(first) THEN [bytes |-> <<>>, read |-> 0]
     ELSE IF ~High(first) THEN [bytes |-> Utf8(first), read |-> 1]
     ELSE IF Len(rest) < 2 \/ rest[2].kind \notin {"unicode", "badhex"}
       THEN [bytes |-> <<>>, read |-> 0]
     ELSE [bytes |-> Utf8(65536 + (first % 1024) * 1024 + (second % 1024)), read |-> 2]

\* utf16_literal_to_utf8: the bytes and the number of units read, 0 for a failure.
Utf16Literal(rest) ==
  LET first == rest[1].code
      second == rest[2].code
  IN IF rest[1].kind = "short" \/ Low(first) THEN [bytes |-> <<>>, read |-> 0]
     ELSE IF ~High(first) THEN [bytes |-> Utf8(first), read |-> 1]
     ELSE IF Len(rest) < 2 \/ rest[2].kind \notin {"unicode", "badhex"} \/ ~Low(second)
       THEN [bytes |-> <<>>, read |-> 0]
     ELSE [bytes |-> Utf8(65536 + (first % 1024) * 1024 + (second % 1024)), read |-> 2]

\* parse_string's loop over the literal.
RECURSIVE Unescaped(_, _)
Unescaped(rest, bytes) ==
  LET unit == rest[1]
      literal == Utf16Literal(rest)
  IN IF rest = <<>> THEN [ok |-> TRUE, bytes |-> bytes]
     ELSE IF unit.kind = "plain" THEN Unescaped(Tail(rest), Append(bytes, unit.code))
     ELSE IF unit.kind = "escape"
       THEN Unescaped(Tail(rest), Append(bytes, EscapedByte[unit.code]))
     ELSE IF unit.kind = "unknown" \/ literal.read = 0 THEN [ok |-> FALSE, bytes |-> bytes]
     ELSE Unescaped(SubSeq(rest, literal.read + 1, Len(rest)), bytes \o literal.bytes)

\* The size of the output, overestimated: the text and the opening quote without
\* the backslashes, and a zero.
Reserved(text) ==
  LET escapes == Len(SelectSeq(text, LAMBDA unit : unit.kind # "plain"))
  IN TextLength(text) + 1 - escapes + 1

\* print_string_ptr: the text for a byte, and the length it reserves for all.
Escaped(byte) ==
  IF \E e \in DOMAIN EscapedByte \ {"slash"} : EscapedByte[e] = byte
  THEN Unit("escape", CHOOSE e \in DOMAIN EscapedByte : EscapedByte[e] = byte)
  ELSE IF byte < 32 THEN Unit("unicode", byte)
  ELSE Unit("plain", byte)

Printed(bytes) == [i \in DOMAIN bytes |-> Escaped(bytes[i])]

PrintLength(bytes) ==
  FoldLeft(LAMBDA sum, byte : sum + 1 + (IF \E e \in DOMAIN EscapedByte \ {"slash"} :
                                              EscapedByte[e] = byte THEN 1
                                         ELSE IF byte < 32 THEN 5 ELSE 0),
           2, bytes)

-----------------------------------------------------------------------------
(***************************************************************************)
(* Numbers, in halves: half is twice the double's value.                    *)
(***************************************************************************)

\* parse_number, cJSON_SetNumberHelper, cJSON_CreateNumber: the int beside the
\* double, saturated, else cut towards zero.
ValueInt(half) ==
  IF half >= 2 * IntMax THEN IntMax
  ELSE IF half <= -2 * (IntMax + 1) THEN -(IntMax + 1)
  ELSE IF half >= 0 THEN half \div 2 ELSE -((-half) \div 2)

-----------------------------------------------------------------------------
(***************************************************************************)
(* Comparison.  An item has a type, a value if it is a number or a string,    *)
(* and members with names.                                                 *)
(***************************************************************************)

\* Two names that differ in case only are alike.
SameName(name, other, sensitive) ==
  name = other \/ (~sensitive /\ {name, other} = {"a", "A"})

Member(object, name, sensitive) ==
  LET found == {i \in DOMAIN object.members : SameName(name, object.members[i].name, sensitive)}
  IN IF found = {} THEN 0 ELSE CHOOSE i \in found : \A j \in found : i <= j

\* cJSON_Compare, for two items at different addresses; a number stands for
\* strings, too, which are compared in the same way.
RECURSIVE Compare(_, _, _)
Compare(x, y, sensitive) ==
  /\ x.type = y.type
  /\ CASE x.type = "null" -> TRUE
       [] x.type = "number" -> x.value = y.value
       [] x.type = "array" ->
            /\ Len(x.members) = Len(y.members)
            /\ \A i \in DOMAIN x.members : Compare(x.members[i], y.members[i], sensitive)
       [] x.type = "object" ->
            /\ \A i \in DOMAIN x.members :
                 LET j == Member(y, x.members[i].name, sensitive)
                 IN j # 0 /\ Compare(x.members[i], y.members[j], sensitive)
            /\ \A i \in DOMAIN y.members :
                 LET j == Member(x, y.members[i].name, sensitive)
                 IN j # 0 /\ Compare(y.members[i], x.members[j], sensitive)

-----------------------------------------------------------------------------
Names == {"a", "A", "b"}

Leaf(name, type, value) == [name |-> name, type |-> type, value |-> value, members |-> <<>>]

Leaves == {Leaf(name, "number", v) : name \in Names, v \in 1 .. 2}

Items ==
  {Leaf("", "null", 0), Leaf("", "number", 1)}
  \cup {[name |-> "", type |-> type, value |-> 0, members |-> members] :
          type \in {"array", "object"},
          members \in UNION {[1 .. n -> Leaves] : n \in 0 .. 2}}

\* A text to read, or two items to compare.
Init == units = <<>> /\ pair = <<>>

MoreText == /\ Len(units) < MaxUnits /\ pair = <<>>
            /\ \A i \in DOMAIN units : units[i].kind # "short"
            /\ \E unit \in Units : units' = Append(units, unit)
            /\ UNCHANGED pair

Choose == units = <<>> /\ pair = <<>> /\ pair' \in Items \X Items /\ UNCHANGED units

Next == MoreText \/ Choose

Spec == Init /\ [][Next]_vars

-----------------------------------------------------------------------------
(***************************************************************************)
(* Properties                                                              *)
(***************************************************************************)

\* The code points of well-formed UTF-8.
RECURSIVE CodePoints(_)
CodePoints(bytes) ==
  LET first == bytes[1]
      length == IF first < 128 THEN 1 ELSE IF first < 224 THEN 2 ELSE IF first < 240 THEN 3 ELSE 4
      lead == first - <<0, 192, 224, 240>>[length]
      point == FoldLeft(LAMBDA sum, byte : sum * 64 + byte - 128, lead, SubSeq(bytes, 2, length))
  IN IF bytes = <<>> THEN <<>>
     ELSE <<point>> \o CodePoints(SubSeq(bytes, length + 1, Len(bytes)))

\* A string is read unless it has an unknown escape, half a surrogate pair or a
\* \u cut short (four characters that are no digits count as zero); it is read
\* into the space reserved for it, the characters it names are what comes out,
\* and it prints, in exactly the length computed for it, as a text that reads
\* the same (cJSON.c:656-768, 771-896, 898-1018).
StringsReadBack ==
  LET result == Unescaped(units, <<>>)
      code == [i \in DOMAIN units |-> IF units[i].kind \in {"unicode", "badhex"}
                                      THEN units[i].code ELSE -1]
      Paired(i) == High(code[i]) /\ i < Len(units) /\ Low(code[i + 1])
      Valid(i) ==
        /\ units[i].kind \notin {"unknown", "short"}
        /\ High(code[i]) => Paired(i)
        /\ Low(code[i]) => i > 1 /\ Paired(i - 1)
      points == [i \in DOMAIN units |->
                   IF Paired(i) THEN <<(code[i] - 55296) * 1024 + code[i + 1] - 56320 + 65536>>
                   ELSE IF Low(code[i]) THEN <<>>
                   ELSE IF code[i] >= 0 THEN <<code[i]>>
                   ELSE IF units[i].kind = "plain" THEN <<units[i].code>>
                   ELSE <<EscapedByte[units[i].code]>>]
  IN /\ result.ok = (\A i \in DOMAIN units : Valid(i))
     /\ Len(result.bytes) + 1 <= Reserved(units)
     /\ result.ok => CodePoints(result.bytes) = FlattenSeq(points)
     /\ result.ok /\ 0 \notin ToSet(result.bytes) =>
          /\ Unescaped(Printed(result.bytes), <<>>) = result
          /\ TextLength(Printed(result.bytes)) + 2 = PrintLength(result.bytes)

\* Two items compare the same both ways; objects without two alike names are
\* equal if and only if they have the same members in any order, and arrays
\* only in the same order (cJSON.c:2977-3099).
ComparisonRight ==
  pair # <<>> => \A sensitive \in BOOLEAN :
    LET x == pair[1]
        y == pair[2]
        equal == Compare(x, y, sensitive)
        Folded(name) == IF ~sensitive /\ name = "A" THEN "a" ELSE name
        Entries(o) == {<<Folded(m.name), m.value>> : m \in ToSet(o.members)}
        Unambiguous(o) == Cardinality({Folded(m.name) : m \in ToSet(o.members)}) = Len(o.members)
        Values(o) == [i \in DOMAIN o.members |-> o.members[i].value]
    IN /\ equal = Compare(y, x, sensitive)
       /\ x.type = "object" /\ y.type = "object" /\ Unambiguous(x) /\ Unambiguous(y) =>
            equal = (Entries(x) = Entries(y))
       /\ x.type = "array" /\ y.type = "array" => equal = (Values(x) = Values(y))

\* The int beside a double is the nearest towards zero that an int can hold
\* (cJSON.c:357-370, 381-396, 2428-2440).
NumbersSaturate ==
  \A half \in -2 * IntMax - 6 .. 2 * IntMax + 6 :
    LET int == ValueInt(half)
    IN /\ int \in -(IntMax + 1) .. IntMax
       /\ \A other \in -(IntMax + 1) .. IntMax :
            (IF half >= 0 THEN 2 * other <= half /\ other >= 0 ELSE 2 * other >= half /\ other <= 0)
              => (IF half >= 0 THEN other <= int ELSE other >= int)
=============================================================================
