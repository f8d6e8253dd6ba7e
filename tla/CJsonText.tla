------------------------------ MODULE CJsonText ------------------------------
(***************************************************************************)
(* cJSON's parser and printer (Util/src/cJSON.c:308-345, 437-608, 897-1822). *)
(* A text is a sequence of tokens: the brackets, comma and colon, a blank    *)
(* (the terminating zero is one, as it is for the code), and S, N and L for a *)
(* string, a number and a literal, which are read and written elsewhere.     *)
(* What is modelled is the walk: offsets, the step back at the end of the    *)
(* input, the nesting limit, failed allocations and what is freed then, the   *)
(* space that is reserved and the bytes that are written into it.            *)
(***************************************************************************)
EXTENDS Integers, FiniteSets, Sequences, SequencesExt

CONSTANTS
  NestingLimit,
  IntMax,      \* INT_MAX
  MaxDead,     \* bound: texts that nothing can complete have at most this many tokens
  MaxText      \* bound: and the others this many, with one blank

VARIABLE text

Brackets == {"[", "]", "{", "}"}
Atoms == {"S", "N", "L"}
Tokens == Brackets \cup Atoms \cup {",", ":", " "}
Zero == "zero"
Blanks == {" ", Zero}

-----------------------------------------------------------------------------
(***************************************************************************)
(* The parser.  A buffer b holds the content, the offset at, the depth, the  *)
(* allocations that are live and how many more succeed (left).  A parsed     *)
(* item has a token for its type, a name or not, and its members.           *)
(***************************************************************************)

CanAccess(b) == b.at < Len(b.content)

\* parse_string is called, and looks, without a check at the end of the input;
\* whatever it reads there, it fails.
Here(b) == IF CanAccess(b) THEN b.content[b.at + 1] ELSE Zero

Advance(b, n) == [b EXCEPT !.at = @ + n]

\* Mutant of SkipWhitespace: no step back at the end.
SkipWhitespace_Past(b) ==
  LET rest == {i \in b.at + 1 .. Len(b.content) : b.content[i] \notin Blanks}
  IN IF ~CanAccess(b) THEN b
     ELSE IF rest = {} THEN [b EXCEPT !.at = Len(b.content)]
     ELSE [b EXCEPT !.at = (CHOOSE i \in rest : \A j \in rest : i <= j) - 1]

\* buffer_skip_whitespace
SkipWhitespace(b) ==
  LET rest == {i \in b.at + 1 .. Len(b.content) : b.content[i] \notin Blanks}
  IN IF ~CanAccess(b) THEN b
     ELSE IF rest = {} THEN [b EXCEPT !.at = Len(b.content) - 1]
     ELSE [b EXCEPT !.at = (CHOOSE i \in rest : \A j \in rest : i <= j) - 1]

Nothing == [type |-> "invalid", named |-> FALSE, members |-> <<>>]

Fails(b) == [b |-> b, ok |-> FALSE, item |-> Nothing]

\* The allocations of an item: itself, its name, its text, its members.
RECURSIVE Allocations(_)
Allocations(item) ==
  1 + (IF item.named THEN 1 ELSE 0) + (IF item.type = "S" THEN 1 ELSE 0)
    + FoldLeft(LAMBDA sum, member : sum + Allocations(member), 0, item.members)

Frees(b, n) == [b EXCEPT !.live = @ - n]

AllocationsOf(items) == FoldLeft(LAMBDA sum, item : sum + Allocations(item), 0, items)

\* The head of a list is deleted, and with it the members so far and the one
\* that failed, which has a cell and perhaps a name.
Discard(b, members, current) == Frees(b, AllocationsOf(members) + current)

Allocates(b) == [b EXCEPT !.live = @ + 1, !.left = @ - 1]

\* parse_string
ParseString(b) ==
  IF Here(b) # "S" \/ b.left = 0 THEN Fails(b)
  ELSE [b |-> Advance(Allocates(b), 1), ok |-> TRUE, item |-> [Nothing EXCEPT !.type = "S"]]

Closes(object) == IF object THEN "}" ELSE "]"

\* parse_value; parse_array and parse_object differ in the bracket that ends
\* them and in the name before a value.
RECURSIVE ParseValue(_), ParseArray(_), ParseObject(_), ParseMembers(_, _, _), ParseMember(_, _)

ParseValue(b) ==
  IF ~CanAccess(b) THEN Fails(b)
  ELSE IF Here(b) = "S" THEN ParseString(b)
  ELSE IF Here(b) \in {"N", "L"}
    THEN [b |-> Advance(b, 1), ok |-> TRUE, item |-> [Nothing EXCEPT !.type = Here(b)]]
  ELSE IF Here(b) = "[" THEN ParseArray(b)
  ELSE IF Here(b) = "{" THEN ParseObject(b)
  ELSE Fails(b)

\* After the bracket, and the blanks behind it.
Inside(b, object) ==
  IF ~CanAccess(b) THEN [b |-> Advance(b, -1), ok |-> FALSE, members |-> <<>>]
  ELSE IF Here(b) = Closes(object) THEN [b |-> b, ok |-> TRUE, members |-> <<>>]
  ELSE ParseMembers(Advance(b, -1), <<>>, object)

Listed(type, made) ==
  IF ~made.ok THEN Fails(made.b)
  ELSE [b |-> Advance([made.b EXCEPT !.depth = @ - 1], 1), ok |-> TRUE,
        item |-> [type |-> type, named |-> FALSE, members |-> made.members]]

ParseList(b, object) ==
  IF b.depth >= NestingLimit THEN Fails(b)
  ELSE Listed(Here(b),
              Inside(SkipWhitespace(Advance([b EXCEPT !.depth = @ + 1], 1)), object))

ParseArray(b) == ParseList(b, FALSE)
ParseObject(b) == ParseList(b, TRUE)

FailedList(b, before, current) ==
  [b |-> Discard(b, before, current), ok |-> FALSE, members |-> <<>>]

\* One turn of the loop has parsed a member: after is where the blanks behind it end.
Turn(after, before, item, object) ==
  IF CanAccess(after) /\ Here(after) = "," THEN ParseMembers(after, Append(before, item), object)
  ELSE IF ~CanAccess(after) \/ Here(after) # Closes(object)
    THEN FailedList(after, before, Allocations(item))
  ELSE [b |-> after, ok |-> TRUE, members |-> Append(before, item)]

Joined(before, member, object) ==
  IF ~member.ok THEN FailedList(member.b, before, Allocations(member.item))
  ELSE Turn(SkipWhitespace(member.b), before, member.item, object)

\* The loop, with the token before a member at the offset.
ParseMembers(b, before, object) ==
  IF b.left = 0 THEN FailedList(b, before, 0)
  ELSE Joined(before, ParseMember(Allocates(b), object), object)

Named(value) ==
  [value EXCEPT !.item = IF value.ok THEN [@ EXCEPT !.named = TRUE]
                         ELSE [Nothing EXCEPT !.named = TRUE]]

AfterName(colon) ==
  IF ~CanAccess(colon) \/ Here(colon) # ":" THEN Named(Fails(colon))
  ELSE Named(ParseValue(SkipWhitespace(Advance(colon, 1))))

NameAndValue(name) == IF ~name.ok THEN Fails(name.b) ELSE AfterName(SkipWhitespace(name.b))

ParseMember(b, object) ==
  IF object THEN NameAndValue(ParseString(SkipWhitespace(Advance(b, 1))))
  ELSE ParseValue(SkipWhitespace(Advance(b, 1)))

\* cJSON_ParseWithLengthOpts, for a content of this length.
Ended(value, end, requireZero) ==
  IF requireZero /\ (~CanAccess(end) \/ Here(end) # Zero)
  THEN Fails(Frees(end, Allocations(value.item)))
  ELSE [value EXCEPT !.b = end]

Parsed(value, requireZero) ==
  IF ~value.ok THEN Fails(Frees(value.b, 1))
  ELSE Ended(value, IF requireZero THEN SkipWhitespace(value.b) ELSE value.b, requireZero)

ParseWithLength(content, left, requireZero) ==
  LET start == [content |-> content, at |-> 0, depth |-> 0, live |-> 1, left |-> left - 1]
  IN IF content = <<>> \/ left = 0 THEN Fails([start EXCEPT !.live = 0])
     ELSE Parsed(ParseValue(SkipWhitespace(start)), requireZero)

\* cJSON_Parse and cJSON_ParseWithOpts: the length includes the zero.
Unlimited == 1000

Parse(content) == ParseWithLength(Append(content, Zero), Unlimited, FALSE)

ParseAll(content) == ParseWithLength(Append(content, Zero), Unlimited, TRUE)

-----------------------------------------------------------------------------
(***************************************************************************)
(* The printer.  A buffer p has a size, and is NULL (gone) after it could    *)
(* not grow; what is written beyond the offset, up to the zero, is pending    *)
(* until update_offset; overrun says that something was written past the end. *)
(***************************************************************************)

Length(token) == IF token = "S" THEN 3 ELSE IF token = "L" THEN 4 ELSE 1

\* ensure
Ensure(p, more) ==
  LET needed == more + p.offset + 1
      size == IF needed > IntMax \div 2 THEN IntMax ELSE needed * 2
  IN IF p.gone \/ (p.size > 0 /\ p.offset >= p.size) \/ more > IntMax THEN [p EXCEPT !.ok = FALSE]
     ELSE IF needed <= p.size THEN p
     ELSE IF p.noalloc \/ needed > IntMax THEN [p EXCEPT !.ok = FALSE]
     ELSE IF p.left = 0 THEN [p EXCEPT !.gone = TRUE, !.size = 0, !.ok = FALSE]
     ELSE [p EXCEPT !.size = size, !.left = @ - 1]

\* Reserves room for more bytes and writes tokens of the given length, a zero
\* after them or not; moves: the offset is advanced at once.
Emit(p, more, tokens, length, zero, moves) ==
  LET q == Ensure(p, more)
  IN IF ~p.ok \/ ~q.ok THEN [q EXCEPT !.ok = FALSE]
     ELSE [q EXCEPT !.out = @ \o tokens,
                    !.overrun = @ \/ p.offset + length + zero > q.size,
                    !.offset = IF moves THEN @ + length ELSE @,
                    !.pending = IF moves THEN 0 ELSE length]

UpdateOffset(p) == [p EXCEPT !.offset = @ + p.pending, !.pending = 0]

\* print_string_ptr, for a string without characters to escape
PrintString(p) == Emit(p, 4, <<"S">>, 3, 1, FALSE)

\* The blanks of the formatted form: one token stands for n tabs.
Tabs(n) == [i \in 1 .. n |-> " "]

RECURSIVE PrintValue(_, _), PrintArray(_, _), PrintObject(_, _)

\* print_value
PrintValue(p, item) ==
  CASE item.type = "L" -> Emit(p, 5, <<"L">>, 4, 1, FALSE)
    [] item.type = "N" -> Emit(p, 2, <<"N">>, 1, 1, TRUE)
    [] item.type = "S" -> PrintString(p)
    [] item.type = "[" -> PrintArray(p, item)
    [] item.type = "{" -> PrintObject(p, item)

\* print_array
PrintArray(p, item) ==
  LET open == Emit(p, 1, <<"[">>, 1, 0, TRUE)
      Element(q, i) ==
        LET value == UpdateOffset(PrintValue(q, item.members[i]))
            length == IF p.format THEN 2 ELSE 1
        IN IF i = Len(item.members) THEN value
           ELSE Emit(value, length + 1, <<",">> \o Tabs(length - 1), length, 1, TRUE)
      all == FoldLeft(Element, [open EXCEPT !.depth = @ + 1], [i \in DOMAIN item.members |-> i])
      end == Emit(all, 2, <<"]">>, 1, 1, FALSE)
  IN [end EXCEPT !.depth = @ - 1]

\* print_object
PrintObject(p, item) ==
  LET line == IF p.format THEN 1 ELSE 0
      open == Emit(p, line + 2, <<"{">> \o Tabs(line), line + 1, 0, TRUE)
      Member(q, i) ==
        LET comma == IF i = Len(item.members) THEN 0 ELSE 1
            tabs == IF p.format THEN Emit(q, q.depth, Tabs(q.depth), q.depth, 0, TRUE) ELSE q
            name == UpdateOffset(PrintString(tabs))
            colon == Emit(name, line + 1, <<":">> \o Tabs(line), line + 1, 0, TRUE)
            value == UpdateOffset(PrintValue(colon, item.members[i]))
        IN Emit(value, line + comma + 1, (IF comma = 1 THEN <<",">> ELSE <<>>) \o Tabs(line),
                line + comma, 1, TRUE)
      all == FoldLeft(Member, [open EXCEPT !.depth = @ + 1], [i \in DOMAIN item.members |-> i])
      indent == IF p.format THEN all.depth - 1 ELSE 0
      end == Emit(all, IF p.format THEN all.depth + 1 ELSE 2, Tabs(indent) \o <<"}">>,
                  indent + 1, 1, FALSE)
  IN [end EXCEPT !.depth = @ - 1]

PrintBuffer(size, noalloc, format, left) ==
  [size |-> size, gone |-> FALSE, offset |-> 0, pending |-> 0, depth |-> 0, out |-> <<>>,
   noalloc |-> noalloc, format |-> format, left |-> left, ok |-> TRUE, overrun |-> FALSE]

\* cJSON_PrintBuffered; the buffer is freed on failure unless it has gone already.
PrintBuffered(item, size, format, left) ==
  PrintValue(PrintBuffer(size, FALSE, format, left), item)

\* cJSON_PrintPreallocated
PrintPreallocated(item, size, format) == PrintValue(PrintBuffer(size, TRUE, format, 0), item)

\* The end of print: the buffer is cut to the text and its zero, or copied when it
\* cannot be; fits says that they are in it.
Cut(p) ==
  [ok |-> p.ok /\ p.left > 0, out |-> p.out, fits |-> p.offset + 1 <= p.size]

\* cJSON_Print, cJSON_PrintUnformatted, with a buffer that begins with size bytes
PrintItem(item, size, format, left) ==
  IF left = 0 THEN [ok |-> FALSE, out |-> <<>>, fits |-> FALSE]
  ELSE Cut(UpdateOffset(PrintValue(PrintBuffer(size, FALSE, format, left - 1), item)))

-----------------------------------------------------------------------------
(***************************************************************************)
(* Texts: any sequence of tokens up to MaxDead, and beyond it, up to MaxText, *)
(* those the parser has no objection to so far.                             *)
(***************************************************************************)

Init == text = <<>>

\* The parser wants more: it failed at the terminating zero.
Open == LET result == Parse(text) IN ~result.ok /\ result.b.at >= Len(text)

Next ==
  /\ Len(text) < MaxDead \/ (Len(text) < MaxText /\ Open)
  /\ \E token \in Tokens : text' = Append(text, token)
  /\ Len(text) >= MaxDead => Len(SelectSeq(text', LAMBDA token : token = " ")) <= 1

Spec == Init /\ [][Next]_text

-----------------------------------------------------------------------------
(***************************************************************************)
(* Properties                                                              *)
(***************************************************************************)

RECURSIVE Trim(_)
Trim(t) ==
  IF t = <<>> THEN t
  ELSE IF Head(t) = " " THEN Trim(Tail(t))
  ELSE IF Last(t) = " " THEN Trim(Front(t))
  ELSE t

\* JSON's grammar on tokens, as a set of texts: t is a value nested at most n deep.
RECURSIVE IsValue(_, _), AreMembers(_, _, _)
IsValue(t, n) ==
  \/ Len(t) = 1 /\ t[1] \in Atoms
  \/ /\ n > 0 /\ Len(t) >= 2 /\ <<t[1], Last(t)>> \in {<<"[", "]">>, <<"{", "}">>}
     /\ LET inner == Trim(SubSeq(t, 2, Len(t) - 1))
        IN inner = <<>> \/ AreMembers(inner, n - 1, t[1] = "{")

IsMember(t, n, object) ==
  IF ~object THEN IsValue(t, n)
  ELSE \E i \in DOMAIN t :
         /\ t[i] = ":" /\ Trim(SubSeq(t, 1, i - 1)) = <<"S">>
         /\ IsValue(Trim(SubSeq(t, i + 1, Len(t))), n)

AreMembers(t, n, object) ==
  \/ IsMember(t, n, object)
  \/ \E i \in DOMAIN t :
       /\ t[i] = "," /\ IsMember(Trim(SubSeq(t, 1, i - 1)), n, object)
       /\ AreMembers(Trim(SubSeq(t, i + 1, Len(t))), n, object)

\* cJSON_Parse accepts a text if and only if it begins with a value, whether it
\* ends in a zero or at its length, and with require_null_terminated if nothing
\* but blanks follow (cJSON.c:1096-1166, 1437-1708).
ParseAcceptsJson ==
  LET prefix == \E i \in DOMAIN text : IsValue(Trim(SubSeq(text, 1, i)), NestingLimit)
  IN /\ Parse(text).ok = prefix
     /\ ParseWithLength(text, Unlimited, FALSE).ok = prefix
     /\ ParseAll(text).ok = IsValue(Trim(text), NestingLimit)

\* Whichever allocation fails, and whatever is wrong with the text, a parse that
\* fails has freed what it made, and one that succeeds holds its items only
\* (cJSON.c:1125-1166, 1525-1532, 1700-1707).
ParseLeavesNothing ==
  \A left \in {0, 1, 2, 3, 4, Unlimited}, requireZero \in BOOLEAN :
    LET result == ParseWithLength(Append(text, Zero), left, requireZero)
    IN result.b.live = IF result.ok THEN Allocations(result.item) ELSE 0

Solid(t) == SelectSeq(t, LAMBDA token : token # " ")

\* The outcomes for one size: a buffer that may not grow, one that can, and one
\* for which there is no memory.
PrintsLike(free, enough, fixed, grown, failed) ==
  /\ ~fixed.overrun /\ ~grown.overrun /\ ~failed.overrun
  /\ fixed.ok => fixed.out = free.out
  /\ (grown.ok \/ enough + 1 > IntMax) /\ (grown.ok => grown.out = free.out)

\* One allocation for the buffer, one for the result.
PrintedAs(free, enough, printed, left) ==
  /\ printed.ok => left >= 2 /\ printed.out = free.out /\ printed.fits
  /\ left = Unlimited => printed.ok \/ enough + 1 > IntMax

PrintsEverywhere(item, format, free, enough) ==
  /\ free.ok /\ Solid(free.out) = Solid(text)
  /\ ParseAll(free.out).item = item
  /\ PrintPreallocated(item, enough, format).ok
  /\ \A left \in {0, 1, 2, Unlimited} :
       PrintedAs(free, enough, PrintItem(item, 2, format, left), left)
  /\ \A size \in 0 .. enough :
       PrintsLike(free, enough, PrintPreallocated(item, size, format),
                  PrintBuffered(item, size, format, Unlimited), PrintBuffered(item, size, format, 0))

\* What has been parsed prints, formatted or not, into a buffer of any size
\* without writing past its end, as a text that is the parsed one but for
\* blanks; the print fails only when memory or a buffer that may not grow is
\* too small, and five bytes more than the text and its zero are always enough
\* (cJSON.h:162, cJSON.c:437-544, 1535-1595, 1710-1822).
PrintReadsBack ==
  \A result \in {ParseAll(text)}, format \in BOOLEAN : result.ok =>
    \A free \in {UpdateOffset(PrintBuffered(result.item, Unlimited, format, 0))} :
      PrintsEverywhere(result.item, format, free, free.offset + 1 + 5)
=============================================================================
