---------------------------- MODULE CJsonMinify ----------------------------
(***************************************************************************)
(* cJSON_Minify (Util/src/cJSON.c:2780-2884) takes blanks and comments out   *)
(* of a text, in place: what it keeps is written over what it has read.       *)
(* Characters are named for what they mean to it.                            *)
(***************************************************************************)
EXTENDS Integers, Sequences, SequencesExt

CONSTANT MaxChars  \* bound: on the length of a text

VARIABLE json

Chars == {"quote", "backslash", "slash", "star", "newline", "blank", "letter"}

Zero == "zero"

-----------------------------------------------------------------------------
\* m: the text, which ends in a zero, the place read next and the place written next.
At(m, ahead) == m.text[m.in + ahead]

Skip(m, n) == [m EXCEPT !.in = @ + n]

Copy(m) == [m EXCEPT !.text[m.out] = At(m, 0), !.in = @ + 1, !.out = @ + 1]

\* The end of the text is its zero.
SkipTo(m, ends, length) ==
  IF ends = {} THEN [m EXCEPT !.in = Len(m.text)]
  ELSE [m EXCEPT !.in = length + CHOOSE i \in ends : \A j \in ends : i <= j]

SkipOnelineComment(m) ==
  SkipTo(m, {i \in m.in + 2 .. Len(m.text) - 1 : m.text[i] = "newline"}, 1)

SkipMultilineComment(m) ==
  SkipTo(m, {i \in m.in + 2 .. Len(m.text) - 1 : m.text[i] = "star" /\ m.text[i + 1] = "slash"}, 2)

\* Mutant of MinifyString: the first quote ends the string.
RECURSIVE MinifyString_AnyQuote(_)
MinifyString_AnyQuote(m) ==
  IF At(m, 0) = Zero THEN m
  ELSE IF At(m, 0) = "quote" THEN Copy(m)
  ELSE MinifyString_AnyQuote(Copy(m))

\* After the opening quote: a quote behind a backslash does not end the string,
\* whatever is before the backslash.
RECURSIVE MinifyString(_)
MinifyString(m) ==
  IF At(m, 0) = Zero THEN m
  ELSE IF At(m, 0) = "quote" THEN Copy(m)
  ELSE IF At(m, 0) = "backslash" /\ At(m, 1) = "quote" THEN MinifyString(Copy(Copy(m)))
  ELSE MinifyString(Copy(m))

RECURSIVE MinifyFrom(_)
MinifyFrom(m) ==
  CASE At(m, 0) = Zero -> SubSeq(m.text, 1, m.out - 1)
    [] At(m, 0) \in {"blank", "newline"} -> MinifyFrom(Skip(m, 1))
    [] At(m, 0) = "slash" ->
         MinifyFrom(IF At(m, 1) = "slash" THEN SkipOnelineComment(m)
                    ELSE IF At(m, 1) = "star" THEN SkipMultilineComment(m)
                    ELSE Skip(m, 1))
    [] At(m, 0) = "quote" -> MinifyFrom(MinifyString(Copy(m)))
    [] OTHER -> MinifyFrom(Copy(m))

Minify(text) == MinifyFrom([text |-> Append(text, Zero), in |-> 1, out |-> 1])

-----------------------------------------------------------------------------
Init == json = <<>>

Next ==
  /\ Len(json) < MaxChars
  /\ \E char \in Chars : json' = Append(json, char)

Spec == Init /\ [][Next]_json

-----------------------------------------------------------------------------
\* What a reader is in after a text: outside, in a string, behind a backslash there,
\* behind a slash, in a comment, behind a star there.
ReaderAfter(state, char) ==
  CASE state = "string" ->
         IF char = "quote" THEN "outside" ELSE IF char = "backslash" THEN "escape" ELSE state
    [] state = "escape" -> "string"
    [] state = "line" -> IF char = "newline" THEN "outside" ELSE state
    [] state \in {"block", "blockstar"} ->
         IF state = "blockstar" /\ char = "slash" THEN "outside"
         ELSE IF char = "star" THEN "blockstar" ELSE "block"
    [] state = "slash" /\ char = "slash" -> "line"
    [] state = "slash" /\ char = "star" -> "block"
    [] OTHER -> IF char = "quote" THEN "string" ELSE IF char = "slash" THEN "slash" ELSE "outside"

\* The states before each character of a text, and after the last.
States(text) ==
  FoldLeft(LAMBDA states, char : Append(states, ReaderAfter(Last(states), char)),
           <<"outside">>, text)

Significant(state, char) ==
  \/ state \in {"string", "escape"}
  \/ /\ state \in {"outside", "slash"}
     /\ char \notin {"blank", "newline", "slash"} /\ ~(state = "slash" /\ char = "star")

\* Nothing that is read is written over before, and what is kept is what is in strings,
\* and outside of them neither blank nor comment (a slash that begins none is dropped,
\* too).  A string with an escaped backslash is excepted: the quote behind it is taken
\* for an escaped one (cJSON.c:2806-2826).
MinifyKeepsMeaning ==
  \A states \in {States(json)} :
    (\E i \in DOMAIN json : states[i] = "escape" /\ json[i] = "backslash")
    \/ Minify(json) =
         LET Kept(out, i) == IF Significant(states[i], json[i]) THEN Append(out, json[i]) ELSE out
         IN FoldLeft(Kept, <<>>, [i \in DOMAIN json |-> i])
=============================================================================
