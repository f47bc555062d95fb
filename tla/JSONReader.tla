---- MODULE JSONReader ----
(***************************************************************************)
(* util_json_reader: a lexer that can be stopped after every byte, and      *)
(* HAPJSONUtilsSkipValue, which skips a whole value with it.  A text is a   *)
(* sequence of characters, strings of length one.                           *)
(***************************************************************************)
EXTENDS Naturals, SequencesExt, TLC

CONSTANT MaxDepth       \* 64 in the code: the nesting that SkipValue can follow

Digits == {"0", "1", "2", "3", "4", "5", "6", "7", "8", "9"}
Whitespace == {" ", "\t", "\n", "\r"}
AfterNumber == Whitespace \cup {"]", "}", ","}

\* util_json_reader: its state and substate; name is the literal it is reading.
Reader(state, substate) == [state |-> state, substate |-> substate]

InitialReader == Reader("READING_WHITESPACE", "NONE")

\* What a character begins: with its reader and whether it is consumed.
Begins(x) ==
    CASE x = "{" -> "BEGINNING_OBJECT"
      [] x = "}" -> "COMPLETED_OBJECT"
      [] x = "[" -> "BEGINNING_ARRAY"
      [] x = "]" -> "COMPLETED_ARRAY"
      [] x \in Digits \cup {"-"} -> "BEGINNING_NUMBER"
      [] x = "\"" -> "BEGINNING_STRING"
      [] x \in {"f", "t", "n"} -> "BEGINNING_LITERAL"
      [] x = ":" -> "AFTER_NAME_SEPARATOR"
      [] x = "," -> "AFTER_VALUE_SEPARATOR"
      [] OTHER -> "ERROR"

\* The states in which util_json_reader_read returns.
Tokens == {Begins(x) : x \in {"{", "}", "[", "]", "-", "\"", "f", ":", ",", "?"}}
            \cup {"COMPLETED_NUMBER", "COMPLETED_STRING", "COMPLETED_LITERAL"}

\* The substate of a number after the character x, "END" when x is after it.
NumberStep(substate, x) ==
    LET digit == x \in Digits
        end == IF x \in AfterNumber THEN "END" ELSE "ERROR"
        exponent == IF x \in {"e", "E"} THEN "EXPONENT_PART" ELSE end
    IN  CASE substate \in {"NONE", "AFTER_MINUS"} ->
                IF x = "0" THEN "AFTER_ZERO" ELSE IF digit THEN "INTEGER_PART"
                ELSE IF x = "-" /\ substate = "NONE" THEN "AFTER_MINUS" ELSE "ERROR"
          [] substate = "AFTER_ZERO" -> IF x = "." THEN "FRACTION_PART" ELSE exponent
          [] substate = "INTEGER_PART" ->
                IF digit THEN substate ELSE IF x = "." THEN "FRACTION_PART" ELSE exponent
          [] substate = "FRACTION_PART" ->
                IF digit THEN "FRACTION_PART_AFTER_DIGIT" ELSE "ERROR"
          [] substate = "FRACTION_PART_AFTER_DIGIT" -> IF digit THEN substate ELSE exponent
          [] substate = "EXPONENT_PART" ->
                IF digit THEN "EXPONENT_PART_AFTER_DIGIT"
                ELSE IF x \in {"-", "+"} THEN "EXPONENT_PART_AFTER_SIGN" ELSE "ERROR"
          [] substate = "EXPONENT_PART_AFTER_SIGN" ->
                IF digit THEN "EXPONENT_PART_AFTER_DIGIT" ELSE "ERROR"
          [] substate = "EXPONENT_PART_AFTER_DIGIT" -> IF digit THEN substate ELSE end

AfterNumberStep(substate) ==
    IF substate = "END" THEN <<Reader("COMPLETED_NUMBER", "NONE"), 0>>
    ELSE IF substate = "ERROR" THEN <<Reader("ERROR", "NONE"), 0>>
    ELSE <<Reader("READING_NUMBER", substate), 1>>

ReadNumber(r, x) == AfterNumberStep(NumberStep(r.substate, x))

ReadString(r, x) ==
    IF r.substate = "AFTER_ESCAPE" THEN <<Reader("READING_STRING", "NONE"), 1>>
    ELSE IF x = "\"" THEN <<Reader("COMPLETED_STRING", "NONE"), 1>>
    ELSE <<Reader("READING_STRING", IF x = "\\" THEN "AFTER_ESCAPE" ELSE "NONE"), 1>>

\* The character after a prefix of false, true or null, and the last prefixes.
LiteralNext == "f" :> "a" @@ "fa" :> "l" @@ "fal" :> "s" @@ "fals" :> "e"
               @@ "t" :> "r" @@ "tr" :> "u" @@ "tru" :> "e"
               @@ "n" :> "u" @@ "nu" :> "l" @@ "nul" :> "l"

ReadLiteral(r, x) ==
    IF LiteralNext[r.substate] # x THEN <<Reader("ERROR", "NONE"), 0>>
    ELSE IF r.substate \o x \in DOMAIN LiteralNext
    THEN <<Reader("READING_LITERAL", r.substate \o x), 1>>
    ELSE <<Reader("COMPLETED_LITERAL", "NONE"), 1>>

\* One turn of the loop of util_json_reader_read at the character x: the reader
\* and how many characters it has consumed.
ReadStep(r, x) ==
    CASE r.state = "READING_WHITESPACE" ->
            IF x \in Whitespace THEN <<r, 1>>
            ELSE <<Reader(Begins(x), "NONE"), IF x \in {"{", "}", "[", "]", ":", ","} THEN 1 ELSE 0>>
      [] r.state \in {"BEGINNING_NUMBER", "READING_NUMBER"} -> ReadNumber(r, x)
      [] r.state = "BEGINNING_STRING" -> <<Reader("READING_STRING", "NONE"), 1>>
      [] r.state = "READING_STRING" -> ReadString(r, x)
      [] r.state = "BEGINNING_LITERAL" -> <<Reader("READING_LITERAL", x), 1>>
      [] r.state = "READING_LITERAL" -> ReadLiteral(r, x)
      [] r.state = "ERROR" -> <<r, 0>>
      [] OTHER -> <<InitialReader, 0>>

\* util_json_reader_read from position n of the text: it goes on at least one
\* turn, to the next token or the end of the text.
RECURSIVE Read(_, _, _)
ReadFrom(step, text, n) ==
    IF step[1].state \in Tokens THEN [reader |-> step[1], n |-> n + step[2]]
    ELSE Read(step[1], text, n + step[2])

Read(r, text, n) ==
    IF n >= Len(text) THEN [reader |-> r, n |-> n]
    ELSE ReadFrom(ReadStep(r, text[n + 1]), text, n)

-----------------------------------------------------------------------------
(* HAPJSONUtilsSkipValue; at is the reader and the position it has come to. *)

Skipped(at, error) == [error |-> error, n |-> at.n, reader |-> at.reader]

ReadNext(at, text) == Read(at.reader, text, at.n)

\* The name of a member and the colon, read up to its value.
MemberValue(at, text) ==
    LET name == ReadNext(at, text)
        colon == ReadNext(name, text)
    IN  IF /\ at.reader.state = "BEGINNING_STRING"
           /\ name.reader.state = "COMPLETED_STRING"
           /\ colon.reader.state = "AFTER_NAME_SEPARATOR"
        THEN <<ReadNext(colon, text)>> ELSE <<>>

\* What completes a value that has one token.
Completes(state) ==
    CASE state = "BEGINNING_NUMBER" -> "COMPLETED_NUMBER"
      [] state = "BEGINNING_STRING" -> "COMPLETED_STRING"
      [] state = "BEGINNING_LITERAL" -> "COMPLETED_LITERAL"

RECURSIVE SkipValueAt(_, _, _), SkipRest(_, _, _)

Separated(state) == state = "AFTER_VALUE_SEPARATOR"

\* A value has been skipped: what follows it within what is open.
SkipRest(at, text, stack) ==
    IF stack = <<>> THEN Skipped(at, "None")
    ELSE LET next == ReadNext(at, text)
             value == ReadNext(next, text)
         IN  IF next.reader.state = "COMPLETED_" \o Last(stack)
             THEN SkipRest(next, text, Front(stack))
             ELSE IF ~Separated(next.reader.state) THEN Skipped(next, "InvalidData")
             ELSE IF Last(stack) = "ARRAY" THEN SkipValueAt(value, text, stack)
             ELSE LET member == MemberValue(value, text)
                  IN  IF member = <<>> THEN Skipped(value, "InvalidData")
                      ELSE SkipValueAt(member[1], text, stack)

\* A value begins, within the objects and arrays of the stack.
SkipValueAt(at, text, stack) ==
    LET state == at.reader.state
        next == ReadNext(at, text)
        Open(kind, inner) ==
            IF next.reader.state = "COMPLETED_" \o kind THEN SkipRest(next, text, stack)
            ELSE IF inner = <<>> THEN Skipped(next, "InvalidData")
            ELSE IF Len(stack) = MaxDepth THEN Skipped(next, "OutOfResources")
            ELSE SkipValueAt(inner[1], text, Append(stack, kind))
    IN  IF state = "BEGINNING_OBJECT" THEN Open("OBJECT", MemberValue(next, text))
        ELSE IF state = "BEGINNING_ARRAY" THEN Open("ARRAY", <<next>>)
        ELSE IF state \notin {"BEGINNING_NUMBER", "BEGINNING_STRING", "BEGINNING_LITERAL"}
                \/ next.reader.state # Completes(state)
        THEN Skipped(next, "InvalidData")
        ELSE SkipRest(next, text, stack)

SkipValue(reader, text, n) == SkipValueAt(Read(reader, text, n), text, <<>>)

-----------------------------------------------------------------------------
(* A reference: the values of JSON, without whitespace, by their grammar.    *)

RECURSIVE IsValue(_, _), IsList(_, _, _), IsValueOrMember(_, _, _)

IsLiteral(t) == t \in {<<"f", "a", "l", "s", "e">>, <<"t", "r", "u", "e">>, <<"n", "u", "l", "l">>}

IsDigits(t) == t # <<>> /\ ToSet(t) \subseteq Digits

IsInteger(t) ==
    LET u == IF t # <<>> /\ t[1] = "-" THEN Tail(t) ELSE t
    IN  IsDigits(u) /\ (u[1] = "0" => Len(u) = 1)

IsExponent(t) ==
    /\ t # <<>> /\ t[1] \in {"e", "E"}
    /\ IsDigits(IF Len(t) > 1 /\ t[2] \in {"+", "-"} THEN SubSeq(t, 3, Len(t)) ELSE Tail(t))

IsNumber(t) ==
    \E i \in 1 .. Len(t) : \E j \in i .. Len(t) :
        /\ IsInteger(SubSeq(t, 1, i))
        /\ i < j => t[i + 1] = "." /\ IsDigits(SubSeq(t, i + 2, j))
        /\ j < Len(t) => IsExponent(SubSeq(t, j + 1, Len(t)))

\* Between the quotes every quote is escaped, and the last one is not.
IsString(t) ==
    /\ Len(t) >= 2 /\ t[1] = "\"" /\ t[Len(t)] = "\""
    /\ LET IsEscaped[i \in 1 .. Len(t)] == i > 2 /\ t[i - 1] = "\\" /\ ~IsEscaped[i - 1]
       IN  \A i \in 2 .. Len(t) : t[i] = "\"" => (IsEscaped[i] <=> i < Len(t))

IsValueOrMember(t, isObject, depth) ==
    IF ~isObject THEN IsValue(t, depth)
    ELSE \E i \in 3 .. Len(t) - 1 :
            t[i] = ":" /\ IsString(SubSeq(t, 1, i - 1)) /\ IsValue(SubSeq(t, i + 1, Len(t)), depth)

\* Items, or members when it is the inside of an object, parted by commas.
IsList(t, isObject, depth) ==
    \/ IsValueOrMember(t, isObject, depth)
    \/ \E i \in 2 .. Len(t) - 1 :
          /\ t[i] = ","
          /\ IsValueOrMember(SubSeq(t, 1, i - 1), isObject, depth)
          /\ IsList(SubSeq(t, i + 1, Len(t)), isObject, depth)

IsValue(t, depth) ==
    \/ IsLiteral(t) \/ IsNumber(t) \/ IsString(t)
    \/ \E kind \in {<<"[", "]">>, <<"{", "}">>} :
          /\ Len(t) >= 2 /\ t[1] = kind[1] /\ t[Len(t)] = kind[2]
          /\ LET inside == SubSeq(t, 2, Len(t) - 1)
             IN  inside = <<>> \/ (depth > 0 /\ IsList(inside, kind[1] = "{", depth - 1))

====
