-------------------------------- MODULE Json --------------------------------
(***************************************************************************)
(* JSON as the agent writes and reads it: JsonBuf, the encoder that never  *)
(* allocates, and the scanner that looks at events and answers in place    *)
(* (json.rs); the parser of the configuration file, which runs on what the *)
(* scanner has let pass (config.rs).  A text is a sequence of tokens;      *)
(* numbers and strings are looked into apart, as sequences of characters.  *)
(***************************************************************************)
EXTENDS Integers, Sequences, SequencesExt, FiniteSets, FiniteSetsExt

CONSTANTS
    MaxTokens,   \* bound: length of a text
    MaxNesting,  \* 32, how deep the scanner looks
    Levels,      \* 8, how deep the encoder nests
    BufferSize   \* size of the encoder's buffer, in tokens

ASSUME JsonAssumption == {MaxTokens, MaxNesting, Levels, BufferSize} \subseteq Nat

VARIABLES
    kind,     \* "text" or "encode": who writes
    text,     \* what is written
    comma,    \* JsonBuf.need_comma, up to JsonBuf.depth
    overflowed, \* JsonErr was returned
    within,   \* ghost: the open containers, innermost last: [open, keys]
    expect,   \* ghost: what the grammar allows next
    sound,    \* ghost: every token was one the grammar allows, no key came twice
    fields    \* ghost: the keys of the outermost object

jsVars == <<kind, text, comma, overflowed, within, expect, sound, fields>>

\* Field, its wire names, and any scalar value; keys are strings too.
JsonKeys == {"a", "b"}
JsonScalars == JsonKeys \cup {"1"}
Closer(open) == IF open = "{" THEN "}" ELSE "]"
TokenAt(s, i) == IF i \in DOMAIN s THEN s[i] ELSE "end"
NoEnd == 0

(***************************************************************************)
(* The scanner: where the value that begins at i ends, or NoEnd.           *)
(***************************************************************************)
\* Mutant: the scanner looks at any depth.
AnyDepth(depth) == FALSE

\* A value this deep is not looked at, a key neither.
TooDeep(depth) == depth > MaxNesting

RECURSIVE ValueEnd(_, _, _), ItemsEnd(_, _, _, _, _)

\* value_end.
ValueEnd(s, i, depth) ==
    IF TooDeep(depth) THEN NoEnd
    ELSE IF TokenAt(s, i) \in JsonScalars THEN i + 1
    ELSE IF TokenAt(s, i) \notin {"{", "["} THEN NoEnd
    ELSE IF TokenAt(s, i + 1) = Closer(s[i]) THEN i + 2
    ELSE ItemsEnd(s, i + 1, s[i], depth, {})

\* Whether a key that is none of keys begins at j, and the colon after it.
KeyAt(s, j, depth, keys) ==
    TokenAt(s, j) \in JsonKeys \ keys /\ ~TooDeep(depth + 1) /\ TokenAt(s, j + 1) = ":"

\* Mutant: the set of the keys seen is not consulted.
KeyOrRepeated(s, j, depth, keys) ==
    TokenAt(s, j) \in JsonKeys /\ ~TooDeep(depth + 1) /\ TokenAt(s, j + 1) = ":"

\* The loop of value_end over the members or elements of a container.
ItemsEnd(s, j, open, depth, keys) ==
    LET end == ValueEnd(s, IF open = "{" THEN j + 2 ELSE j, depth + 1)
    IN  IF (open = "{" /\ ~KeyAt(s, j, depth, keys)) \/ end = NoEnd THEN NoEnd
        ELSE IF TokenAt(s, end) = Closer(open) THEN end + 1
        ELSE IF TokenAt(s, end) = "," THEN ItemsEnd(s, end + 1, open, depth, keys \cup {s[j]})
        ELSE NoEnd

\* is_valid_object.
IsValidObject(s) == TokenAt(s, 1) = "{" /\ ValueEnd(s, 1, 0) = Len(s) + 1

\* object_field: the tokens of the value under the key, <<>> for none.
RECURSIVE FieldFrom(_, _, _)
FieldFrom(s, i, key) ==
    IF TokenAt(s, i) = "}" THEN <<>>
    ELSE LET end == ValueEnd(s, i + 2, 1)
         IN  IF s[i] = key THEN SubSeq(s, i + 2, end - 1)
             ELSE FieldFrom(s, IF TokenAt(s, end) = "," THEN end + 1 ELSE end, key)
ObjectField(s, key) == IF IsValidObject(s) THEN FieldFrom(s, 2, key) ELSE <<>>

(***************************************************************************)
(* The parser of the configuration file.                                   *)
(***************************************************************************)
RECURSIVE ParseValue(_, _), ParseMembers(_, _, _), ParseElements(_, _)

\* parse_value; what nested objects and arrays hold is dropped.
ParseValue(s, i) ==
    CASE TokenAt(s, i) \in JsonScalars -> i + 1
      [] TokenAt(s, i) = "{" -> ParseMembers(s, i, {}).end
      [] TokenAt(s, i) = "[" ->
             IF TokenAt(s, i + 1) = "]" THEN i + 2 ELSE ParseElements(s, i + 1)
      [] OTHER -> NoEnd

\* parse_array, past the bracket.
ParseElements(s, j) ==
    LET end == ParseValue(s, j)
    IN  CASE end = NoEnd -> NoEnd
          [] TokenAt(s, end) = "," /\ end # NoEnd -> ParseElements(s, end + 1)
          [] TokenAt(s, end) = "]" -> end + 1
          [] OTHER -> NoEnd

\* parse_object; i is the brace or comma before the next member.
ParseMembers(s, i, keys) ==
    LET end == ParseValue(s, i + 3)
        all == keys \cup {TokenAt(s, i + 1)}
        error == [end |-> NoEnd, keys |-> {}]
    IN  IF s[i] = "{" /\ TokenAt(s, i + 1) = "}" THEN [end |-> i + 2, keys |-> {}]
        ELSE IF TokenAt(s, i + 1) \notin JsonKeys \/ TokenAt(s, i + 2) # ":" \/ end = NoEnd THEN error
        ELSE IF TokenAt(s, end) = "," THEN ParseMembers(s, end, all)
        ELSE IF TokenAt(s, end) = "}" THEN [end |-> end + 1, keys |-> all]
        ELSE error

(***************************************************************************)
(* Numbers and strings, by character.                                      *)
(***************************************************************************)
Digit == {"0", "5"}
NumberChars == Digit \cup {"-", ".", "e", "+"}

\* The first place from n on that holds no digit.
PastDigits(s, n) == Min({k \in n..(Len(s) + 1) : TokenAt(s, k) \notin Digit} \cup {Len(s) + 1})

\* Where the sign and the integer part end; the configuration's tokenize_number
\* lets digits begin with a zero.
SignEnd(s) == IF TokenAt(s, 1) = "-" THEN 2 ELSE 1
IntEnd(s) == IF TokenAt(s, SignEnd(s)) = "0" THEN SignEnd(s) + 1 ELSE PastDigits(s, SignEnd(s))

\* The number branch of value_end, past the integer part.
NumberFrom(s, int) ==
    LET frac == IF TokenAt(s, int) = "." THEN PastDigits(s, int + 1) ELSE int
        sign == IF TokenAt(s, frac + 1) \in {"+", "-"} THEN frac + 2 ELSE frac + 1
        exp == IF TokenAt(s, frac) = "e" THEN PastDigits(s, sign) ELSE frac
    IN  /\ int > SignEnd(s)
        /\ TokenAt(s, int) = "." => frac > int + 1
        /\ TokenAt(s, frac) = "e" => exp > sign
        /\ exp = Len(s) + 1

IsNumber(s) == NumberFrom(s, IntEnd(s))
IsConfigNumber(s) == NumberFrom(s, PastDigits(s, SignEnd(s)))

\* What stands between quotes.  "u01", "uD8" and "uDC" are a u and four digits:
\* of a control character, a high and a low surrogate.
StringChars == {"x", "quote", "control", "newline", "\\", "n", "u01", "uD8", "uDC"}
Undecodable == <<"undecodable">>

\* decode_json_string, from place i on.
RECURSIVE Decoded(_, _)
Decoded(s, i) ==
    LET Then(char, next) ==
            LET rest == Decoded(s, next) IN IF rest = Undecodable THEN rest ELSE <<char>> \o rest
    IN  CASE i > Len(s) -> <<>>
          [] TokenAt(s, i) \in {"quote", "control", "newline"} -> Undecodable
          [] TokenAt(s, i) \notin {"\\", "quote", "control", "newline", "end"} -> Then(s[i], i + 1)
          [] TokenAt(s, i) = "\\" ->
                CASE TokenAt(s, i + 1) \in {"quote", "\\"} -> Then(s[i + 1], i + 2)
                  [] TokenAt(s, i + 1) = "n" -> Then("newline", i + 2)
                  [] TokenAt(s, i + 1) = "u01" -> Then("control", i + 2)
                  [] SubSeq(s, i + 1, i + 3) = <<"uD8", "\\", "uDC">> -> Then("astral", i + 4)
                  [] OTHER -> Undecodable

\* push_json_str, write_json_string: a character as it is written.
Escaped(c) ==
    CASE c = "quote" -> <<"\\", "quote">>
      [] c = "\\" -> <<"\\", "\\">>
      [] c = "newline" -> <<"\\", "n">>
      [] c = "control" -> <<"\\", "u01">>
      [] OTHER -> <<c>>

(***************************************************************************)
(* The grammar, as the ghost follows it.                                   *)
(***************************************************************************)
Openers == {"{", "["}
Values == {"1", "a"} \cup Openers
Allowed ==
    CASE expect = "value" -> Values
      [] expect = "element or ]" -> Values \cup {"]"}
      [] expect = "key or }" -> JsonKeys \cup {"}"}
      [] expect = "key" -> JsonKeys
      [] expect = "colon" -> {":"}
      [] expect = "more" -> {",", Closer(Last(within).open)}
      [] expect = "nothing" -> {}

\* The ghost moves over the token t, or over the wrong one in its place.
FollowPath(t, right) ==
    LET closes == t \in {"}", "]"}
        isKey == expect \in {"key or }", "key"} /\ ~closes
        deep == ~closes /\ expect \notin {"colon", "more"} /\ Len(within) > MaxNesting
        around == IF closes THEN Front(within) ELSE within
    IN  /\ within' = (CASE closes -> around
                        [] t \in Openers -> Append(within, [open |-> t, keys |-> {}])
                        [] isKey -> [within EXCEPT ![Len(within)].keys = @ \cup {t}]
                        [] OTHER -> within)
        /\ expect' = (CASE t = "{" -> "key or }"
                        [] t = "[" -> "element or ]"
                        [] isKey -> "colon"
                        [] t = ":" -> "value"
                        [] t = "," -> IF Last(within).open = "{" THEN "key" ELSE "value"
                        [] OTHER -> IF around = <<>> THEN "nothing" ELSE "more")
        /\ sound' = (sound /\ right /\ ~deep /\ ~(isKey /\ t \in Last(within).keys))
        /\ fields' = IF isKey /\ Len(within) = 1 THEN fields \cup {t} ELSE fields

\* Somebody else writes a token the grammar allows, or once another.
WriteToken(t) ==
    /\ kind = "text"
    /\ Len(text) < MaxTokens
    /\ t \in Allowed
    /\ \/ text' = Append(text, t) /\ FollowPath(t, TRUE)
       \/ /\ sound
          /\ \E u \in {"1", ",", ":", "]", "}", "{"} \ Allowed : text' = Append(text, u)
          /\ FollowPath(t, FALSE)
    /\ UNCHANGED <<kind, comma, overflowed>>

(***************************************************************************)
(* The encoder, called by somebody who closes what he opens.               *)
(***************************************************************************)

\* Mutant: clear_comma is left out.
KeepComma(flags) == flags

\* clear_comma.
ClearComma(flags) == [flags EXCEPT ![Len(flags)] = FALSE]

\* comma: one before every item of a level but its first.
CommaFirst(flags) == IF flags # <<>> /\ Last(flags) THEN <<",">> ELSE <<>>
CommaSet(flags) == IF flags = <<>> THEN flags ELSE [flags EXCEPT ![Len(flags)] = TRUE]

\* push_bytes: what fits of the tokens; the rest is the error.  The level that
\* opens is pushed after the bytes, and fails at Levels.
Emit(tokens, flags, opens) ==
    LET fits == Min({Len(tokens), BufferSize - Len(text)})
        full == fits < Len(tokens) \/ (opens /\ Len(flags) = Levels)
    IN  /\ text' = text \o SubSeq(tokens, 1, fits)
        /\ overflowed' = full
        /\ comma' = IF full THEN comma ELSE IF opens THEN Append(flags, FALSE) ELSE flags

\* write_field_prefix.
FieldPrefix(key) == CommaFirst(comma) \o <<key, ":">>

\* str_field, u64_field, f64_field: the value calls comma again.
ScalarField(key) ==
    LET flags == ClearComma(CommaSet(comma))
    IN  Emit(FieldPrefix(key) \o CommaFirst(flags) \o <<"1">>, CommaSet(flags), FALSE)

\* bool_field does not.
BoolField(key) == Emit(FieldPrefix(key) \o <<"1">>, CommaSet(comma), FALSE)

\* begin_obj_field, begin_arr_field.
BeginField(key, open) == Emit(FieldPrefix(key) \o <<open>>, CommaSet(comma), TRUE)

\* begin_obj, begin_arr, push_json_str, push_u64, push_f64_one_decimal.
BeginItem(open) == Emit(CommaFirst(comma) \o <<open>>, CommaSet(comma), TRUE)
ScalarItem == Emit(CommaFirst(comma) \o <<"1">>, CommaSet(comma), FALSE)

\* end_obj, end_arr.
EndItem(open) == Emit(<<Closer(open)>>, IF comma = <<>> THEN comma ELSE Front(comma), FALSE)

Opened(open) == within' = Append(within, [open |-> open, keys |-> {}])
Keyed(key) == [within EXCEPT ![Len(within)].keys = @ \cup {key}]

CallEncoder ==
    /\ kind = "encode"
    /\ ~overflowed
    /\ \/ /\ within = <<>>
          /\ text = <<>>
          /\ BeginItem("{") /\ Opened("{")
          /\ UNCHANGED fields
       \/ /\ within # <<>>
          /\ Last(within).open = "["
          /\ \/ ScalarItem /\ UNCHANGED within
             \/ \E open \in Openers : BeginItem(open) /\ Opened(open)
          /\ UNCHANGED fields
       \/ /\ within # <<>>
          /\ Last(within).open = "{"
          /\ \E key \in JsonKeys \ Last(within).keys :
                /\ \/ (ScalarField(key) \/ BoolField(key)) /\ within' = Keyed(key)
                   \/ \E open \in Openers :
                         /\ BeginField(key, open)
                         /\ within' = Append(Keyed(key), [open |-> open, keys |-> {}])
                /\ fields' = IF Len(within) = 1 THEN fields \cup {key} ELSE fields
       \/ /\ within # <<>>
          /\ EndItem(Last(within).open)
          /\ within' = Front(within)
          /\ UNCHANGED fields
    /\ UNCHANGED <<kind, expect, sound>>

JsInit ==
    /\ kind \in {"text", "encode"}
    /\ text = <<>>
    /\ comma = <<>>
    /\ overflowed = FALSE
    /\ within = <<>>
    /\ expect = "value"
    /\ sound = TRUE
    /\ fields = {}

JsNext == (\E t \in JsonKeys \cup Values \cup {"}", "]", ",", ":"} : WriteToken(t)) \/ CallEncoder

JsSpec == JsInit /\ [][JsNext]_jsVars

JsTypeOK ==
    /\ kind \in {"text", "encode"}
    /\ Len(text) <= IF kind = "encode" THEN BufferSize ELSE MaxTokens
    /\ comma \in Seq(BOOLEAN) /\ Len(comma) <= Levels
    /\ sound \in BOOLEAN /\ overflowed \in BOOLEAN
    /\ fields \subseteq JsonKeys

(***************************************************************************)
(* Properties.                                                             *)
(***************************************************************************)

\* The scanner lets pass the objects of the grammar, no deeper than MaxDepth
\* and with no key twice, and nothing else.
ScannerExact ==
    kind = "text" => (IsValidObject(text) <=> sound /\ expect = "nothing" /\ TokenAt(text, 1) = "{")

\* What the scanner lets pass, both readers read to its end, and they find the
\* fields it has.
ReadersAgree ==
    IsValidObject(text) =>
        /\ ParseMembers(text, 1, {}) = [end |-> Len(text) + 1, keys |-> fields]
        /\ \A key \in JsonKeys : ObjectField(text, key) # <<>> <=> key \in fields

\* What the encoder wrote without an error, when everything is closed, the
\* agent's own scanner lets pass, with the fields that were written.
EncodedIsJson ==
    (kind = "encode" /\ ~overflowed /\ within = <<>> /\ text # <<>>) => IsValidObject(text)

\* The scanner takes the numbers of the grammar, and those the other parser
\* takes too; what a string is written as, decodes to the string.
ScalarsExact ==
    /\ \A s \in SeqOf(NumberChars, 5) :
          LET Digits(i, j) == i < j /\ \A k \in i..(j - 1) : s[k] \in Digit
              IsInt(i, j) == Digits(i, j) /\ (s[i] = "0" => j = i + 1)
              end == Len(s) + 1
          IN  /\ IsNumber(s) => IsConfigNumber(s)
              /\ IsNumber(s) <=>
                    \E i \in {1, 2}, j, k \in 1..end :
                       /\ i = 2 <=> TokenAt(s, 1) = "-"
                       /\ IsInt(i, j)
                       /\ (j = k) \/ (TokenAt(s, j) = "." /\ Digits(j + 1, k))
                       /\ k = end \/ (TokenAt(s, k) = "e" /\ \E m \in {k + 1, k + 2} :
                             (m = k + 2 <=> TokenAt(s, k + 1) \in {"+", "-"}) /\ Digits(m, end))
    /\ \A s \in SeqOf({"x", "quote", "control", "newline", "\\", "n"}, 4) :
          Decoded(FlattenSeq([i \in DOMAIN s |-> Escaped(s[i])]), 1) = s

\* The agent reads what it writes and only what is JSON, with either reader.
JsonReadsBack ==
    /\ ScannerExact
    /\ ReadersAgree
    /\ EncodedIsJson
    /\ text = <<>> => ScalarsExact

=============================================================================
