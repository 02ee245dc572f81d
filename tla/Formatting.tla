----------------------------- MODULE Formatting -----------------------------
(***************************************************************************)
(* The conversions of misc-util between values and texts: truncate(),       *)
(* toFixedLength(), the environment variables' stringify and parse, the     *)
(* folding of HTTP field values, and the text file writers.  Short texts    *)
(* are sequences of characters, "x" standing for any that has no part in    *)
(* the algorithm.                                                           *)
(***************************************************************************)
EXTENDS Integers, SequencesExt, FiniteSetsExt

Blank == " "
Positions(text, c) == {i \in DOMAIN text : text[i] = c}

-----------------------------------------------------------------------------
(* truncate().  slice(-n) is the last n characters - all of them for 0.     *)
FirstPart(text, n) == SubSeq(text, 1, n)
LastPart(text, n) ==
  IF n = 0 THEN text ELSE SubSeq(text, Len(text) - n + 1, Len(text))

(* Without word cutting a part ends at its last blank, or starts after its  *)
(* first one, if it has any.                                                *)
KeepStart(part, cutting) ==
  IF cutting \/ Positions(part, Blank) = {} THEN part
  ELSE SubSeq(part, 1, Max(Positions(part, Blank)) - 1)
KeepEnd(part, cutting) ==
  IF cutting \/ Positions(part, Blank) = {} THEN part
  ELSE SubSeq(part, Min(Positions(part, Blank)) + 1, Len(part))

Truncate(text, maxLength, o) ==
  LET target == maxLength - Len(o.ellipsis)
      left == (target + 1) \div 2
      right == target \div 2
  IN  IF Len(text) <= maxLength THEN text
      ELSE IF target = 0 THEN o.ellipsis
      ELSE IF target < 0 THEN IF o.strict THEN <<>> ELSE o.ellipsis
      ELSE CASE o.position = "start" ->
                  o.ellipsis \o KeepEnd(LastPart(text, target), o.cutting)
             [] o.position = "middle" ->
                  KeepStart(FirstPart(text, left), o.cutting) \o o.ellipsis
                    \o KeepEnd(LastPart(text, right), o.cutting)
             [] o.position = "end" ->
                  KeepStart(FirstPart(text, target), o.cutting) \o o.ellipsis

(* A truncated text is no longer than asked, but for the two options that   *)
(* say so and for the middle of a text of which one character may stay:     *)
(* the right part is then the whole text.                                   *)
TruncateFits(text, maxLength, o) ==
  LET target == maxLength - Len(o.ellipsis)
  IN  Len(Truncate(text, maxLength, o)) > maxLength =>
        \/ target < 0 /\ ~o.strict
        \/ target = 1 /\ o.position = "middle"

-----------------------------------------------------------------------------
(* toFixedLength(), on thousandths: value / 1000 with at most 3 digits after *)
(* the dot.                                                                  *)
Digits(n) == Min({d \in 1..9 : n < 10^d})

(* Math.round, floor, ceil and trunc: \div is the floor, below zero too.    *)
Round(value, digits, method) ==
  LET unit == 10^(3 - digits)
      up == CASE method = "round" -> unit \div 2
              [] method = "ceil" -> unit - 1
              [] method = "floor" -> 0
              [] method = "trunc" -> IF value < 0 THEN unit - 1 ELSE 0
  IN  ((value + up) \div unit) * unit

Clamp(value, min, max) == Min({Max({value, min}), max})

(* value.toFixed(digits).length, of a value that has no more digits.        *)
FixedLength(value, digits) ==
  (IF value < 0 THEN 1 + Digits((-value) \div 1000) ELSE Digits(value \div 1000))
    + (IF digits = 0 THEN 0 ELSE digits + 1)

RECURSIVE Fit(_, _, _, _)
Fit(value, length, digits, method) ==
  IF digits > 0 /\ FixedLength(value, digits) > length
  THEN Fit(Round(value, digits - 1, method), length, digits - 1, method)
  ELSE [value |-> value, digits |-> digits]

(* The length of what toFixedLength() returns, padding included.            *)
ToFixedLength(value, length, o) ==
  LET m == o.maxFractionDigits
      maxValue == IF o.fixedFractionDigits
                  THEN (10^(length - (IF m = 0 THEN 0 ELSE 1)) - 1) * 10^(3 - m)
                  ELSE (10^length - 1) * 1000
      clamped == Round(Clamp(value, -maxValue, maxValue), m, o.roundingMethod)
      fit == IF o.fixedFractionDigits THEN [value |-> clamped, digits |-> m]
             ELSE Fit(clamped, length, m, o.roundingMethod)
      final == IF ~o.fixedFractionDigits /\ fit.digits = 0
                    /\ FixedLength(fit.value, 0) = length - 1
               THEN [value |-> (10^(length - 1) - 1) * 100, digits |-> 1]
               ELSE fit
  IN  Max({length, FixedLength(final.value, final.digits)})

(* The result has the length asked for, or one more for the sign of a value *)
(* below zero; it is longer where "0.9" is put in two characters, and where *)
(* the digits asked for leave no room for a figure.                         *)
FixedLengthKept(value, length, o) ==
  ToFixedLength(value, length, o) > length + (IF value < 0 THEN 1 ELSE 0) =>
    \/ ~o.fixedFractionDigits /\ length = 2
    \/ o.fixedFractionDigits /\ length < o.maxFractionDigits + 2

-----------------------------------------------------------------------------
(* Environment variables.  A value is [type, is, special]: what its text    *)
(* reads like, and whether it has a blank, a quote or an equal sign.  What   *)
(* BigInt() reads is "small" up to the safe integers and "large" beyond, and *)
(* "fraction" is what Number() alone reads.  A text is [quoted, is]: a       *)
(* string with a special character is written as JSON.                      *)
BoolFlavors == {"1/0", "true/false", "yes/no", "on/off"}
Readings == {"small", "large", "fraction", "true", "false", "nothing", "empty"}

EnvValue(type, is) == [type |-> type, is |-> is, special |-> FALSE]
QuotedString == [type |-> "string", is |-> "nothing", special |-> TRUE]

StringifyEnvVariableValue(v, flavor) ==
  [quoted |-> v.special,
   is |-> CASE v.type = "boolean" /\ flavor = "1/0" -> "small"
            [] v.is = "NaN" -> "nothing"
            [] OTHER -> v.is]

(* A number is tried first, then a boolean, then a string.                  *)
ParseEnvVariableValue(text) ==
  CASE text.quoted -> QuotedString
    [] ~text.quoted /\ text.is = "empty" -> EnvValue("null", "empty")
    [] ~text.quoted /\ text.is \in {"small", "fraction"} -> EnvValue("number", text.is)
    [] ~text.quoted /\ text.is = "large" -> EnvValue("bigint", "large")
    [] ~text.quoted /\ text.is \in {"true", "false"} -> EnvValue("boolean", text.is)
    [] ~text.quoted /\ text.is = "nothing" -> EnvValue("string", "nothing")

(* A variable is read back as the value that was written, but for a string  *)
(* that is empty or reads like another value, a boolean in the default      *)
(* flavor, NaN, and the integers: a bigint that is a safe integer is read   *)
(* as a number, a number that is none as a bigint.                          *)
EnvRoundTrips(v, flavor) ==
  \/ ParseEnvVariableValue(StringifyEnvVariableValue(v, flavor)) = v
  \/ v.type = "string" /\ ~v.special /\ v.is # "nothing"
  \/ v.type = "boolean" /\ flavor = "1/0"
  \/ v.type = "number" /\ v.is \in {"NaN", "large"}
  \/ v.type = "bigint" /\ v.is = "small"

-----------------------------------------------------------------------------
(* HTTP field values.  A quoted string stands for the date and the comment  *)
(* too: what the unfolding regular expression takes in one piece.           *)
Closing(value, i) ==
  {j \in Positions(value, "\"") : j > i}

(* Past the blanks from i on.                                               *)
RECURSIVE SkipBlanks(_, _), SkipQuoted(_, _), Separators(_, _)
SkipBlanks(value, i) ==
  IF i <= Len(value) /\ value[i] = Blank THEN SkipBlanks(value, i + 1) ELSE i

(* Past the quoted strings that begin at i, one after the other.            *)
SkipQuoted(value, i) ==
  IF i <= Len(value) /\ value[i] = "\"" /\ Closing(value, i) # {}
  THEN SkipQuoted(value, SkipBlanks(value, Min(Closing(value, i)) + 1))
  ELSE i

(* The ends of the matches of `(quoted)+.*?(,|$)|,` from i on: after quoted  *)
(* strings the next comma, wherever it is, or the end.                      *)
Separators(value, i) ==
  IF i > Len(value) THEN <<>>
  ELSE LET after == SkipQuoted(value, i)
           commas == {j \in Positions(value, ",") : j >= after}
           end == IF commas = {} THEN Len(value) + 1 ELSE Min(commas)
       IN  IF after > i THEN <<end>> \o Separators(value, end + 1)
           ELSE IF value[i] = "," THEN <<i>> \o Separators(value, i + 1)
           ELSE Separators(value, i + 1)

Trim(value) ==
  LET solid == {i \in DOMAIN value : value[i] # Blank}
  IN  IF solid = {} THEN <<>> ELSE SubSeq(value, Min(solid), Max(solid))

HttpFieldUnfoldValues(value) ==
  LET ends == <<0>> \o Separators(value, 1) \o <<Len(value) + 1>>
      part(k) == Trim(SubSeq(value, ends[k] + 1, ends[k + 1] - 1))
  IN  SelectSeq([k \in 1..(Len(ends) - 1) |-> part(k)],
                LAMBDA v : v # <<>>)

HttpFieldFoldValues(values) ==
  FlattenSeq([k \in DOMAIN values |->
                (IF k = 1 THEN <<>> ELSE <<",", Blank>>) \o values[k]])

(* HttpFields: a case-insensitive map, here for one name.  set() unfolds    *)
(* every value, of an unfoldable field too, and append() sets all again.    *)
FieldSet(values) == FlattenSeq([k \in DOMAIN values |-> HttpFieldUnfoldValues(values[k])])
FieldAppendRaw(field, values) == field \o values   \* Variant: not unfolded.
FieldAppend(field, values) == FieldSet(field \o values)
FoldedEntries(field, unfoldable) ==
  IF unfoldable THEN field ELSE <<HttpFieldFoldValues(field)>>

Even(value) == Cardinality(Positions(value, "\"")) % 2 = 0

(* What a field holds stays as it is when values are appended, and is what  *)
(* another field reads from its folded entries; a value is split at its     *)
(* commas only - but for one whose quotes do not close, and one that has a  *)
(* second quoted string, which the search for a comma runs into.            *)
FieldsKeepValues(value, more) ==
  LET field == FieldSet(<<value>>)
      quoted(i) == \E a, b \in Positions(value, "\"") :
                     /\ a < i /\ i < b /\ ~Even(SubSeq(value, 1, a))
                     /\ Even(SubSeq(value, 1, b)) /\ \A c \in (a+1)..(b-1) : value[c] # "\""
      apart == Cardinality(Positions(value, "\"")) > 2
  IN  /\ FieldAppend(field, <<more>>) = field \o FieldSet(<<more>>)
      /\ \/ FieldSet(FoldedEntries(field, FALSE)) = field
         \/ ~Even(value) \/ apart
      /\ FieldSet(FoldedEntries(field, TRUE)) = field
      /\ \/ \A i \in ToSet(Separators(value, 1)) : i > Len(value) \/ ~quoted(i)
         \/ apart

-----------------------------------------------------------------------------
(* The writers of fs/text-files and the resolution of a file's format: what *)
(* becomes of line ends and of a final newline on the way through a         *)
(* stringifier, writeTextFile() and the disk.  A text is a sequence of      *)
(* words, runs of blanks (never two in a row) and line ends; "null" is what *)
(* `data += endOfLine` appends when endOfLine is null.  The stringifiers    *)
(* and parsers are libraries: what is modelled of them is which line ends   *)
(* and final newline they were asked for.                                   *)

Eols == {"lf", "crlf"}

Kinds == {"text", "ini", "json", "json5", "jsonc", "toml", "yaml"}

(* What writeTextFile() is given; the defaults are "null" and utf-8.       *)
FormatOptions ==
  [endOfLine : Eols \cup {"null"}, finalNewline : {"yes", "no", "null"},
   trim : BOOLEAN, charset : {"buffer", "iconv", "unknown"}]

EndsLine(text) == text # <<>> /\ Last(text) \in Eols

(* Variant: without the flag m, blanks at the end only.                    *)
TrailsText(text, i) == text[i] = "blank" /\ i = Len(text)

(* /[ \t]+$/m : blanks before a line end or at the end.                    *)
IsTrailing(text, i) ==
  text[i] = "blank" /\ (i = Len(text) \/ text[i + 1] \in Eols)

TrimLines(text) ==
  LET kept == SelectSeq([i \in 1..Len(text) |-> i],
                        LAMBDA i : ~IsTrailing(text, i))
  IN  [k \in 1..Len(kept) |-> text[kept[k]]]

WithEol(text, eol) ==
  [i \in 1..Len(text) |-> IF text[i] \in Eols THEN eol ELSE text[i]]

(* The two rewritings: trimming takes the place of the line ends' one.     *)
Rewritten(text, o) ==
  IF o.trim THEN TrimLines(text)
  ELSE IF o.endOfLine # "null" THEN WithEol(text, o.endOfLine)
  ELSE text

(* finalNewline null differs from both answers of the test.                *)
WithFinalNewline(text, o) ==
  IF o.finalNewline = (IF EndsLine(text) THEN "yes" ELSE "no") THEN text
  ELSE IF o.finalNewline = "yes" THEN Append(text, o.endOfLine)
  ELSE IF EndsLine(text) THEN Front(text)
  ELSE text

Written(text) == [error |-> "none", text |-> text]
Failed(error) == [error |-> error, text |-> <<>>]

WriteTextFile(text, o) ==
  IF o.charset = "unknown" THEN Failed("unsupported charset")
  ELSE Written(WithFinalNewline(Rewritten(text, o), o))

(* The same three line endings, at the level of Node: a platform, an eol.  *)
IniStringify(text, o) ==
  WithEol(text, IF o.endOfLine = "crlf" THEN "crlf" ELSE "lf")

JsoncFormat(text, o) ==
  LET lines == IF o.endOfLine = "null" THEN text
               ELSE WithEol(text, o.endOfLine)
  IN  IF o.finalNewline = "yes" /\ ~EndsLine(lines)
      THEN Append(lines, IF o.endOfLine = "null" THEN "lf" ELSE o.endOfLine)
      ELSE lines

(* A write through the stringifier of a kind: the options it keeps for     *)
(* itself do not reach writeTextFile(), which uses its defaults for them.  *)
WriteIniFile(text, o) ==
  WriteTextFile(IniStringify(text, o), [o EXCEPT !.endOfLine = "null"])

WriteJsoncFile(text, o) ==
  WriteTextFile(JsoncFormat(text, o),
                [o EXCEPT !.endOfLine = "null", !.finalNewline = "null"])

WriteYamlFile(text, o) ==
  WriteTextFile(text, [o EXCEPT !.endOfLine = "null", !.finalNewline = "null"])

WriteJsonFile(text, o)  == WriteTextFile(text, o)
WriteJson5File(text, o) == WriteTextFile(text, o)
WriteTomlFile(text, o)  == WriteTextFile(text, o)

(* JSON5.stringify(undefined) gives undefined and no text.  Any use of it as *)
(* a text throws a TypeError; what passes by all of them is taken for no    *)
(* Buffer by Node, and for an empty text by iconv-lite.                     *)
WriteNothing(o) ==
  IF o.trim \/ o.endOfLine # "null" \/ o.finalNewline = "null" THEN Failed("type")
  ELSE CASE o.charset = "unknown" -> Failed("unsupported charset")
         [] o.charset = "buffer"  -> Failed("type")
         [] o.charset = "iconv"   -> Written(<<>>)

(* The stringifiers throw for what they do not support, and most of them    *)
(* for undefined; YAML's gives undefined, and no option but its defaults    *)
(* reaches writeTextFile(), which then throws.                              *)
Write(kind, data, text, o) ==
  IF data = "unsupported" \/ (data = "undefined" /\ kind \in {"ini", "jsonc", "toml"})
  THEN Failed("stringify")
  ELSE IF data = "undefined" /\ kind \in {"json", "yaml"} THEN Failed("type")
  ELSE IF data = "undefined" THEN WriteNothing(o)
  ELSE CASE kind = "text"  -> WriteTextFile(text, o)
         [] kind = "ini"   -> WriteIniFile(text, o)
         [] kind = "json"  -> WriteJsonFile(text, o)
         [] kind = "json5" -> WriteJson5File(text, o)
         [] kind = "jsonc" -> WriteJsoncFile(text, o)
         [] kind = "toml"  -> WriteTomlFile(text, o)
         [] kind = "yaml"  -> WriteYamlFile(text, o)

-----------------------------------------------------------------------------
(* Reading: the parser rejects what is no text of its kind.  jsonc collects *)
(* its errors, the others throw the first; each is wrapped in one.          *)

Junk(text) == \E i \in DOMAIN text : text[i] = "null"

Read(kind, text) ==
  IF Junk(text) /\ kind \in {"json", "json5", "toml"} THEN "parse error"
  ELSE IF Junk(text) /\ kind = "jsonc" THEN "aggregate of parse errors"
  ELSE IF Junk(text) THEN "other data"
  ELSE "data"

(* `/\r\n/ && !/\n(?!\r)/` wants each newline followed by a carriage        *)
(* return, the last one too: no text of these lines is found to be CRLF.    *)
EndOfLineOf(text) ==
  LET has(eol) == \E i \in DOMAIN text : text[i] = eol
      newlineBeforeOther ==
        \E i \in DOMAIN text :
          text[i] \in Eols /\ (i = Len(text) \/ text[i + 1] # "crlf")
  IN  IF has("crlf") /\ ~newlineBeforeOther THEN "crlf"
      ELSE IF has("lf") /\ ~has("crlf") THEN "lf"
      ELSE "null"

(* The format of a file read back; JSON's resolver takes any leading        *)
(* blanks for an indentation, the text one only those before a word.        *)
ResolveTextFileFormat(text) ==
  [endOfLine |-> EndOfLineOf(text),
   finalNewline |-> EndsLine(text),
   trailing |-> \E i \in DOMAIN text : IsTrailing(text, i),
   indented |-> \E i \in DOMAIN text :
                  /\ text[i] = "blank" /\ i < Len(text)
                  /\ text[i + 1] \notin Eols \cup {"blank"}
                  /\ i = 1 \/ text[i - 1] \in Eols]

ResolveJsonFileFormat(text) ==
  [ResolveTextFileFormat(text) EXCEPT
     !.indented = \E i \in DOMAIN text :
                    text[i] = "blank" /\ (i = 1 \/ text[i - 1] \in Eols)]

-----------------------------------------------------------------------------
(* What a caller may count on, and the cases where it may not.             *)

(* The options that a write of a kind cannot keep.                         *)
EolIgnored(kind, o) ==
  kind = "yaml" \/ (o.trim /\ kind \notin {"ini", "jsonc"})
NewlineIgnored(kind) == kind \in {"jsonc", "yaml"}
NullAppended(kind, o) ==
  /\ o.finalNewline = "yes" /\ ~NewlineIgnored(kind)
  /\ o.endOfLine = "null" \/ kind = "ini"

(* What is left is a final newline when an empty line ends the text.       *)
EndsEmpty(given) ==
  LET text == TrimLines(given)
  IN  Len(text) > 1 /\ {text[Len(text)], text[Len(text) - 1]} \subseteq Eols

LineEnds(text) == ToSet(text) \cap Eols

(* A text keeps the format that was asked for.  The lines end as asked, but *)
(* for EolIgnored; trailing blanks are gone; a final newline is there if it *)
(* was asked for, but for NewlineIgnored and NullAppended, and is not there *)
(* if it was not, but for one of two.  With null it should be there if the  *)
(* stringifier put it: none is added, but one is taken away (text-file.ts   *)
(* says otherwise).  The reader of the kind finds the data, but for         *)
(* NullAppended, and the resolver the line ends; but it finds none in a      *)
(* text whose lines all end in CRLF, where text-file.ts keeps null for those *)
(* that are unknown or mixed.                                               *)
TextKept(kind, given, o, text) ==
  LET format == ResolveTextFileFormat(text)
  IN  /\ o.endOfLine # "null" /\ ~EolIgnored(kind, o) => LineEnds(text) \subseteq {o.endOfLine}
      /\ o.trim => ~format.trailing
      /\ o.finalNewline = "yes" =>
           format.finalNewline \/ NewlineIgnored(kind) \/ NullAppended(kind, o)
      /\ o.finalNewline = "no" /\ format.finalNewline => EndsEmpty(given)
      /\ o.finalNewline = "null" /\ format.finalNewline => EndsLine(TrimLines(given))
      /\ Read(kind, text) # "data" => NullAppended(kind, o)
      /\ LineEnds(text) # {"crlf"} =>
           format.endOfLine = IF LineEnds(text) = {"lf"} THEN "lf" ELSE "null"

(* What has no text is refused, but for the empty file of WriteNothing.     *)
FormatKeptBy(kind, data, given, o, result) ==
  result.error = "none" =>
    IF data = "text" THEN TextKept(kind, given, o, result.text)
    ELSE kind = "json5" /\ data = "undefined" /\ o.charset = "iconv"
=============================================================================
