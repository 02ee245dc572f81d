--------------------------- MODULE AlgorithmCalls ---------------------------
(***************************************************************************)
(* Calls of the functions that keep no state: text files, object           *)
(* algorithms, errors, configurations, process lists and conversions.  A    *)
(* call has its input, one of small sets, and comes to its result; the      *)
(* properties compare the two with what each function promises.             *)
(***************************************************************************)
EXTENDS Integers, SequencesExt

CONSTANTS
    TextLength,     \* bounds of the inputs: the words of a text file,
    FieldLength,    \* the characters of a HTTP field,
    PhraseLength    \* and those of a text that is truncated

VARIABLES input, result

algorithmVars == <<input, result>>

O == INSTANCE Traversal
M == INSTANCE Merging
F == INSTANCE Formatting
P == INSTANCE Processes WITH
    Fields <- {"id", "user", "parentId", "memory", "command"}, PsFiltered <- {"id", "user"}

NoResult == [none |-> "no result yet"]

\* Sequences of at most n elements, and functions of any part of a domain.
SeqsUpTo(S, n) == UNION {[1..k -> S] : k \in 0..n}
PartialFunctions(D, R) == UNION {[d -> R] : d \in SUBSET D}

-----------------------------------------------------------------------------
Texts == {t \in SeqsUpTo({"word", "blank"} \cup F!Eols, TextLength) :
            \A i \in 1..(Len(t) - 1) : t[i] = "blank" => t[i + 1] # "blank"}
Data == {"text", "unsupported", "undefined"}

\* A container of one or two primitives, and what the visitor does with each.
Containers == {"array", "object", "map", "set"}
Holder(kind, ids) ==
    [kind |-> kind, id |-> "top", items |-> [i \in DOMAIN ids |->
        O!Own(CASE kind = "set" -> O!Prim(ids[i])
                [] kind = "map" -> O!Prim(<<"k1", "k2">>[i])
                [] OTHER -> i,
              O!Prim(ids[i]))]]
Decisions ==
    {O!Leave, [O!Leave EXCEPT !.action = "remove"], [O!Leave EXCEPT !.control = "break"]}
        \cup {[O!Leave EXCEPT !.action = "replace", !.with = O!Prim(x)] : x \in {"a", "b", "c"}}
Visitors == {f @@ [i \in {"top", "k1", "k2", "undefined"} |-> O!Leave] :
                f \in [{"a", "b", "c"} -> Decisions]}
AllVisited == [x \in {"primitives", "objects", "arrays", "maps", "mapKeys", "sets", "plain",
                      "custom", "hidden", "symbols", "proto"} |-> TRUE]

\* Containers in containers, of the one who made them.
Payload(x) == [kind |-> "prim", items |-> x, by |-> "new"]
Built(kind, keys, values, by) ==
    {[kind |-> kind, by |-> by, items |-> [i \in DOMAIN f |-> [key |-> keys[i], val |-> f[i]]]] :
        f \in SeqsUpTo(values, Len(keys)) \ {<<>>}}
Flat(by) ==
    Built("array", <<1, 2>>, {Payload("1"), Payload("2")}, by)
        \cup Built("object", <<"a", "b">>, {Payload("1")}, by)
        \cup Built("map", <<"a">>, {Payload("1")}, by)
        \cup {[kind |-> "set", by |-> by, items |-> <<[key |-> x, val |-> Payload(x)]>>] :
                x \in {"1", "2"}}
Nested(by) == Flat(by) \cup Built("object", <<"a">>, Flat(by), by)
                 \cup Built("array", <<1>>, Flat(by), by)

\* Three errors, or three objects, that refer to one another.
SomeErrors ==
    [errors : {<<>>, <<"b", "c">>}, error : {"undefined", "b"}, suppressed : {"null", "c"},
     cause : {"a", "b", "undefined", "other"}]
LastErrors == {[errors |-> <<>>, error |-> "undefined", suppressed |-> "undefined", cause |-> x] :
                    x \in {"a", "undefined"}}
ErrorOptions == [aggregated : {TRUE}, error : {TRUE}, suppressed : BOOLEAN, cause : {TRUE},
                 skipNull : BOOLEAN, multi : BOOLEAN]
SomeObjects == [isError : BOOLEAN, refs : SeqsUpTo({"a", "b", "c"}, 2)]

\* The module of a name; a module adds its name to a list and sets a value.
Names == [n \in {<<"official", "a">>, <<"as is", "a">>, <<"old style", "b">>, <<"as is", "c">>}
            |-> n[2]]
Extends == SeqsUpTo({[scope |-> "", base |-> x, prefixed |-> FALSE] : x \in {"a", "b", "c"}}, 2)
Settings(name) ==
    [kind |-> "object", by |-> "source",
     items |-> <<[key |-> "value", val |-> Payload(name)],
                 [key |-> "list", val |-> [kind |-> "array", by |-> "source",
                                           items |-> <<[key |-> 1, val |-> Payload(name)]>>]]>>]
Module(name, extends, valid) == [own |-> Settings(name), extends |-> extends, valid |-> valid]

ProcessFields == {"id", "user", "parentId", "memory", "command"}
Table(parent, user) ==
    <<[id |-> 1, user |-> 1, parentId |-> parent, memory |-> 1, command |-> 2],
      [id |-> 2, user |-> user, parentId |-> 1, memory |-> 2, command |-> 1]>>
CommandFilters ==
    PartialFunctions({"command"}, [words : {{1}}, letters : SUBSET {1, 2}])
WordCounts == [c \in ProcessFields |-> IF c = "command" THEN 2 ELSE 1]

Thousandths == {0, 1, 5, 9, 99, 123, 499, 500, 999, 1000, 5000, 9500, 9949, 9950, 9999, 12345,
                98999, 99500, 99949, 99999, 123456, 999499, 999950, 1234567, 9999500}
                   \cup {-1, -499, -500, -999, -5000, -9950, -12345, -99500, -999950, -9999500}
EnvValues ==
    {F!EnvValue("string", is) : is \in F!Readings} \cup {F!QuotedString, F!EnvValue("null", "empty")}
        \cup {F!EnvValue("boolean", is) : is \in {"true", "false"}}
        \cup {F!EnvValue("number", is) : is \in {"small", "large", "fraction", "NaN"}}
        \cup {F!EnvValue("bigint", is) : is \in {"small", "large"}}

AlgorithmsInit ==
    /\ \/ \E kind \in F!Kinds, text \in Texts, o \in F!FormatOptions, data \in Data :
            /\ kind = "text" => data = "text"
            /\ o.charset # "buffer" \/ data # "text" => text = <<"word">>
            /\ input = [call |-> "write", kind |-> kind, data |-> data, text |-> text, o |-> o]
       \/ \E kind \in Containers, ids \in {<<"a">>, <<"a", "b">>, <<"b", "a">>}, V \in Visitors :
            input = [call |-> "traverse", value |-> Holder(kind, ids), V |-> V]
       \/ \E target \in Nested("target"), source \in Nested("source"), clone \in BOOLEAN,
             mode \in {"spread", "merge", "replace"} :
            input = [call |-> "merge", target |-> target, source |-> source,
                     o |-> [cloneSource |-> clone, arrayMergeMode |-> mode]]
       \/ \E x, y \in SomeErrors, z \in LastErrors, o \in ErrorOptions, last \in {{}, {"b"}} :
            input = [call |-> "errors", errors |-> [a |-> x, b |-> y, c |-> z], o |-> o,
                     last |-> last]
       \/ \E x, y, z \in SomeObjects :
            input = [call |-> "stringify", objects |-> [a |-> x, b |-> y, c |-> z]]
       \/ \E x, y, file \in Extends, valid \in BOOLEAN,
             z \in SeqsUpTo({[scope |-> "", base |-> "a", prefixed |-> FALSE]}, 1) :
            input = [call |-> "config", file |-> Module("file", file, TRUE),
                     world |-> [a |-> Module("a", x, TRUE), b |-> Module("b", y, TRUE),
                                c |-> Module("c", z, valid)]]
       \/ \E filters \in PartialFunctions(ProcessFields \ {"command"}, {1, 2}),
             command \in CommandFilters, asked \in SUBSET ProcessFields, parent, user \in {1, 2} :
            input = [call |-> "snapshot", table |-> Table(parent, user),
                     filters |-> filters @@ command, asked |-> asked]
       \/ \E x, y \in {" ", "M", "R"}, orig, path \in SeqsUpTo({<<"a">>, <<"b">>}, 2) :
            /\ path # <<>>
            /\ input = [call |-> "status", x |-> x, y |-> y, orig |-> orig, path |-> path]
       \/ \E text \in SeqsUpTo({"x", F!Blank}, PhraseLength), max \in 0..4,
             ellipsis \in {<<".">>, <<".", ".">>}, position \in {"start", "middle", "end"},
             cutting, strict \in BOOLEAN :
            input = [call |-> "truncate", text |-> text, max |-> max, o |->
                     [ellipsis |-> ellipsis, position |-> position, cutting |-> cutting,
                      strict |-> strict]]
       \/ \E value \in Thousandths, length \in 1..6, digits \in 0..3, fixed \in BOOLEAN,
             method \in {"round", "floor", "ceil", "trunc"} :
            input = [call |-> "toFixedLength", value |-> value, length |-> length, o |->
                     [maxFractionDigits |-> digits, fixedFractionDigits |-> fixed,
                      roundingMethod |-> method]]
       \/ \E value \in EnvValues, flavor \in F!BoolFlavors :
            input = [call |-> "env", value |-> value, flavor |-> flavor]
       \/ \E value \in SeqsUpTo({"x", F!Blank, ",", "\""}, FieldLength),
             more \in {<<"x">>, <<"x", ",", "x">>} :
            input = [call |-> "field", value |-> value, more |-> more]
    /\ result = NoResult

Called(call) == result = NoResult /\ input.call = call /\ UNCHANGED input
Returned(call) == result # NoResult /\ input.call = call

WriteFile == Called("write") /\ result' = F!Write(input.kind, input.data, input.text, input.o)
TraverseObject == Called("traverse") /\ result' = O!Traverse(input.value, input.V, AllVisited)
MergeObjects ==
    /\ Called("merge")
    /\ result' = [copied |-> M!DeepMerge(input.target, input.source, input.o),
                  merged |-> M!DeepMergeInplace(input.target, input.source, input.o)]
ShowErrors ==
    /\ Called("errors")
    /\ result' = [traversed |-> O!TraverseError(input.errors, input.o, input.last, "a"),
                  formatted |-> O!FormatError(input.errors, input.o, "a")]
StringifyObject == Called("stringify") /\ result' = O!JsonStringify(input.objects, "a")
LoadConfig ==
    /\ Called("config")
    /\ result' = M!LoadCliConfig(input.world, Names, Settings("default"), input.file)
ListProcesses ==
    /\ Called("snapshot")
    /\ result' = P!Snapshot(input.table, WordCounts, input.filters, input.asked)
ReadStatus ==
    /\ Called("status")
    /\ result' = P!GitEntry(P!GitLine(input.x, input.y, P!GitPaths(input)))
TruncateText == Called("truncate") /\ result' = [text |-> F!Truncate(input.text, input.max, input.o)]
FormatNumber ==
    /\ Called("toFixedLength")
    /\ result' = [length |-> F!ToFixedLength(input.value, input.length, input.o)]
WriteEnvironment ==
    /\ Called("env")
    /\ result' = F!StringifyEnvVariableValue(input.value, input.flavor)
SetField ==
    /\ Called("field")
    /\ result' = [values |-> F!FieldAppend(F!FieldSet(<<input.value>>), <<input.more>>)]

AlgorithmsNext ==
    \/ WriteFile \/ TraverseObject \/ MergeObjects \/ ShowErrors \/ StringifyObject
    \/ LoadConfig \/ ListProcesses \/ ReadStatus \/ TruncateText \/ FormatNumber \/ WriteEnvironment
    \/ SetField

-----------------------------------------------------------------------------
FormatKept == Returned("write") => 
    F!FormatKeptBy(input.kind, input.data, input.text, input.o, result)

NothingLost ==
    Returned("traverse") => O!NothingLostBy(input.value, input.V, AllVisited, result)

\* The second source of a merge: an object with a map, an array or an object in it.
Second == {x \in Nested("second") : x.kind = "object" /\ Len(x.items) = 1}
MergesAgree ==
    Returned("merge") => \A second \in Second :
        M!MergesAgreeBy(input.target, input.source, second, input.o)

ErrorsShown ==
    /\ Returned("errors") => /\ O!EverythingTraversed(input.errors, input.o, input.last, "a")
                             /\ O!EverythingFormatted(input.errors, input.o, "a")
    /\ Returned("stringify") => O!CyclesCut(input.objects, "a")

ConfigResolved ==
    Returned("config") => M!ConfigResolvedBy(input.world, Names, Settings("default"), input.file)

SnapshotFilters ==
    /\ Returned("snapshot") =>
        /\ P!SnapshotFiltersBy(input.table, WordCounts, input.filters, input.asked)
        /\ P!RowsSplitBy(P!Columns(SetToSeq(input.asked)), WordCounts)
    /\ Returned("status") => P!StatusReadBy(input, result)

ConversionsKeep ==
    /\ Returned("truncate") => F!TruncateFits(input.text, input.max, input.o)
    /\ Returned("toFixedLength") => F!FixedLengthKept(input.value, input.length, input.o)
    /\ Returned("env") => F!EnvRoundTrips(input.value, input.flavor)
    /\ Returned("field") => F!FieldsKeepValues(input.value, input.more)
=============================================================================
