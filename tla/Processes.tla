----------------------------- MODULE Processes -----------------------------
(***************************************************************************)
(* The process list: ps() of the cli package (the command it builds, the   *)
(* rows it splits into columns), getProcessesSnapshot() of app-util on top *)
(* of it with its filters, and gitStatusV1Sync(), which splits rows too.    *)
(* A process is a function from ps columns to numbers; `words` says into    *)
(* how many blank-separated words a column of it is printed.                *)
(***************************************************************************)
EXTENDS Integers, SequencesExt, FiniteSets

CONSTANTS Fields,     \* the fields of a ProcessInfo, each one ps column
          PsFiltered  \* those that ps itself filters: id, userName, groupName

(* "args" is put last, whatever the order asked for.                        *)
Columns(fields) ==
  LET others == SelectSeq(fields, LAMBDA f : f # "command")
  IN  IF "command" \in ToSet(fields) THEN Append(others, "command") ELSE others

(* buildPsSelectorArgs(), no filter selecting all (-A), and what the ps     *)
(* command makes of them: it lists a process that any of them selects.      *)
Selected(p, psFilters) ==
  DOMAIN psFilters = {} \/ \E f \in DOMAIN psFilters : p[f] = psFilters[f]

(* A row: the words of all columns in a row, named <<column, number>>.      *)
Row(columns, words) ==
  FlattenSeq([c \in DOMAIN columns |->
                [k \in 1..words[columns[c]] |-> <<columns[c], k>>]])

(* The n-th word is the n-th column's, and what is left over the last one's; *)
(* a column past the row's end is not set.                                  *)
ParseRow(columns, row) ==
  LET n == Len(columns)
  IN  [c \in {columns[i] : i \in 1..(IF Len(row) < n THEN Len(row) ELSE n)} |->
         LET i == CHOOSE j \in DOMAIN columns : columns[j] = c
         IN  IF i = n THEN SubSeq(row, n, Len(row)) ELSE <<row[i]>>]

(* ps(): "nothing found" is an empty list.                                  *)
Ps(table, words, psFilters, fields) ==
  LET columns == Columns(fields)
      listed == SelectSeq(table, LAMBDA p : Selected(p, psFilters))
  IN  [i \in DOMAIN listed |->
         [process |-> listed[i], row |-> ParseRow(columns, Row(columns, words))]]

-----------------------------------------------------------------------------
(* getProcessesSnapshotPosix().  filters: a function from the fields        *)
(* filtered to the value asked for (a bound's low or high end for the ranged *)
(* ones, that its process's value must be equal to here).  A command's is   *)
(* [words, letters]: the commands whose words it asks for, and those that    *)
(* pass its comparison with entry.command[0], the first letter of what is a  *)
(* string - for a longer string none, for a RegExp any.                      *)

PsFilters(filters) == [f \in DOMAIN filters \cap PsFiltered |-> filters[f]]

AdditionalFields(filters, fields) ==
  DOMAIN filters \ (PsFiltered \cup fields)

(* An entry has the fields asked for and no other, so that a filter on an   *)
(* additional one finds it undefined: parentId's then fails, the others'     *)
(* are passed over.                                                          *)
Compared(entry, f, filters) ==
  IF f = "command" THEN entry[f] \in filters[f].letters ELSE entry[f] = filters[f]

PassesDefined(entry, filters) ==    \* Variant: undefined passes no filter.
  \A f \in DOMAIN filters \ PsFiltered : f \in DOMAIN entry /\ Compared(entry, f, filters)

Passes(entry, filters) ==
  \A f \in DOMAIN filters \ PsFiltered :
    IF f \in DOMAIN entry THEN Compared(entry, f, filters) ELSE f # "parentId"

(* The filters are looked at only when some field is additional.            *)
Snapshot(table, words, filters, asked) ==
  LET fields == IF asked = {} THEN Fields ELSE asked
      more == AdditionalFields(filters, fields)
      rows == Ps(table, words, PsFilters(filters), SetToSeq(fields \cup more))
      entry(i) == [f \in fields |-> rows[i].process[f]]
      missing == \E i \in DOMAIN rows : fields \ DOMAIN rows[i].row # {}
      kept == SelectSeq([i \in DOMAIN rows |-> i],
                        LAMBDA i : more = {} \/ Passes(entry(i), filters))
  IN  [failed |-> missing, listed |-> {rows[kept[k]].process : k \in DOMAIN kept}]

-----------------------------------------------------------------------------
(* gitStatusV1Sync(): a line "XY PATH" or "XY ORIG -> PATH" split at blanks, *)
(* an unset letter of XY being a blank too.                                 *)
GitLine(x, y, path) ==
  (IF x = " " THEN <<<<>>, <<y>>>> ELSE IF y = " " THEN <<<<x>>, <<>>>>
   ELSE <<<<x, y>>>>) \o path

GitPaths(line) ==
  IF line.orig = <<>> THEN line.path ELSE line.orig \o <<<<"->">>>> \o line.path

GitEntry(line) ==
  LET at == {i \in DOMAIN line : line[i] = <<"->">>}
      arrow == CHOOSE i \in at : \A j \in at : i <= j
  IN  IF Len(line[1]) < 2 THEN [failed |-> TRUE, path |-> <<>>, origPath |-> <<>>]
      ELSE IF at # {}
      THEN [failed |-> FALSE, origPath |-> SubSeq(line, 2, arrow - 1),
            path |-> SubSeq(line, arrow, Len(line))]
      ELSE [failed |-> FALSE, origPath |-> <<>>,
            path |-> SubSeq(line, 2, Len(line) - 1)]

-----------------------------------------------------------------------------
(* A row's column gets its own words, all of them, when every column before *)
(* it is one word; the last column may be any number.                       *)
RowsSplitBy(columns, words) ==
  LET parsed == ParseRow(columns, Row(columns, words))
  IN  \A c \in DOMAIN columns :
        (\A b \in 1..(c - 1) : words[columns[b]] = 1)
          /\ (words[columns[c]] = 1 \/ c = Len(columns))
        => parsed[columns[c]] = [k \in 1..words[columns[c]] |-> <<columns[c], k>>]

(* A line of git status whose two letters are set is read, and the old path *)
(* of a rename is the one it has; a line with a blank letter may fail.  The  *)
(* path is not claimed to be the one "relative to the git root": the code    *)
(* takes its last word away, or puts the arrow of a rename before it.        *)
StatusReadBy(line, e) ==
  " " \notin {line.x, line.y} => ~e.failed /\ e.origPath = line.orig

(* A snapshot lists a process that passes every filter, and none that       *)
(* passes none of ps's; but two of ps's filters list what either selects,   *)
(* the other filters only count when one of them is on a field that was not *)
(* asked for, parentId not asked for lists nothing, and a command that was  *)
(* asked for is then compared by its first letter.                          *)
SnapshotFiltersBy(table, words, filters, asked) ==
  LET s == Snapshot(table, words, filters, asked)
      fields == IF asked = {} THEN Fields ELSE asked
      more == AdditionalFields(filters, fields)
      own == DOMAIN filters \cap PsFiltered
      byLetters == more # {} /\ "command" \in DOMAIN filters \cap fields
      matches(p, f) == IF f = "command" THEN p[f] \in filters[f].words ELSE p[f] = filters[f]
      passes(p, fs) == \A f \in fs : matches(p, f)
  IN  /\ ~s.failed
      /\ \A i \in DOMAIN table :
           /\ /\ passes(table[i], DOMAIN filters)
              /\ "parentId" \notin more
              /\ byLetters => Compared(table[i], "command", filters)
              => table[i] \in s.listed
           /\ table[i] \in s.listed =>
                /\ own # {} => \E f \in own : matches(table[i], f)
                /\ more # {} => passes(table[i], DOMAIN filters
                                   \ (PsFiltered \cup more \cup {"command"}))
                /\ byLetters => \/ matches(table[i], "command")
                                \/ Compared(table[i], "command", filters)
=============================================================================
