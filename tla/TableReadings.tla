--------------------------- MODULE TableReadings ---------------------------
(***************************************************************************)
(* How the tables a device prints are read: "show datapath session table"  *)
(* (parsers/datapath.py), "show global-user-table list ip"                 *)
(* (parsers/global_users.py) and "show switches" (parsers/switches.py).    *)
(* A reply is a sequence of lines, and a line is what the parsers tell     *)
(* apart: its kind, and the row's key or the declared count where it has   *)
(* one.  A reading is the sequence of rows, or Refused (ParseError).  The  *)
(* key of a row is what the tracker decides by: the flow of a session, the *)
(* Current switch of a user, the address of a device.                      *)
(***************************************************************************)
EXTENDS Integers, Sequences, FiniteSets

CONSTANTS
    RowKeys,        \* the rows a table may hold
    Unmanaged,      \* those of "show switches" that are no managed devices
    RowLimit        \* datapath.py:35, global_users.py:53: 20,000 in the code

ASSUME TableAssumption ==
    /\ IsFiniteSet(RowKeys) /\ RowKeys \subseteq Nat \ {0}
    /\ Unmanaged \subseteq RowKeys
    /\ RowLimit \in Nat

Line(kind) == [kind |-> kind, n |-> 0]
Row(key) == [kind |-> "row", n |-> key]
Count(n) == [kind |-> "count", n |-> n]
Rows(keys) == [i \in DOMAIN keys |-> Row(keys[i])]
Refused == <<-1>>         \* no row has this key
CutKey == 0               \* of a row: its key, or what depends on it, lost its end

LinesOf(text, kind) == {i \in DOMAIN text : text[i].kind = kind}
Filled(text) == {i \in DOMAIN text : text[i].kind # "blank"}
Least(S) == CHOOSE i \in S : \A j \in S : i <= j
IsRow(line) == line.kind = "row"
Keys(lines) == [i \in DOMAIN SelectSeq(lines, IsRow) |->
                    SelectSeq(lines, IsRow)[i].n]
RejectedCommand(text) == LinesOf(text, "error") # {}

-----------------------------------------------------------------------------
(* show datapath session table *)

TitleAt(text) == Least(LinesOf(text, "title"))

\* A trailing prompt and blank lines are all that may follow the row count.
OnlyPromptAfter(text, i) ==
    LET after == {j \in Filled(text) : j > i}
    IN  after = {} \/ (Cardinality(after) = 1 /\ after \subseteq LinesOf(text, "prompt"))

CompletedByCount(text) ==
    \E c \in LinesOf(text, "count") :
        /\ LinesOf(text, "count") = {c}
        /\ c > TitleAt(text)
        /\ \A p \in LinesOf(text, "prompt") : p \notin TitleAt(text)..c
        /\ OnlyPromptAfter(text, c)
        /\ text[c].n <= RowLimit

\* Without a count, one prompt completes the table, and only as its last line.
CompletedByPrompt(text) ==
    /\ LinesOf(text, "count") = {}
    /\ \E p \in LinesOf(text, "prompt") :
           /\ LinesOf(text, "prompt") = {p}
           /\ p > TitleAt(text)
           /\ \A i \in Filled(text) : i <= p

Completed(text) == CompletedByCount(text) \/ CompletedByPrompt(text)

CompletionAt(text) ==
    Least(IF LinesOf(text, "count") # {} THEN LinesOf(text, "count") ELSE LinesOf(text, "prompt"))

\* Between title and header: blank lines, rules, and one legend of the flags
\* with its continuation lines; a blank line ends the legend.
InLegend(text, i) ==
    \E j \in LinesOf(text, "legend") :
        j < i /\ \A k \in j + 1 .. i - 1 : text[k].kind = "more"

PreambleIsKnown(text, first, last) ==
    \A i \in first..last :
        \/ text[i].kind = "blank"
        \/ text[i].kind \in {"rule", "dashes"} /\ ~InLegend(text, i)
        \/ text[i].kind = "more" /\ InLegend(text, i)
        \/ /\ text[i].kind = "legend"
           /\ \A j \in LinesOf(text, "legend") : j \in first..last => j >= i

\* The first line after the header is the rule under its columns; what follows
\* has to be rows with distinct keys.
DatapathBody(text) ==
    LET start == TitleAt(text)
        end == CompletionAt(text) - 1
        headers == {i \in LinesOf(text, "header") : i \in start..end}
        header == Least(headers)
        below == {i \in Filled(text) : i > header /\ i <= end}
        rule == Least(below)
        data == SubSeq(text, rule + 1, end)
    IN  IF /\ Cardinality(headers) = 1
           /\ PreambleIsKnown(text, start + 1, header - 1)
           /\ below # {} /\ text[rule].kind = "rule"
           /\ \A i \in DOMAIN data : data[i].kind \in {"blank", "row"}
           /\ Len(Keys(data)) <= RowLimit
           /\ \A i, j \in DOMAIN Keys(data) : Keys(data)[i] = Keys(data)[j] => i = j
        THEN Keys(data)
        ELSE Refused

DatapathReading(text) ==
    IF RejectedCommand(text) \/ LinesOf(text, "title") = {} THEN Refused
    ELSE IF ~Completed(text) \/ DatapathBody(text) = Refused THEN Refused
    ELSE IF \E c \in LinesOf(text, "count") : text[c].n # Len(DatapathBody(text))
    THEN Refused
    ELSE DatapathBody(text)

-----------------------------------------------------------------------------
(* show global-user-table list ip *)

\* Under the header: blank lines, at most one continuation of the header, then
\* the rule that gives the columns their places.
ColumnsAt(text) ==
    LET header == Least(LinesOf(text, "header"))
        rules == {i \in LinesOf(text, "rule") : i > header}
        rule == Least(rules)
        between == {i \in Filled(text) : i > header /\ i < rule}
    IN  IF /\ LinesOf(text, "header") # {} /\ rules # {}
           /\ Cardinality(between) <= 1 /\ between \subseteq LinesOf(text, "more")
           /\ \A c \in LinesOf(text, "count") : c > rule
        THEN rule
        ELSE 0

\* A count is required here, and no prompt before it; further rules are skipped.
UsersReading(text) ==
    LET rule == ColumnsAt(text)
        count == Least(LinesOf(text, "count"))
        rows == Keys(SubSeq(text, rule + 1, count - 1))
    IN  IF /\ ~RejectedCommand(text)
           /\ rule # 0 /\ Cardinality(LinesOf(text, "count")) = 1
           /\ \A i \in rule + 1 .. count - 1 : text[i].kind \in {"blank", "rule", "row"}
           /\ OnlyPromptAfter(text, count)
           /\ text[count].n <= RowLimit /\ Len(rows) = text[count].n
        THEN rows
        ELSE Refused

-----------------------------------------------------------------------------
(* show switches *)

\* Of the rows counted, those of type MD are kept.  A row that was cut off behind
\* its address has an empty Type; a header that was cut off behind "Type" makes the
\* rest of every row its Type.
ManagedDevices(header, rows) ==
    IF header.kind = "shortheader" THEN <<>>
    ELSE SelectSeq(rows, LAMBDA key : key \notin Unmanaged \cup {CutKey})

\* MISTAKE: the rows are not counted.
SwitchesUncounted(text) ==
    IF RejectedCommand(text) \/ LinesOf(text, "header") = {} \/ LinesOf(text, "count") = {}
    THEN Refused
    ELSE ManagedDevices(Line("header"), Keys(text))

\* Lines without an address are skipped, wherever they come from; all rows up
\* to a line with the count are counted, the managed devices are kept.
SwitchesReading(text) ==
    LET headers == LinesOf(text, "header") \cup LinesOf(text, "shortheader")
        header == Least(headers)
        counts == LinesOf(text, "count")
        ends == {c \in counts \cup LinesOf(text, "cutcount") : c > header}
        end == IF ends = {} THEN Len(text) ELSE Least(ends) - 1
        rows == Keys(SubSeq(text, header + 1, end))
    IN  IF RejectedCommand(text) \/ headers = {} \/ counts = {}
        THEN Refused
        ELSE IF text[Least(counts)].n # Len(rows)
        THEN Refused
        ELSE ManagedDevices(text[header], rows)

-----------------------------------------------------------------------------
(* What a line may be taken for when its end is missing.  It is no line    *)
(* of the table any more, or the same one, if what is missing is nothing   *)
(* that counts here.  A count may have lost digits, and one of "show       *)
(* switches" is recognized by its words alone.  For the rows:              *)
(*  - a session has its flow in the first fields; with at least 14 fields  *)
(*    left that fit their columns it is a row, though perhaps with another *)
(*    counter or CPU; in a capture only the last column may be shorter;    *)
(*  - a user needs address and MAC, and the Current switch has to be an    *)
(*    address: a shortened one is the address of another switch;           *)
(*  - a switch needs an address, and what is behind it may be empty.       *)

ShortenedRows(table) == IF table \in {"users", "switches"} THEN {Row(CutKey)} ELSE {}
ShortenedHeaders(table) == IF table = "switches" THEN {Line("shortheader")} ELSE {}
ShortenedCounts(n, table) ==
    {Count(m) : m \in 0 .. n - 1} \cup IF table = "switches" THEN {Line("cutcount")} ELSE {}

CutForms(line, table) ==
    {line} \cup
    CASE line.kind = "blank" -> {}
      [] line.kind = "row" -> {Line("junk")} \cup ShortenedRows(table)
      [] line.kind = "header" -> {Line("junk")} \cup ShortenedHeaders(table)
      [] line.kind = "count" -> {Line("junk")} \cup ShortenedCounts(line.n, table)
      [] OTHER -> {Line("junk")}

=============================================================================
