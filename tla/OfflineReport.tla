--------------------------- MODULE OfflineReport ---------------------------
(***************************************************************************)
(* The offline analysis of a tech-support file (offline/io.py and          *)
(* offline/parser.py): the file is read in chunks, while another program   *)
(* may still write it, and then parsed: the sessions are required, the     *)
(* tables of users and stations are optional.  The caller may cancel at    *)
(* any time.  Lines are those of TableReadings; a line of kind "command"   *)
(* echoes a command of the capture.                                        *)
(***************************************************************************)
EXTENDS TableReadings

CONSTANTS
    FileLimit,      \* offline/models.py max_text_bytes, in lines here
    LineLimit,      \* offline/models.py max_lines
    ChunkLines,     \* offline/io.py:16, in lines here
    FlushLines,     \* the lines the writer of the file writes at a time
    RecordLimit,    \* offline/models.py max_enrichment_records
    Captures        \* the captures saved in the file, one over the other

ASSUME OfflineAssumption ==
    /\ FileLimit \in Nat /\ LineLimit \in Nat /\ RecordLimit \in Nat
    /\ ChunkLines \in Nat \ {0} /\ FlushLines \in Nat \ {0}
    /\ Len(Captures) > 0

Commands == {"sessions", "users", "stations", "other"}
Command(name) == [kind |-> "command", n |-> name]
TooMany == <<-2>>           \* OUTPUT_LIMIT_EXCEEDED, which is always raised
Absent == <<-3>>            \* no such block

Echoes(lines, name) == {i \in LinesOf(lines, "command") : lines[i].n = name}

\* The lines between a command and the next one, or the end of the file.
NextCommand(lines, i) ==
    LET later == {j \in LinesOf(lines, "command") : j > i}
    IN  IF later = {} THEN Len(lines) + 1 ELSE Least(later)
Block(lines, name) ==
    LET i == Least(Echoes(lines, name))
    IN  SubSeq(lines, i + 1, NextCommand(lines, i) - 1)
EndsByCommand(lines, name) ==
    NextCommand(lines, Least(Echoes(lines, name))) <= Len(lines)

\* A header with the rule under it, exactly once in the block.
Layouts(block) ==
    {i \in LinesOf(block, "header") : i + 1 \in LinesOf(block, "rule")}
Below(block) == SubSeq(block, Least(Layouts(block)) + 2, Len(block))

\* The rows of the sessions, whose addresses and numbers have to be in range.
Records(lines) == Keys(lines)

\* The sessions end with a count or with a prompt.
InternalReading(block) ==
    LET data == Below(block)
        ends == LinesOf(data, "count") \cup LinesOf(data, "prompt")
        end == Least(ends)
        records == Records(SubSeq(data, 1, end - 1))
    IN  IF RejectedCommand(block) \/ Cardinality(Layouts(block)) # 1 THEN Refused
        ELSE IF /\ ends # {}
                /\ \A i \in 1 .. end - 1 : data[i].kind \in {"blank", "dashes", "row"}
                /\ Len(records) <= RowLimit
                /\ IF data[end].kind = "count"
                   THEN OnlyPromptAfter(data, end) /\ data[end].n = Len(records)
                   ELSE \A i \in Filled(data) : i <= end
        THEN records
        ELSE Refused

\* An optional table ends with a count or at the next command; the first line
\* that does not fit decides between "unavailable" and "too many".
OptionalReading(block, endsByCommand) ==
    LET data == Below(block)
        before(i) == Len(Keys(SubSeq(data, 1, i - 1)))
        counted(i) == \E j \in LinesOf(data, "count") : j < i
        over(i) == /\ ~counted(i)
                   /\ \/ data[i].kind = "count" /\ data[i].n > RecordLimit
                      \/ data[i].kind # "count" /\ before(i) >= RecordLimit
        misfit(i) == over(i) \/ counted(i) \/ data[i].kind \notin {"row", "count"}
        misfits == {i \in Filled(data) : misfit(i)}
        records == Keys(data)
    IN  IF RejectedCommand(block) \/ Cardinality(Layouts(block)) # 1 THEN Refused
        ELSE IF misfits # {}
        THEN IF over(Least(misfits)) THEN TooMany ELSE Refused
        ELSE IF \/ \E c \in LinesOf(data, "count") : data[c].n # Len(records)
                \/ LinesOf(data, "count") = {} /\ ~endsByCommand
        THEN Refused
        ELSE records

FileReading(lines, name) ==
    IF Echoes(lines, name) = {} THEN Absent
    ELSE IF Cardinality(Echoes(lines, name)) > 1 THEN Refused
    ELSE IF name = "sessions" THEN InternalReading(Block(lines, name))
    ELSE OptionalReading(Block(lines, name), EndsByCommand(lines, name))

-----------------------------------------------------------------------------
VARIABLES
    onDisk,         \* the lines in the file
    toWrite,        \* the lines its writer has still to write
    stamp,          \* size and time of the file's last change
    edition,        \* the capture that is being written
    lostLine,       \* a line of a capture was lost
    payload,        \* the lines read
    opened,         \* the stamp when the file was opened
    givenUp,        \* the caller has cancelled
    step,           \* where the analysis is
    found           \* the records of the sessions, and of the optional tables
reportVars == <<onDisk, toWrite, stamp, edition, lostLine, payload,
                opened, givenUp, step, found>>

Optional == {"users", "stations"}
NotRead == [name \in Commands \ {"other"} |-> Absent]

Captured(name, records, counted, prompt) ==
    <<Command(name), Line("header"), Line("rule")>> \o Rows(records)
    \o (IF counted THEN <<Count(Len(records))>> ELSE <<>>)
    \o (IF prompt THEN <<Line("prompt")>> ELSE <<>>)

\* The texts a capture may have: with counts or without, with or without the
\* table of stations.
Texts(c) ==
    {Captured("sessions", c.sessions, counted, ~counted) \o <<Line("blank")>>
     \o Captured("users", c.users, counted, FALSE)
     \o (IF all THEN Captured("stations", c.stations, counted, FALSE) ELSE <<>>)
     \o <<Command("other")>> : counted, all \in BOOLEAN}

\* At most one line of them was lost, or cut off, when they were captured.  Of a
\* command its prompt may be left, or a shorter command.
Without(lines, i) == SubSeq(lines, 1, i - 1) \o SubSeq(lines, i + 1, Len(lines))
Cut(lines, i) ==
    {[lines EXCEPT ![i] = cut] :
        cut \in CutForms(lines[i], "capture") \cup
                IF lines[i].kind = "command" THEN {Line("prompt"), Command("other")} ELSE {}}

ReportInit ==
    /\ edition = 1
    /\ \E lines \in Texts(Captures[1]) :
           \/ toWrite = lines /\ lostLine = FALSE
           \/ \E i \in DOMAIN lines :
                  \/ toWrite = Without(lines, i) /\ lostLine = TRUE
                  \/ toWrite \in Cut(lines, i) /\ lostLine = FALSE
    /\ onDisk = <<>> /\ stamp = 0
    /\ payload = <<>> /\ opened = 0
    /\ givenUp = FALSE
    /\ step = "idle"
    /\ found = NotRead

\* The capture is written.  (What is written after the file was read changes
\* nothing any more.)
WriteCapture ==
    /\ toWrite # <<>> /\ step \in {"idle", "reading", "read"}
    /\ LET n == IF Len(toWrite) < FlushLines THEN Len(toWrite) ELSE FlushLines
       IN  /\ onDisk' = onDisk \o SubSeq(toWrite, 1, n)
           /\ toWrite' = SubSeq(toWrite, n + 1, Len(toWrite))
    /\ stamp' = stamp + 1
    /\ UNCHANGED <<edition, lostLine, payload, opened, givenUp, step, found>>

\* Another capture is saved over this one.
Rewrite ==
    /\ edition < Len(Captures) /\ step \in {"idle", "reading", "read"}
    /\ edition' = edition + 1
    /\ toWrite' \in Texts(Captures[edition + 1])
    /\ onDisk' = <<>>
    /\ stamp' = stamp + 1
    /\ UNCHANGED <<lostLine, payload, opened, givenUp, step, found>>

CancelReport ==
    /\ step \notin {"idle", "result", "refused", "cancelled"}
    /\ ~givenUp
    /\ givenUp' = TRUE
    /\ UNCHANGED <<onDisk, toWrite, stamp, edition, lostLine, payload,
                   opened, step, found>>

fileVars == <<onDisk, toWrite, stamp, edition, lostLine, givenUp>>

OpenCapture ==
    /\ step = "idle"
    /\ opened' = stamp
    /\ step' = IF Len(onDisk) > FileLimit THEN "refused" ELSE "reading"
    /\ UNCHANGED <<payload, found>> /\ UNCHANGED fileVars

\* The next chunk, up to one line beyond the limit; none is left at the end.
ReadChunk ==
    /\ step = "reading"
    /\ LET last == Len(payload) + ChunkLines
           chunk == SubSeq(onDisk, Len(payload) + 1,
                           IF last < Len(onDisk) THEN last ELSE Len(onDisk))
       IN  IF givenUp THEN step' = "cancelled" /\ UNCHANGED payload
           ELSE IF chunk = <<>> THEN step' = "read" /\ UNCHANGED payload
           ELSE /\ payload' = payload \o chunk
                /\ step' = IF Len(payload') > FileLimit THEN "refused" ELSE step
    /\ UNCHANGED <<opened, found>> /\ UNCHANGED fileVars

\* MISTAKE: nobody looks whether the file has changed.
CheckUnchangedNever ==
    /\ step = "read"
    /\ step' = IF givenUp THEN "cancelled" ELSE "lines"
    /\ UNCHANGED <<payload, opened, found>> /\ UNCHANGED fileVars

CheckUnchanged ==
    /\ step = "read"
    /\ step' = IF stamp # opened THEN "refused"
               ELSE IF givenUp THEN "cancelled" ELSE "lines"
    /\ UNCHANGED <<payload, opened, found>> /\ UNCHANGED fileVars

\* The text is split into lines.
ValidateLines ==
    /\ step = "lines"
    /\ step' = IF givenUp THEN "cancelled"
               ELSE IF Len(payload) > LineLimit THEN "refused" ELSE "sessions"
    /\ UNCHANGED <<payload, opened, found>> /\ UNCHANGED fileVars

ParseSessions ==
    /\ step = "sessions"
    /\ LET records == FileReading(payload, "sessions")
       IN  IF givenUp THEN step' = "cancelled" /\ UNCHANGED found
           ELSE IF records \in {Absent, Refused}
           THEN step' = "refused" /\ UNCHANGED found
           ELSE /\ found' = [found EXCEPT !.sessions = records]
                /\ step' = "users"
    /\ UNCHANGED <<payload, opened>> /\ UNCHANGED fileVars

\* Any error but too many records only makes an optional table unavailable;
\* so does, in parser.py, a cancellation that is noticed here.
ParseOptional(name, next) ==
    /\ step = name
    /\ LET records == IF givenUp THEN Refused ELSE FileReading(payload, name)
       IN  IF records = TooMany
           THEN step' = "refused" /\ UNCHANGED found
           ELSE /\ found' = [found EXCEPT ![name] = records]
                /\ step' = next
    /\ UNCHANGED <<payload, opened>> /\ UNCHANGED fileVars

ParseUsers == ParseOptional("users", "stations")
ParseStations == ParseOptional("stations", "result")

ReportNext ==
    \/ WriteCapture \/ Rewrite \/ CancelReport \/ OpenCapture \/ ReadChunk \/ CheckUnchanged
    \/ ValidateLines \/ ParseSessions \/ ParseUsers \/ ParseStations
ReportSpec == ReportInit /\ [][ReportNext]_reportVars

-----------------------------------------------------------------------------
(* Properties *)

\* What the analysis shows is what one capture had: a table is whole or not
\* shown, also when the file was still being written or was written over, and
\* when a line of it is damaged.  A lost row shows by the count, if there is one.
\* (offline/io.py:42-52, offline/parser.py:304-389, 476-528)
ResultIsTrue ==
    step = "result" /\ (lostLine => LinesOf(payload, "count") # {}) =>
        \E e \in 1..edition : \A name \in DOMAIN found :
            found[name] \in {Absent, Refused, Captures[e][name]}

=============================================================================
