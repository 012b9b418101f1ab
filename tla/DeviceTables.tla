---------------------------- MODULE DeviceTables ----------------------------
(***************************************************************************)
(* A device prints one of the tables of TableReadings, and the reply       *)
(* arrives line by line.  It may be read at any time: the read may end     *)
(* early, within a line too, and in one place the reply may be damaged: a  *)
(* line is lost, doubled or cut off, or is a foreign one.  (Two damages    *)
(* may make up for each other: a lost row and a doubled one are not        *)
(* noticed by a count.)                                                    *)
(***************************************************************************)
EXTENDS TableReadings

Tables == {"datapath", "users", "switches"}

Reading(table, text) ==
    CASE table = "datapath" -> DatapathReading(text)
      [] table = "users" -> UsersReading(text)
      [] table = "switches" -> SwitchesReading(text)

\* The rows a table is to be read as.
Told(table, rows) ==
    IF table = "switches" THEN ManagedDevices(Line("header"), rows) ELSE rows

Blanks == {<<>>, <<Line("blank")>>}
Legends == {<<>>, <<Line("legend")>>, <<Line("legend"), Line("more"), Line("blank")>>}

\* What the devices print; a datapath table may do without its count.
Preambles(table) ==
    CASE table = "datapath" -> {<<Line("title"), Line("dashes")>> \o legend : legend \in Legends}
      [] table = "users" -> Blanks
      [] table = "switches" -> {<<Line("title")>>}

Headers(table) ==
    {<<Line("header")>> \o more \o <<Line("rule")>> :
        more \in IF table = "users" THEN {<<>>, <<Line("more")>>} ELSE {<<>>}}

Endings(table, n) ==
    {count \o prompt : count \in {<<Count(n)>>} \cup
                                 IF table = "datapath" THEN {<<>>} ELSE {},
                       prompt \in {<<Line("blank"), Line("prompt")>>}}

\* No two rows of the datapath table have one key.
RowLists(table) ==
    {rows \in UNION {[1..n -> RowKeys] : n \in 0 .. RowLimit + 1} :
        table = "datapath" =>
            \A i, j \in DOMAIN rows : rows[i] = rows[j] => i = j}

VARIABLES
    command,    \* the table asked for
    onDevice,   \* the rows it has on the device
    toCome,     \* the lines the device has still to print
    text,       \* the lines that have arrived
    harm,       \* the damage the reply has taken on the way
    harmedAt    \* the line of the text that is damaged, or is no part of the reply
replyVars == <<command, onDevice, toCome, text, harm, harmedAt>>

TablesInit ==
    /\ command \in Tables
    /\ onDevice \in RowLists(command)
    /\ \E preamble \in Preambles(command), header \in Headers(command),
          ending \in Endings(command, Len(onDevice)) :
           toCome = preamble \o header \o Rows(onDevice) \o ending
    /\ text = <<>>
    /\ harm = "none" /\ harmedAt = 0

Arrive ==
    /\ toCome # <<>>
    /\ text' = Append(text, Head(toCome))
    /\ toCome' = Tail(toCome)
    /\ UNCHANGED <<command, onDevice, harm, harmedAt>>

Damaged(what) ==
    /\ toCome # <<>> /\ harm = "none"
    /\ harm' = what /\ harmedAt' = Len(text) + 1
    /\ UNCHANGED <<command, onDevice>>

LineLost ==
    /\ Damaged("lost")
    /\ text' = text /\ toCome' = Tail(toCome)

LineDoubled ==
    /\ Damaged("doubled")
    /\ text' = text \o <<Head(toCome), Head(toCome)>> /\ toCome' = Tail(toCome)

LineCutOff ==
    /\ Damaged("cut")
    /\ \E cut \in CutForms(Head(toCome), command) : text' = Append(text, cut)
    /\ toCome' = Tail(toCome)

ForeignLine ==
    /\ Damaged("foreign")
    /\ \E kind \in {"junk", "blank", "error"} : text' = Append(text, Line(kind))
    /\ UNCHANGED toCome

TablesNext == Arrive \/ LineLost \/ LineDoubled \/ LineCutOff \/ ForeignLine
TablesSpec == TablesInit /\ [][TablesNext]_replyVars

-----------------------------------------------------------------------------
(* Properties *)

\* What the device printed is accepted once it has arrived, up to the row limit,
\* with any of the known preambles and endings.
\* (parsers/datapath.py:183-236, global_users.py:161-180)
WholeTablesAreRead ==
    toCome = <<>> /\ harm = "none" =>
        Reading(command, text) =
            IF Len(onDevice) > RowLimit /\ command # "switches" THEN Refused
            ELSE Told(command, onDevice)

\* A line was cut off and others came after it, as no early end of the read does.
CutWithin == harm = "cut" /\ harmedAt < Len(text)

\* What such a line may do, for the parsers compare no more than the number of rows:
\* another Current switch for one user, one managed device less, or none at all.
CutReadings ==
    CASE command = "datapath" -> {}
      [] command = "users" ->
            {[onDevice EXCEPT ![i] = CutKey] : i \in DOMAIN onDevice}
      [] command = "switches" ->
            {<<>>} \cup {Told(command, [onDevice EXCEPT ![i] = CutKey]) : i \in DOMAIN onDevice}

\* A table that has arrived whole is read, and any other reply is refused or read as
\* the rows the device has: of one that was read too early, that ends within a
\* line, lacks a line or has one twice or a foreign one, no part is taken for the
\* whole, from which the tracker would conclude that a session is gone.  A lost row
\* shows by the declared count, where there is one.  The sessions are safe from
\* lines cut off within the reply as well, the other tables are not: see CutReadings.
\* (parsers/datapath.py:84-117, 262-307; global_users.py:95-146; switches.py:37-69)
NeverMisread ==
    /\ WholeTablesAreRead
    /\ LET read == Reading(command, text)
       IN  read # Refused /\ (harm = "lost" => LinesOf(text, "count") # {})
               => read \in {Told(command, onDevice)} \cup IF CutWithin THEN CutReadings ELSE {}

=============================================================================
