---------------------------- MODULE ResultTable ----------------------------
(***************************************************************************)
(* The table of results in ui/main_window.py.  A query's thread prepares   *)
(* the rows of its outcome, with the growth of each counter since the      *)
(* counters it was given; the window's thread shows them in chunks, one a  *)
(* timer tick, and hides those that do not pass the filter.  A filter      *)
(* dialog runs the event loop while it is open, so that ticks and outcomes *)
(* may come between its opening and the user's choice.                     *)
(*                                                                         *)
(* A row is the flow it shows, the controller that was asked, the count    *)
(* and its growth.  The filter is one column's: that of the flow.          *)
(***************************************************************************)
EXTENDS Naturals, Sequences, SequencesExt, FiniteSets

CONSTANTS
    Flows,          \* sessions, as numbers
    Asked,          \* the controllers that see each of them, as numbers
    MaxCount,       \* bound: the packets a session counts
    VisibleRows,    \* main_window.py:83: 2,000 rows are shown at most
    ChunkRows,      \* main_window.py:108: 200 rows a tick
    MaxQueryRuns,   \* bound: queries and monitoring runs started
    MaxShown        \* bound: outcomes shown

ASSUME ResultTableAssumption ==
    /\ Flows \subseteq Nat /\ IsFiniteSet(Flows)
    /\ Asked \in [Flows -> SUBSET Nat] /\ \A f \in Flows : IsFiniteSet(Asked[f])
    /\ {MaxCount, VisibleRows, MaxQueryRuns, MaxShown} \subseteq Nat
    /\ ChunkRows \in Nat \ {0}

NoGrowth == MaxCount + 1        \* shown as "-"
NoFilter == <<>>                \* a filter is <<the values that pass>>
NoRow == [flow |-> 0, at |-> 0, count |-> 0, growth |-> 0]

VARIABLES
    monitoring,     \* _monitoring
    query,          \* the query under way: its counters, and how it was called
    counters,       \* _last_counters
    rows,           \* the rows of the outcome shown, as far as they are visible
    total,          \* _result_total_rows
    pending,        \* _pending_result_rows, from _pending_result_index on
    ticking,        \* _result_render_timer
    table,          \* the rows of the table widget
    hidden,         \* the rows of it that are hidden
    filter,         \* _result_filter_values
    choices,        \* the values the open filter dialog offers
    current,        \* the selected row
    raw,            \* the row whose Raw line is shown
    caption,        \* the numbers of rows named over the table
    generation,     \* _result_render_generation
    queryRun, rowsRun   \* the run under way and that of the rows: for the properties
resultVars == <<monitoring, query, counters, rows, total, pending, ticking, table,
                hidden, filter, choices, current, raw, caption, generation,
                queryRun, rowsRun>>

NoQuery == [counters |-> <<>>, monitored |-> FALSE, state |-> "none"]

-----------------------------------------------------------------------------
(* _prepare_display_outcome                                                *)

(* What a poll reports of a flow: the counts observed at the controllers,  *)
(* or, in monitoring, the last observation of a flow that is active but    *)
(* was not observed, or was found closed.                                  *)
Reports(f, monitored) ==
    [observed : [Asked[f] -> 0..MaxCount], kept : {<<>>}, closed : {FALSE}] \cup
    IF monitored
    THEN [observed : {[c \in Asked[f] |-> 0]}, kept : Asked[f] \X (1..MaxCount),
          closed : BOOLEAN]
    ELSE {}
Outcomes(monitored) ==
    {o \in [Flows -> UNION {Reports(f, monitored) : f \in Flows}] :
        \A f \in Flows : o[f] \in Reports(f, monitored)}

Observed(o, f) == {c \in Asked[f] : o[f].observed[c] # 0}
\* The numbers of S in ascending order
Ordered(S) ==
    CHOOSE q \in [1..Cardinality(S) -> S] : \A i, j \in DOMAIN q : i < j => q[i] < q[j]

(* MISTAKE: the counters of the other controller count, too                *)
GrowthOfFlow(before, key, count) ==
    LET same == {k \in DOMAIN before : k[1] = key[1]}
    IN  IF same = {} THEN NoGrowth
        ELSE IF count < before[CHOOSE k \in same : TRUE] THEN NoGrowth
        ELSE count - before[CHOOSE k \in same : TRUE]

(* _counter_delta, for the key of a session at a controller                *)
Growth(before, key, count) ==
    IF key \notin DOMAIN before THEN NoGrowth
    ELSE IF count < before[key] THEN NoGrowth
    ELSE count - before[key]

ObservedRows(o, before, f) ==
    [i \in 1..Cardinality(Observed(o, f)) |->
        LET c == Ordered(Observed(o, f))[i]
            count == o[f].observed[c]
        IN  [flow |-> f, at |-> c, count |-> count,
             growth |-> Growth(before, <<f, c>>, count)]]

KeptRow(o, f) ==
    [flow |-> f, at |-> o[f].kept[1], count |-> o[f].kept[2], growth |-> NoGrowth]
Closed(o) == {f \in Flows : o[f].closed}
Unobserved(o) == {f \in Flows : o[f].kept # <<>>} \ Closed(o)

(* A session found closed is shown beside those that are still active, but *)
(* not when it was the last one.                                           *)
ActiveRows(o, before) ==
    FlattenSeq([i \in 1..Cardinality(Flows) |->
        LET f == Ordered(Flows)[i]
        IN  IF f \in Unobserved(o) THEN <<KeptRow(o, f)>>
            ELSE ObservedRows(o, before, f)])

ClosedRows(o) ==
    [i \in 1..Cardinality(Closed(o)) |-> KeptRow(o, Ordered(Closed(o))[i])]

Prepared(o, before) ==
    LET active == ActiveRows(o, before)
    IN  [rows |-> IF active = <<>> THEN <<>> ELSE active \o ClosedRows(o),
         counters |-> [key \in {<<active[i].flow, active[i].at>> : i \in DOMAIN active} |->
                          active[CHOOSE i \in DOMAIN active :
                                    <<active[i].flow, active[i].at>> = key].count]]

-----------------------------------------------------------------------------
(* The table                                                               *)

Passes(row, f) == f = NoFilter \/ row.flow \in f[1]

Filtered(rendered, f) ==
    {i \in DOMAIN rendered : ~Passes(rendered[i], f)}

Upto(s, n) == SubSeq(s, 1, IF n < Len(s) THEN n ELSE Len(s))
After(s, n) == SubSeq(s, n + 1, Len(s))

(* _apply_result_filters on a table of these rows                          *)
ApplyFilters(rendered, f) ==
    /\ hidden' = Filtered(rendered, f)
    /\ caption' = [visible |-> Len(rendered) - Cardinality(hidden'),
                   loaded |-> Len(rendered)]
    /\ IF current \in hidden'
       THEN current' = 0 /\ raw' = NoRow
       ELSE UNCHANGED <<current, raw>>

(* _render_next_result_chunk, while rows are left                          *)
Render ==
    /\ table' = table \o Upto(pending, ChunkRows)
    /\ pending' = After(pending, ChunkRows)
    /\ ticking' = (pending' # <<>>)
    /\ IF pending' = <<>>
       THEN ApplyFilters(table', filter)
       ELSE /\ hidden' = Filtered(table', filter)
            /\ UNCHANGED <<caption, current, raw>>

RenderTick ==
    /\ ticking
    /\ Render
    /\ UNCHANGED <<monitoring, query, counters, rows, total, filter, choices,
                   generation, queryRun, rowsRun>>

(* MISTAKE: the rows still to come stay                                    *)
ShowAfterTheRest(prepared, goesOn) ==
    LET shown == Upto(prepared.rows, VisibleRows)
        first == pending \o shown
    IN  /\ rows' = shown
        /\ total' = Len(prepared.rows)
        /\ table' = Upto(first, ChunkRows)
        /\ pending' = After(first, ChunkRows)
        /\ ticking' = (pending' # <<>>)
        /\ hidden' = Filtered(table', filter)
        /\ caption' = [visible |-> Len(table') - Cardinality(hidden'),
                       loaded |-> Len(table')]
        /\ current' = 0 /\ raw' = NoRow
        /\ counters' = IF goesOn THEN prepared.counters ELSE <<>>
        /\ generation' = generation + 1
        /\ rowsRun' = queryRun

(* _display_outcome: the table is emptied and its first chunk shown.       *)
(* Without a filter the caption counts the rows that are still to come.    *)
ShowOutcome(prepared, goesOn) ==
    LET shown == Upto(prepared.rows, VisibleRows)
    IN  /\ rows' = shown
        /\ total' = Len(prepared.rows)
        /\ table' = Upto(shown, ChunkRows)
        /\ pending' = After(shown, ChunkRows)
        /\ ticking' = (pending' # <<>>)
        /\ hidden' = Filtered(table', filter)
        /\ caption' = IF filter = NoFilter
                      THEN [visible |-> Len(shown), loaded |-> Len(table')]
                      ELSE [visible |-> Len(table') - Cardinality(hidden'),
                            loaded |-> Len(table')]
        /\ current' = 0 /\ raw' = NoRow
        /\ counters' = IF goesOn THEN prepared.counters ELSE <<>>
        /\ generation' = generation + 1
        /\ rowsRun' = queryRun

tableVars == <<rows, total, pending, ticking, table, generation, rowsRun>>
-----------------------------------------------------------------------------
(* Queries                                                                 *)

ResultInit ==
    /\ monitoring = FALSE /\ query = NoQuery /\ counters = <<>>
    /\ rows = <<>> /\ total = 0 /\ pending = <<>> /\ ticking = FALSE
    /\ table = <<>> /\ hidden = {} /\ filter = NoFilter /\ choices = {}
    /\ current = 0 /\ raw = NoRow /\ caption = [visible |-> 0, loaded |-> 0]
    /\ generation = 0 /\ queryRun = 0 /\ rowsRun = 0

NoDialog == choices = {}

(* _start_query by the user, or _start_monitoring and its first query      *)
StartQueryRun(monitored) ==
    /\ query.state = "none" /\ ~monitoring /\ NoDialog /\ queryRun < MaxQueryRuns
    /\ queryRun' = queryRun + 1
    /\ monitoring' = monitored
    /\ counters' = <<>>
    /\ query' = [counters |-> <<>>, monitored |-> monitored, state |-> "working"]
    /\ filter' = NoFilter
    /\ ApplyFilters(table, NoFilter)
    /\ UNCHANGED <<choices>> /\ UNCHANGED tableVars

(* The monitoring timer                                                    *)
StartPoll ==
    /\ query.state = "none" /\ monitoring
    /\ query' = [counters |-> counters, monitored |-> TRUE, state |-> "working"]
    /\ UNCHANGED <<monitoring, counters, hidden, filter, choices, current, raw,
                   caption, queryRun>>
    /\ UNCHANGED tableVars

(* _task_succeeded and _query_finished.  An outcome of a query that was    *)
(* cancelled meanwhile is not shown; one with a fatal diagnostic ends the  *)
(* monitoring.                                                             *)
Succeed ==
    /\ query.state # "none"
    /\ query' = NoQuery
    /\ IF query.state # "working"
       THEN /\ UNCHANGED <<monitoring, counters, hidden, current, raw, caption>>
            /\ UNCHANGED tableVars
       ELSE /\ generation < MaxShown
            /\ \E o \in Outcomes(query.monitored), fatal \in BOOLEAN :
                   /\ monitoring' = (monitoring /\ ~fatal)
                   /\ ShowOutcome(Prepared(o, query.counters), monitoring')
    /\ UNCHANGED <<filter, choices, queryRun>>

(* _display_failure: what was shown stays, and monitoring ends, unless the *)
(* failure is that of a poll that a network change cancelled.              *)
Fail ==
    /\ query.state # "none"
    /\ query' = NoQuery
    /\ IF query.state = "interrupted"
       THEN UNCHANGED <<monitoring, counters>>
       ELSE monitoring' = FALSE /\ counters' = <<>>
    /\ UNCHANGED <<hidden, filter, choices, current, raw, caption, queryRun>>
    /\ UNCHANGED tableVars

(* _cancel_active_work by the user                                         *)
StopMonitoring ==
    /\ NoDialog
    /\ monitoring \/ query.state = "working"
    /\ monitoring' = FALSE
    /\ counters' = <<>>
    /\ query' = [query EXCEPT !.state = IF @ = "none" THEN "none" ELSE "cancelled"]
    /\ UNCHANGED <<hidden, filter, choices, current, raw, caption, queryRun>>
    /\ UNCHANGED tableVars

(* _runtime_discontinuity: the poll is cancelled, monitoring goes on.      *)
NetworkChanged ==
    /\ monitoring /\ query.state = "working"
    /\ query' = [query EXCEPT !.state = "interrupted"]
    /\ UNCHANGED <<monitoring, counters, hidden, filter, choices, current, raw,
                   caption, queryRun>>
    /\ UNCHANGED tableVars

-----------------------------------------------------------------------------
(* The user                                                                *)

userUnchanged == <<monitoring, query, counters, queryRun>>

(* _show_selected_raw                                                      *)
Select ==
    /\ NoDialog
    /\ \E i \in DOMAIN table \ hidden : current' = i /\ raw' = table[i]
    /\ UNCHANGED <<hidden, filter, choices, caption>>
    /\ UNCHANGED userUnchanged /\ UNCHANGED tableVars

(* _filter_candidates: the values in the table, hidden ones too, and those *)
(* of the filter.                                                          *)
Candidates ==
    {table[i].flow : i \in DOMAIN table} \cup
    (IF filter = NoFilter THEN {} ELSE filter[1])

OpenFilterDialog ==
    /\ NoDialog /\ Candidates # {}
    /\ choices' = Candidates
    /\ UNCHANGED <<hidden, filter, current, raw, caption>>
    /\ UNCHANGED userUnchanged /\ UNCHANGED tableVars

(* _open_result_filter_dialog after exec(): all the values offered mean    *)
(* no filter.                                                              *)
ChooseFilter ==
    /\ ~NoDialog
    /\ choices' = {}
    /\ \/ UNCHANGED <<hidden, filter, current, raw, caption>>
       \/ \E chosen \in SUBSET choices :
              /\ filter' = IF chosen = choices THEN NoFilter ELSE <<chosen>>
              /\ ApplyFilters(table, filter')
    /\ UNCHANGED userUnchanged /\ UNCHANGED tableVars

ClearFilters ==
    /\ NoDialog /\ filter # NoFilter
    /\ filter' = NoFilter
    /\ ApplyFilters(table, NoFilter)
    /\ UNCHANGED choices
    /\ UNCHANGED userUnchanged /\ UNCHANGED tableVars

ResultNext ==
    \/ RenderTick \/ Succeed \/ Fail \/ StartPoll \/ StopMonitoring \/ NetworkChanged
    \/ \E monitored \in BOOLEAN : StartQueryRun(monitored)
    \/ Select \/ OpenFilterDialog \/ ChooseFilter \/ ClearFilters
ResultSpec == ResultInit /\ [][ResultNext]_resultVars

-----------------------------------------------------------------------------
(* Properties                                                              *)

(* The rows in the table and those still to come are the rows of one       *)
(* outcome, the last one shown, in their order; the hidden ones are those  *)
(* that do not pass the filter, in every chunk; and the Raw line shown is  *)
(* that of a visible row.  Once all chunks are there, the caption counts   *)
(* what is visible.                                                        *)
(* (main_window.py:1337-1367, 2458-2483, 2545-2571, 2639-2651)             *)
TableIsOneOutcome ==
    /\ table \o pending = rows
    /\ hidden = Filtered(table, filter)
    /\ raw = NoRow \/ (current \in DOMAIN table \ hidden /\ raw = table[current])
    /\ pending = <<>> /\ generation > 0 =>
           caption = [visible |-> Len(table) - Cardinality(hidden), loaded |-> Len(table)]

(* The growth shown beside a count is that since the row the user saw      *)
(* before, in the same monitoring run: no poll that was cancelled, failed  *)
(* or belonged to an earlier run comes between.                            *)
(* (main_window.py:2309, 2335, 2367, 2474, 3849-3881)                      *)
GrowthIsSinceShown ==
    [][generation' # generation =>
          \A i \in DOMAIN rows' :
              rows'[i].growth # NoGrowth =>
                  /\ rows'[i].growth >= 0
                  /\ rowsRun' = rowsRun
                  /\ \/ total > Len(rows)
                     \/ \E j \in DOMAIN rows :
                            /\ rows[j].flow = rows'[i].flow
                            /\ rows[j].at = rows'[i].at
                            /\ rows[j].count + rows'[i].growth = rows'[i].count
      ]_resultVars

=============================================================================
