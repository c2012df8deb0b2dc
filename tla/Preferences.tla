---------------------------- MODULE Preferences ----------------------------
(***************************************************************************)
(* internal/font, theme, searchmode, translationsetting and lastread: one  *)
(* row of the user in each table.  The first four read the row and save it *)
(* in one transaction, which sees the tables as they were at its read and  *)
(* whose first write fails when anything was committed since.              *)
(***************************************************************************)
EXTENDS Naturals

CONSTANTS
    Puts,       \* requests; a put writes its own name
    PrefTables, \* the tables that are put to
    Default     \* what is shown, or stands in a column, before a put

AllTables == {"Font", "Theme", "SearchMode", "TranslationSetting", "LastRead"}

ASSUME PreferenceAssumption ==
    PrefTables \subseteq AllTables /\ PrefTables # {} /\ Default \notin Puts

VARIABLES
    put,    \* the requests
    row,    \* the row of each table
    latest  \* what the puts answered with success have set, in the order of
            \* their commits; LastRead's count when they commit

prefVars == <<put, row, latest>>

Halves == {"arabic", "translation"}

\* The columns of a table.
Columns(table) == IF table = "Font" THEN Halves ELSE {"value"}

AllColumns == Halves \cup {"value"}

Empty == [c \in AllColumns |-> Default]

NoRow == [exists |-> FALSE, columns |-> Empty]

PreferencesTypeOK ==
    LET Row == [exists : BOOLEAN, columns : [AllColumns -> Puts \cup {Default}]] IN
    /\ put \in [Puts -> [pc : {"idle", "find", "save", "activity", "ok", "failed"},
                         table : PrefTables,
                         sets : SUBSET AllColumns,  \* the columns that the request gives
                         read : Row,                \* the row that was found
                         stale : BOOLEAN]]          \* was something committed since?
    /\ row \in [PrefTables -> Row]
    /\ latest \in [PrefTables -> [AllColumns -> Puts \cup {Default}]]

SomeTable == CHOOSE table \in PrefTables : TRUE

PreferencesInit ==
    /\ put = [p \in Puts |-> [pc |-> "idle", table |-> SomeTable, sets |-> {}, read |-> NoRow, stale |-> FALSE]]
    /\ row = [t \in PrefTables |-> NoRow]
    /\ latest = [t \in PrefTables |-> Empty]

-----------------------------------------------------------------------------
\* A put of the fonts gives the Arabic half, the other, both or none.
BeginPut(p) ==
    /\ put[p].pc = "idle"
    /\ \E table \in PrefTables, sets \in SUBSET AllColumns :
         /\ IF table = "Font" THEN sets \subseteq Halves ELSE sets = {"value"}
         /\ put' = [put EXCEPT ![p] = [pc |-> "find", table |-> table, sets |-> sets,
                                       read |-> NoRow, stale |-> FALSE]]
    /\ UNCHANGED <<row, latest>>

\* The row in the transaction.  An error of the query is taken for a missing
\* row.
FindRow(p) ==
    /\ put[p].pc = "find" /\ put[p].table # "LastRead"
    /\ \E read \in {row[put[p].table], NoRow} :
         put' = [put EXCEPT ![p].pc = "save", ![p].read = read]
    /\ UNCHANGED <<row, latest>>

\* Some columns take the name of the put.
SetBy(p, columns) == [c \in AllColumns |-> IF c \in put[p].sets THEN p ELSE columns[c]]

\* Variant with a bug: the row is read before the transaction.
MaySaveAnyway(p) == TRUE

\* The first write of a transaction that has read.
MaySave(p) == ~put[p].stale

\* When a request has committed, the snapshots of the others are old.
PutEnd(p, pc, commits) ==
    put' = [q \in Puts |->
      IF q = p THEN [put[q] EXCEPT !.pc = pc, !.read = NoRow, !.stale = FALSE]
      ELSE [put[q] EXCEPT !.stale = @ \/ (commits /\ put[q].pc = "save")]]

Write(p, columns) ==
    /\ row' = [row EXCEPT ![put[p].table] = [exists |-> TRUE, columns |-> columns]]
    /\ latest' = [latest EXCEPT ![put[p].table] = SetBy(p, @)]

\* Create, which the unique index refuses when there is a row, or Save of the
\* whole row, with the activity; or nothing.
SaveRow(p) ==
    /\ put[p].pc = "save"
    /\ \/ /\ MaySave(p)
          /\ ~put[p].read.exists => ~row[put[p].table].exists
          /\ Write(p, SetBy(p, put[p].read.columns))
          /\ PutEnd(p, "ok", TRUE)
       \/ PutEnd(p, "failed", FALSE) /\ UNCHANGED <<row, latest>>

\* LastRead: UpdateOrCreate writes first, in a transaction of its own that is
\* committed before the activity is created ...
UpdateOrCreate(p) ==
    /\ put[p].pc = "find" /\ put[p].table = "LastRead"
    /\ \/ Write(p, SetBy(p, row[put[p].table].columns)) /\ PutEnd(p, "activity", TRUE)
       \/ PutEnd(p, "failed", FALSE) /\ UNCHANGED <<row, latest>>

\* ... so that the answer may be 500 although the position has changed.
CreateActivity(p) ==
    /\ put[p].pc = "activity"
    /\ PutEnd(p, "ok", TRUE) \/ PutEnd(p, "failed", FALSE)
    /\ UNCHANGED <<row, latest>>

PreferencesNext ==
    \E p \in Puts :
      BeginPut(p) \/ FindRow(p) \/ SaveRow(p) \/ UpdateOrCreate(p) \/ CreateActivity(p)

PreferencesSpec == PreferencesInit /\ [][PreferencesNext]_prefVars

-----------------------------------------------------------------------------
\* GetOne: the columns of the row, or the default.
ShownOf(table) ==
    [c \in Columns(table) |-> IF row[table].exists THEN row[table].columns[c] ELSE Default]

\* The user is shown, column by column, the last put of it that was answered
\* with success: a put of one half of the fonts that races a put of the other
\* loses neither, although each saves the whole row.  A put that failed shows
\* nowhere, except of LastRead.
NothingLostInPreferences ==
    \A table \in PrefTables : \A c \in Columns(table) : ShownOf(table)[c] = latest[table][c]
=============================================================================
