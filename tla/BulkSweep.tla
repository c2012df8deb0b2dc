----------------------------- MODULE BulkSweep -----------------------------
(***************************************************************************)
(* The cron endpoints of internal/opencode: TranslateHadiths, the bulk     *)
(* hadith and title translations and SummarizeHadiths, each running while  *)
(* other sweeps and the administration of internal/hadithadmin write the   *)
(* same rows.  One step is one query, one AI call or one write.            *)
(*                                                                         *)
(* One target column of one kitab is modelled (English, say).  A "hadith"  *)
(* sweep writes it in the hadith table, the title sweeps in the Kitab and  *)
(* Bab tables, and "summary" the same language in the summary table.       *)
(***************************************************************************)
EXTENDS Integers, Sequences, FiniteSets

CONSTANTS
    Sweeps,     \* sweeps running at the same time
    Ids,        \* row ids (Nomer, VMember, VMemberBab) of every table
    Calls,      \* the requests cron sends, see Call
    MaxTries,   \* translateMaxRetries
    NoCall      \* the call of a sweep that does not run

ASSUME SweepAssumption ==
    /\ Ids \subseteq Nat
    /\ IsFiniteSet(Ids)
    /\ MaxTries \in Nat \ {0}

VARIABLES
    cell,       \* the target column of every row
    run,        \* the local variables of every sweep
    wasEmpty,   \* history: rows a sweep is for that were without a text at some
                \* time since it began
    deleted     \* history: hadiths that were ever deleted

vars == <<cell, run, wasEmpty, deleted>>

Tables == {"hadith", "kitab", "bab", "summary"}

Rows == Tables \X Ids

\* "empty" is NULL or ''; "ai" was written by a sweep, "human" was there
\* before or came from an admin; "absent": there is no such row.
Texts == {"ai", "human"}

Cells == {"absent", "empty"} \cup Texts

\* tables are swept one after the other.  each: one AI call per row instead of
\* one per batch.  limit: ?limit=, the size of a batch.  all: ?all=1.
\* max: ?maxBatches=, 0 for none.
Call == [tables : {<<"hadith">>, <<"kitab">>, <<"bab">>, <<"kitab", "bab">>, <<"summary">>},
         each : BOOLEAN, limit : Nat \ {0}, all : BOOLEAN, max : Nat]

ASSUME CallsAssumption == Calls \subseteq Call /\ NoCall \notin Calls

Steps == {"idle", "query", "ask", "save", "done", "error"}

Run == [pc : Steps, call : Calls \cup {NoCall}, at : 1..2, attempted : SUBSET Rows, batches : Nat,
        queue : SUBSET Ids, tries : 1..MaxTries,
        processed : Nat, updated : Nat, failed : SUBSET Rows]

Idle == [pc |-> "idle", call |-> NoCall, at |-> 1, attempted |-> {}, batches |-> 0,
         queue |-> {}, tries |-> 1, processed |-> 0, updated |-> 0, failed |-> {}]

TypeOK ==
    /\ cell \in [Rows -> Cells]
    /\ run \in [Sweeps -> Run]
    /\ wasEmpty \in [Sweeps -> SUBSET Rows]
    /\ deleted \subseteq Ids

\* A kitab as it is before any sweep: untranslated or translated hadiths and
\* titles, and no summaries.
Init ==
    /\ \E hadiths \in [Ids -> Cells \ {"ai"}], titles \in [{"kitab", "bab"} \X Ids -> Cells \ {"ai"}] :
         cell = [row \in Rows |-> IF row[1] = "hadith" THEN hadiths[row[2]]
                                  ELSE IF row[1] = "summary" THEN "absent" ELSE titles[row]]
    /\ run = [s \in Sweeps |-> Idle]
    /\ wasEmpty = [s \in Sweeps |-> {}]
    /\ deleted = {}

-----------------------------------------------------------------------------
(* What a sweep reads. *)

Table(s) == run[s].call.tables[run[s].at]

HasText(row) == cell[row] \in Texts

Swept(c) == {c.tables[k] : k \in 1..Len(c.tables)} \X Ids

\* Variant with a bug: whether there is a translation is not asked.
EligibleNoSource(row) ==
    IF row[1] = "summary" THEN ~HasText(row) ELSE cell[row] = "empty"

\* Variant with a bug: the rows that have a text are not filtered out.
EligibleAnyRow(row) ==
    IF row[1] = "summary" THEN HasText(<<"hadith", row[2]>>) ELSE cell[row] # "absent"

\* A summary is wanted where there is a translation but no summary; elsewhere
\* a text is wanted in the rows whose target column is empty.
Eligible(row) ==
    IF row[1] = "summary"
    THEN HasText(<<"hadith", row[2]>>) /\ ~HasText(row)
    ELSE cell[row] = "empty"

\* Variant with a bug: the sweep takes every row again that still has no text.
WantedAgain(s) == {i \in Ids : Eligible(<<Table(s), i>>)}

Wanted(s) == {i \in Ids : Eligible(<<Table(s), i>>) /\ <<Table(s), i>> \notin run[s].attempted}

\* ORDER BY id LIMIT limit.
Batch(rows, wanted, limit) ==
    /\ rows \subseteq wanted
    /\ Cardinality(rows) <= limit
    /\ rows = wanted \/ Cardinality(rows) = limit
    /\ \A i \in rows, j \in wanted \ rows : i < j

\* The break conditions that are looked at without a query.
Stopped(s) ==
    LET c == run[s].call IN
    \/ c.max > 0 /\ run[s].batches >= c.max
    \/ ~c.all /\ run[s].batches >= 1

-----------------------------------------------------------------------------
(* The steps of a sweep. *)

\* The cron key, the kitab and the parameters were accepted.
Start(s) ==
    /\ run[s].pc = "idle"
    /\ \E c \in Calls :
         /\ run' = [run EXCEPT ![s] = [Idle EXCEPT !.pc = "query", !.call = c]]
         /\ wasEmpty' = [wasEmpty EXCEPT ![s] = {row \in Swept(c) : ~HasText(row)}]
    /\ UNCHANGED <<cell, deleted>>

\* The rows are marked attempted before anything is done about them.  (The
\* code adds to Processed after the batch; nobody reads it in between.)
TakeBatch(s) ==
    /\ run[s].pc = "query"
    /\ ~Stopped(s)
    /\ Wanted(s) # {}
    /\ \E rows \in SUBSET Wanted(s) :
         /\ Batch(rows, Wanted(s), run[s].call.limit)
         /\ run' = [run EXCEPT ![s] =
              [run[s] EXCEPT !.pc = "ask",
                             !.queue = rows,
                             !.attempted = @ \cup ({Table(s)} \X rows),
                             !.batches = @ + 1,
                             !.tries = 1,
                             !.processed = @ + Cardinality(rows)]]
    /\ UNCHANGED <<cell, wasEmpty, deleted>>

\* One table is finished.  The next one starts with nothing attempted, which
\* is the same as keeping the rows of the other table.
EndTable(s) ==
    /\ run[s].pc = "query"
    /\ Stopped(s) \/ Wanted(s) = {}
    /\ run' = IF run[s].at < Len(run[s].call.tables)
              THEN [run EXCEPT ![s] = [run[s] EXCEPT !.at = @ + 1, !.batches = 0]]
              ELSE [run EXCEPT ![s].pc = "done"]
    /\ UNCHANGED <<cell, wasEmpty, deleted>>

\* The query fails: the counts are dropped and the answer is a 500.
QueryFails(s) ==
    /\ run[s].pc = "query"
    /\ ~Stopped(s)
    /\ run' = [run EXCEPT ![s] = [Idle EXCEPT !.pc = "error"]]
    /\ UNCHANGED <<cell, wasEmpty, deleted>>

AiReplies(s) ==
    /\ run[s].pc = "ask"
    /\ run' = [run EXCEPT ![s].pc = "save"]
    /\ UNCHANGED <<cell, wasEmpty, deleted>>

\* Variant with a bug: one try too many.
AiFailsOnceMore(s) ==
    /\ run[s].pc = "ask"
    /\ run[s].tries <= MaxTries
    /\ run' = [run EXCEPT ![s].tries = @ + 1]
    /\ UNCHANGED <<cell, wasEmpty, deleted>>

\* A transient error, and tries are left.
AiFailsForNow(s) ==
    /\ run[s].pc = "ask"
    /\ run[s].tries < MaxTries
    /\ run' = [run EXCEPT ![s].tries = @ + 1]
    /\ UNCHANGED <<cell, wasEmpty, deleted>>

\* What is left of the batch once rows are settled.
Rest(s, rows) ==
    LET queue == run[s].queue \ rows IN
    [run[s] EXCEPT !.queue = queue,
                   !.tries = 1,
                   !.pc = IF queue = {} THEN "query"
                          ELSE IF run[s].call.each THEN "ask" ELSE "save"]

\* Variant with a bug: the rows are not reported.
DropRows(s, rows) == run' = [run EXCEPT ![s] = Rest(s, rows)]

\* Variant with a bug: the AI is asked again until it has a text.
AskAgain(s, rows) == run' = [run EXCEPT ![s].pc = "ask", ![s].tries = 1]

FailRows(s, rows) ==
    run' = [run EXCEPT ![s] = [Rest(s, rows) EXCEPT !.failed = @ \cup ({Table(s)} \X rows)]]

\* The row the loop over the batch is at.
Current(s, i) == i \in run[s].queue /\ \A j \in run[s].queue : i <= j

\* A permanent error, a transient one at the last try, or a reply that is not
\* a JSON object of strings: everything that was asked for has failed.
AiFails(s) ==
    /\ run[s].pc = "ask"
    /\ IF run[s].call.each
       THEN \E i \in Ids : Current(s, i) /\ FailRows(s, {i})
       ELSE FailRows(s, run[s].queue)
    /\ UNCHANGED <<cell, wasEmpty, deleted>>

\* The reply has no text for the row, or the write fails.
RowFails(s) ==
    /\ run[s].pc = "save"
    /\ \E i \in Ids : Current(s, i) /\ FailRows(s, {i})
    /\ UNCHANGED <<cell, wasEmpty, deleted>>

\* UPDATE ... WHERE id, whatever the column holds by now and even if the row
\* is gone; a summary is inserted or replaced.
Written(row) ==
    IF row[1] = "summary" \/ cell[row] # "absent" THEN [cell EXCEPT ![row] = "ai"] ELSE cell

SaveRow(s) ==
    /\ run[s].pc = "save"
    /\ \E i \in Ids :
         /\ Current(s, i)
         /\ cell' = Written(<<Table(s), i>>)
         /\ run' = [run EXCEPT ![s] = [Rest(s, {i}) EXCEPT !.updated = @ + 1]]
    /\ UNCHANGED <<wasEmpty, deleted>>

Answer(s) ==
    /\ run[s].pc \in {"done", "error"}
    /\ run' = [run EXCEPT ![s] = Idle]
    /\ wasEmpty' = [wasEmpty EXCEPT ![s] = {}]
    /\ UNCHANGED <<cell, deleted>>

\* The process stops: what was written stays, the sweep and its report do not.
Crash(s) ==
    /\ run[s].pc # "idle"
    /\ run' = [run EXCEPT ![s] = Idle]
    /\ wasEmpty' = [wasEmpty EXCEPT ![s] = {}]
    /\ UNCHANGED <<cell, deleted>>

Work(s) ==
    \/ TakeBatch(s) \/ EndTable(s) \/ QueryFails(s)
    \/ AiReplies(s) \/ AiFailsForNow(s) \/ AiFails(s)
    \/ RowFails(s) \/ SaveRow(s) \/ Answer(s)

-----------------------------------------------------------------------------
(* The administration of the hadiths (internal/hadithadmin). *)

\* Updates writes only the columns that are not zero in the form, so it never
\* empties one; a form without a translation changes nothing here.
AdminPutOne(i) ==
    /\ cell[<<"hadith", i>>] # "absent"
    /\ cell' = [cell EXCEPT ![<<"hadith", i>>] = "human"]
    /\ UNCHANGED <<run, wasEmpty, deleted>>

AdminPostOne(i) ==
    /\ cell[<<"hadith", i>>] = "absent"
    /\ \E given \in {"empty", "human"} : cell' = [cell EXCEPT ![<<"hadith", i>>] = given]
    /\ UNCHANGED <<run, wasEmpty, deleted>>

\* The summary of the hadith stays.
AdminDeleteOne(i) ==
    /\ cell[<<"hadith", i>>] # "absent"
    /\ cell' = [cell EXCEPT ![<<"hadith", i>>] = "absent"]
    /\ wasEmpty' = [s \in Sweeps |->
                      IF run[s].call # NoCall /\ <<"hadith", i>> \in Swept(run[s].call)
                      THEN wasEmpty[s] \cup {<<"hadith", i>>} ELSE wasEmpty[s]]
    /\ deleted' = deleted \cup {i}
    /\ UNCHANGED run

Next ==
    \/ \E s \in Sweeps : Start(s) \/ Work(s) \/ Crash(s)
    \/ \E i \in Ids : AdminPutOne(i) \/ AdminPostOne(i) \/ AdminDeleteOne(i)

Spec == Init /\ [][Next]_vars

\* A running sweep is scheduled, its queries return and its AI calls end.
Fairness == \A s \in Sweeps : WF_vars(Work(s))

FairSpec == Spec /\ Fairness

-----------------------------------------------------------------------------
(* Properties. *)

\* The report adds up (TestBulkTranslate_SweepFirstBatchFailsContinues): every
\* row taken is updated, failed or still in the batch, and none is counted twice.
Accounted ==
    \A s \in Sweeps :
        run[s].processed =
            run[s].updated + Cardinality(run[s].failed) + Cardinality(run[s].queue)

\* A sweep only ever fills: the rows it changes have been without a text since
\* it began, and then have the AI's.  Rows that were filled all along, by a
\* human or by another sweep, are safe from it.
SweepsOnlyFill ==
    [][\A s \in Sweeps : Work(s) =>
         \A row \in Rows : cell'[row] # cell[row] => row \in wasEmpty[s] /\ cell'[row] = "ai"]_vars

\* What is true of "until no untranslated rows remain": when an unbounded
\* sweep of everything ends, a row that still has no text and was never
\* deleted is in its list of failures.
NothingForgotten ==
    [][\A s \in Sweeps :
         LET c == run[s].call IN
         run[s].pc = "query" /\ run'[s].pc = "done" /\ c.all /\ c.max = 0 =>
             \A row \in Swept(c) :
                 Eligible(row) => row \in run[s].failed \/ row[2] \in deleted]_vars

\* A summary belongs to a translated hadith
\* (TestRoute_SummarizeEmptySourceSkipped), unless the hadith was deleted.
SummaryHasSource ==
    \A i \in Ids : HasText(<<"summary", i>>) => HasText(<<"hadith", i>>) \/ i \in deleted

\* A sweep ends, however often the AI fails and whoever edits meanwhile
\* (TestBulkTranslate_SweepAllBatchesFailTerminates).
SweepsEnd == \A s \in Sweeps : run[s].pc # "idle" ~> run[s].pc = "idle"
=============================================================================
