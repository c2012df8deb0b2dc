--------------------------- MODULE BulkSweepProofs ---------------------------
(***************************************************************************)
(* Proofs about BulkSweep, for any number of sweeps, rows, requests and    *)
(* tries: what the reports and the writes of sweeps can be relied on for   *)
(* while other sweeps and the administration write the same rows.          *)
(***************************************************************************)
EXTENDS BulkSweep, FiniteSetTheorems, TLAPS

\* The rows of the batch at hand.
Batched(r) == {r.call.tables[r.at]} \X r.queue

\* What a report says about a sweep adds up.
Balanced(r) ==
    /\ IsFiniteSet(r.failed)
    /\ r.processed = r.updated + Cardinality(r.failed) + Cardinality(r.queue)

\* A row that was taken is still in the batch, has failed, has a text or was
\* deleted.
AccountedFor(c, d, r, row) ==
    row \in Batched(r) \/ row \in r.failed \/ c[row] \in Texts \/ row[2] \in d

\* A row of the batch was without a text since the sweep began, and is
\* there, as is the text that a summary is of, unless the hadith was deleted.
Takeable(c, d, was, row) ==
    /\ row \in was
    /\ row[1] = "summary" => c[<<"hadith", row[2]>>] \in Texts \/ row[2] \in d
    /\ row[1] # "summary" => c[row] # "absent" \/ row[2] \in d

\* The tables before the one at hand are done.
TablesDone(c, d, r) ==
    \A k \in 1..(r.at - 1), i \in Ids :
      c[<<r.call.tables[k], i>>] = "empty" => <<r.call.tables[k], i>> \in r.failed \/ i \in d

\* The inductive invariant of a sweep with the variables r, among the cells c
\* and the deleted hadiths d, when the rows was have been without a text.
RunOK(c, d, r, was) ==
    /\ Balanced(r)
    /\ r.pc \in {"idle", "error"} => r.queue = {}
    /\ r.pc \notin {"idle", "error"} =>
         /\ r.call \in Calls
         /\ r.at \in 1..Len(r.call.tables)
         /\ r.pc \in {"query", "done"} => r.queue = {}
         /\ r.failed \subseteq r.attempted
         /\ Batched(r) \subseteq r.attempted
         /\ r.failed \cap Batched(r) = {}
         /\ \A row \in Swept(r.call) : c[row] \in Texts \/ row \in was
         /\ \A row \in Batched(r) : Takeable(c, d, was, row)
         /\ \A row \in r.attempted : AccountedFor(c, d, r, row)
         /\ r.call.all /\ r.call.max = 0 => TablesDone(c, d, r)

SweepInv ==
    /\ TypeOK
    /\ SummaryHasSource
    /\ \A s \in Sweeps : RunOK(cell, deleted, run[s], wasEmpty[s])

-----------------------------------------------------------------------------
(* Facts about the requests and the reports. *)

LEMMA NoTexts == "empty" \notin Texts /\ "absent" \notin Texts /\ Texts \subseteq Cells
  BY DEF Texts, Cells

\* Only the titles are swept in two tables.
LEMMA TablesOfCalls ==
  ASSUME NEW call \in Calls
  PROVE  /\ call \in Call
         /\ Len(call.tables) \in 1..2
         /\ \A k \in 1..Len(call.tables) : call.tables[k] \in Tables
         /\ Len(call.tables) = 2 => call.tables[1] = "kitab" /\ call.tables[2] = "bab"
  <1>1. /\ call \in Call
        /\ call.tables \in {<<"hadith">>, <<"kitab">>, <<"bab">>, <<"kitab", "bab">>, <<"summary">>}
    BY CallsAssumption DEF Call
  <1>2. CASE call.tables = <<"kitab", "bab">>
    BY <1>1, <1>2 DEF Tables
  <1>3. ASSUME NEW table \in Tables, call.tables = <<table>> PROVE Len(call.tables) = 1 /\ call.tables[1] \in Tables
    BY <1>3
  <1>4. CASE call.tables # <<"kitab", "bab">>
    <2>1. \E table \in Tables : call.tables = <<table>>
      BY <1>1, <1>4 DEF Tables
    <2>2. Len(call.tables) = 1 /\ call.tables[1] \in Tables
      BY <1>3, <2>1
    <2>3. QED
      BY <1>1, <2>2
  <1>5. QED
    BY <1>2, <1>4

\* Rows of one table are as many as their ids.
LEMMA RowsOfTable ==
  ASSUME NEW table, NEW ids \in SUBSET Ids
  PROVE  /\ IsFiniteSet(ids) /\ Cardinality(ids) \in Nat
         /\ IsFiniteSet({table} \X ids)
         /\ Cardinality({table} \X ids) = Cardinality(ids)
  <1>1. IsFiniteSet(ids) /\ Cardinality(ids) \in Nat
    BY SweepAssumption, FS_Subset, FS_CardinalityType
  <1>2. IsFiniteSet({table}) /\ Cardinality({table}) = 1
    BY FS_Singleton
  <1>3. /\ IsFiniteSet({table} \X ids)
        /\ Cardinality({table} \X ids) = Cardinality({table}) * Cardinality(ids)
    BY <1>1, <1>2, FS_Product
  <1>4. QED
    BY <1>1, <1>2, <1>3

\* Some of the queue, as many as these rows, may be listed as failures.
MayFail(failed, rows, queue, ids) ==
    /\ IsFiniteSet(failed) /\ IsFiniteSet(rows) /\ failed \cap rows = {}
    /\ queue \in SUBSET Ids /\ ids \in SUBSET queue
    /\ Cardinality(rows) = Cardinality(ids)

\* Rows that leave the batch for the list of failures keep the balance.
LEMMA FailuresBalance ==
  ASSUME NEW failed, NEW rows, NEW queue, NEW ids, MayFail(failed, rows, queue, ids)
  PROVE  /\ IsFiniteSet(failed \cup rows)
         /\ Cardinality(failed \cup rows) + Cardinality(queue \ ids)
              = Cardinality(failed) + Cardinality(queue)
  <1> USE DEF MayFail
  <1>1. Cardinality(ids) \in Nat /\ Cardinality(queue) \in Nat /\ IsFiniteSet(queue)
    BY RowsOfTable
  <1>2. queue \cap ids = ids
    OBVIOUS
  <1>3. /\ IsFiniteSet(failed \cup rows)
        /\ Cardinality(failed \cup rows) = Cardinality(failed) + Cardinality(ids) - Cardinality({})
    BY <1>1, FS_Union
  <1>4. Cardinality(queue \ ids) = Cardinality(queue) - Cardinality(ids)
    <2>1. Cardinality(queue \ ids) = Cardinality(queue) - Cardinality(queue \cap ids)
      BY <1>1, FS_Difference
    <2>2. QED
      BY <1>2, <2>1
  <1>5. Cardinality(failed) \in Nat /\ Cardinality({}) = 0
    BY FS_CardinalityType, FS_EmptySet
  <1>6. QED
    BY <1>1, <1>3, <1>4, <1>5

-----------------------------------------------------------------------------
(* The cells move on: texts stay, except those of deleted hadiths. *)

Moves(c, d, c2, d2) ==
    /\ d \subseteq d2
    /\ \A row \in Rows :
         /\ c[row] \in Texts => c2[row] \in Texts \/ row[2] \in d2
         /\ c[row] # "absent" => c2[row] # "absent" \/ row[2] \in d2
         /\ row[1] \in {"kitab", "bab"} /\ c2[row] = "empty" => c[row] = "empty"

\* A sweep is none the worse for what others write.
LEMMA MovesKeepRuns ==
  ASSUME NEW c \in [Rows -> Cells], NEW c2 \in [Rows -> Cells],
         NEW d \in SUBSET Ids, NEW d2 \in SUBSET Ids, NEW r \in Run,
         NEW was \in SUBSET Rows, NEW was2 \in SUBSET Rows,
         RunOK(c, d, r, was), Moves(c, d, c2, d2), was \subseteq was2,
         r.call \in Calls => \A row \in Swept(r.call) :
           c[row] \in Texts => c2[row] \in Texts \/ row \in was2
  PROVE  RunOK(c2, d2, r, was2)
  <1>1. CASE r.pc \in {"idle", "error"}
    BY <1>1 DEF RunOK
  <1>2. CASE r.pc \notin {"idle", "error"}
    <2>1. /\ Balanced(r) /\ r.call \in Calls /\ r.at \in 1..Len(r.call.tables)
          /\ r.pc \in {"query", "done"} => r.queue = {}
          /\ r.failed \subseteq r.attempted
          /\ Batched(r) \subseteq r.attempted
          /\ r.failed \cap Batched(r) = {}
          /\ \A row \in Swept(r.call) : c[row] \in Texts \/ row \in was
          /\ \A row \in Batched(r) : Takeable(c, d, was, row)
          /\ \A row \in r.attempted : AccountedFor(c, d, r, row)
          /\ r.call.all /\ r.call.max = 0 => TablesDone(c, d, r)
          /\ r.attempted \subseteq Rows
      BY <1>2 DEF RunOK, Run
    <2>2. \A row \in Swept(r.call) : c2[row] \in Texts \/ row \in was2
      BY <2>1
    <2>3. ASSUME NEW row \in Batched(r) PROVE Takeable(c2, d2, was2, row)
      <3>1. row \in Rows /\ Takeable(c, d, was, row)
        BY <2>1, <2>3
      <3>2. row[2] \in Ids /\ <<"hadith", row[2]>> \in Rows
        BY <3>1 DEF Rows, Tables
      <3>3. <<"hadith", row[2]>>[2] = row[2]
        OBVIOUS
      <3>4. QED
        BY <3>1, <3>2, <3>3 DEF Takeable, Moves
    <2>4. ASSUME NEW row \in r.attempted PROVE AccountedFor(c2, d2, r, row)
      BY <2>1, <2>4 DEF AccountedFor, Moves
    <2>5. TablesDone(c, d, r) => TablesDone(c2, d2, r)
      <3> SUFFICES ASSUME TablesDone(c, d, r), NEW k \in 1..(r.at - 1), NEW i \in Ids,
                          c2[<<r.call.tables[k], i>>] = "empty"
                   PROVE  <<r.call.tables[k], i>> \in r.failed \/ i \in d2
        BY DEF TablesDone
      <3>1. r.call.tables[k] = "kitab"
        <4>1. PICK n : n = Len(r.call.tables)
          OBVIOUS
        <4>2. n \in 1..2 /\ r.at \in 1..n /\ k \in 1..(r.at - 1)
          BY <2>1, <4>1, TablesOfCalls
        <4>3. k = 1 /\ n = 2
          BY <4>2
        <4>4. QED
          BY <2>1, <4>1, <4>3, TablesOfCalls
      <3>2. PICK row : row = <<"kitab", i>>
        OBVIOUS
      <3>3. row \in Rows /\ row[1] = "kitab" /\ row[2] = i
        BY <3>2 DEF Rows, Tables
      <3>4. c[row] = "empty"
        BY <3>1, <3>2, <3>3 DEF Moves
      <3>5. QED
        BY <3>1, <3>2, <3>4 DEF TablesDone, Moves
    <2>6. QED
      BY <1>2, <2>1, <2>2, <2>3, <2>4, <2>5 DEF RunOK
  <1>3. QED
    BY <1>1, <1>2

\* One sweep at a time, and the cells with it.
LEMMA OneSweepMoves ==
  ASSUME SweepInv, NEW s \in Sweeps, TypeOK', Moves(cell, deleted, cell', deleted'),
         \A row \in Rows : cell[row] \in Texts => cell'[row] \in Texts,
         \A t \in Sweeps : t # s => run'[t] = run[t] /\ wasEmpty'[t] = wasEmpty[t],
         RunOK(cell, deleted, run[s], wasEmpty[s])',
         SummaryHasSource'
  PROVE  SweepInv'
  <1>1. ASSUME NEW t \in Sweeps, t # s PROVE RunOK(cell, deleted, run[t], wasEmpty[t])'
    <2>1. /\ cell \in [Rows -> Cells] /\ cell' \in [Rows -> Cells]
          /\ deleted \in SUBSET Ids /\ deleted' \in SUBSET Ids /\ run[t] \in Run
          /\ wasEmpty[t] \in SUBSET Rows /\ run'[t] = run[t] /\ wasEmpty'[t] = wasEmpty[t]
          /\ RunOK(cell, deleted, run[t], wasEmpty[t])
      BY <1>1 DEF SweepInv, TypeOK
    <2>2. run[t].call \in Calls => \A row \in Swept(run[t].call) : row \in Rows
      BY TablesOfCalls DEF Swept, Rows
    <2>3. RunOK(cell', deleted', run[t], wasEmpty[t])
      BY <2>1, <2>2, MovesKeepRuns
    <2>4. QED
      BY <2>1, <2>3
  <1>2. QED
    BY <1>1 DEF SweepInv

-----------------------------------------------------------------------------
(* The steps of one sweep. *)

\* What is left of the batch once rows are settled.
LEMMA RestOfBatch ==
  ASSUME NEW s \in Sweeps, run \in [Sweeps -> Run], NEW ids \in SUBSET Ids,
         NEW r2, r2 = Rest(s, ids)
  PROVE  /\ r2 \in Run /\ r2.queue = run[s].queue \ ids
         /\ r2.pc \in {"query", "ask", "save"} /\ (r2.pc = "query" <=> r2.queue = {})
         /\ r2.call = run[s].call /\ r2.at = run[s].at /\ r2.attempted = run[s].attempted
         /\ r2.batches = run[s].batches
         /\ r2.processed = run[s].processed /\ r2.updated = run[s].updated
         /\ r2.failed = run[s].failed
  <1>1. PICK r, queue, pc :
          /\ r = run[s] /\ queue = r.queue \ ids
          /\ pc = IF queue = {} THEN "query" ELSE IF r.call.each THEN "ask" ELSE "save"
    OBVIOUS
  <1>2. r2 = [r EXCEPT !.queue = queue, !.tries = 1, !.pc = pc]
    BY <1>1 DEF Rest
  <1>3. r \in Run /\ queue \in SUBSET Ids /\ pc \in {"query", "ask", "save"}
        /\ (pc = "query" <=> queue = {}) /\ 1 \in 1..MaxTries
    BY <1>1, SweepAssumption DEF Run
  <1>4. r2.queue = queue /\ r2.pc = pc /\ r2.call = r.call /\ r2.at = r.at
        /\ r2.attempted = r.attempted /\ r2.batches = r.batches /\ r2.processed = r.processed
        /\ r2.updated = r.updated /\ r2.failed = r.failed
    BY <1>2, <1>3 DEF Run
  <1>5. r2 \in Run
    BY <1>2, <1>3 DEF Run, Steps
  <1>6. QED
    BY <1>1, <1>3, <1>4, <1>5

\* Rows leave the batch that are accounted for.
LEMMA LeavingTheBatch ==
  ASSUME NEW c \in [Rows -> Cells], NEW d \in SUBSET Ids, NEW r \in Run, NEW r2 \in Run,
         NEW was \in SUBSET Rows, RunOK(c, d, r, was), r.pc \in {"ask", "save"},
         NEW ids \in SUBSET r.queue, r2.queue = r.queue \ ids,
         r2.pc \in {"query", "ask", "save"}, r2.pc = "query" => r2.queue = {},
         r2.call = r.call, r2.at = r.at, r2.attempted = r.attempted,
         r2.failed = r.failed \/ r2.failed = r.failed \cup ({r.call.tables[r.at]} \X ids),
         Balanced(r2),
         \A i \in ids : AccountedFor(c, d, r2, <<r.call.tables[r.at], i>>)
  PROVE  RunOK(c, d, r2, was)
  <1>1. /\ r.call \in Calls /\ r.at \in 1..Len(r.call.tables)
        /\ r.failed \subseteq r.attempted
        /\ Batched(r) \subseteq r.attempted
        /\ r.failed \cap Batched(r) = {}
        /\ \A row \in Swept(r.call) : c[row] \in Texts \/ row \in was
        /\ \A row \in Batched(r) : Takeable(c, d, was, row)
        /\ \A row \in r.attempted : AccountedFor(c, d, r, row)
        /\ r.call.all /\ r.call.max = 0 => TablesDone(c, d, r)
    BY DEF RunOK
  <1>2. PICK table : table = r.call.tables[r.at]
    OBVIOUS
  <1>3. /\ Batched(r) = {table} \X r.queue /\ Batched(r2) = {table} \X (r.queue \ ids)
        /\ Batched(r) = Batched(r2) \cup ({table} \X ids)
        /\ Batched(r2) \cap ({table} \X ids) = {}
    BY <1>2 DEF Batched
  <1>4. /\ r2.failed \subseteq r2.attempted /\ Batched(r2) \subseteq r2.attempted
        /\ r2.failed \cap Batched(r2) = {} /\ r.failed \subseteq r2.failed
    BY <1>1, <1>2, <1>3
  <1>5. \A row \in Batched(r2) : Takeable(c, d, was, row)
    BY <1>1, <1>3
  <1>6. ASSUME NEW row \in r.attempted PROVE AccountedFor(c, d, r2, row)
    <2>1. AccountedFor(c, d, r, row)
      BY <1>1
    <2>2. CASE row \in {table} \X ids
      <3>1. PICK i \in ids : row = <<table, i>>
        BY <2>2
      <3>2. QED
        BY <1>2, <3>1
    <2>3. CASE row \notin {table} \X ids
      BY <1>3, <1>4, <2>1, <2>3 DEF AccountedFor
    <2>4. QED
      BY <2>2, <2>3
  <1>7. TablesDone(c, d, r) => TablesDone(c, d, r2)
    BY <1>4 DEF TablesDone
  <1>8. QED
    BY <1>1, <1>4, <1>5, <1>6, <1>7 DEF RunOK

\* A step of a sweep that writes no cell.
RunMoves(s, r2, was2) ==
    /\ run' = [run EXCEPT ![s] = r2]
    /\ wasEmpty' = [wasEmpty EXCEPT ![s] = was2]
    /\ cell' = cell /\ deleted' = deleted

LEMMA OnlyRunMoves ==
  ASSUME SweepInv, NEW s \in Sweeps, NEW r2 \in Run, NEW was2 \in SUBSET Rows,
         RunMoves(s, r2, was2), RunOK(cell, deleted, r2, was2)
  PROVE  SweepInv'
  <1>1. /\ run \in [Sweeps -> Run] /\ wasEmpty \in [Sweeps -> SUBSET Rows]
        /\ TypeOK /\ SummaryHasSource
    BY DEF SweepInv, TypeOK
  <1>2. /\ run' \in [Sweeps -> Run] /\ wasEmpty' \in [Sweeps -> SUBSET Rows]
        /\ run'[s] = r2 /\ wasEmpty'[s] = was2 /\ cell' = cell /\ deleted' = deleted
        /\ \A t \in Sweeps : t # s => run'[t] = run[t] /\ wasEmpty'[t] = wasEmpty[t]
    BY <1>1 DEF RunMoves
  <1>3. TypeOK'
    BY <1>1, <1>2 DEF TypeOK
  <1>4. SummaryHasSource'
    BY <1>1, <1>2 DEF SummaryHasSource, HasText
  <1>5. Moves(cell, deleted, cell', deleted')
    BY <1>2 DEF Moves
  <1>6. RunOK(cell, deleted, run[s], wasEmpty[s])'
    BY <1>2
  <1>7. QED
    BY <1>2, <1>3, <1>4, <1>5, <1>6, OneSweepMoves

\* What is known of a sweep and its surroundings.
LEMMA SweepFacts ==
  ASSUME SweepInv, NEW s \in Sweeps
  PROVE  /\ run[s] \in Run /\ wasEmpty[s] \in SUBSET Rows
         /\ cell \in [Rows -> Cells] /\ deleted \in SUBSET Ids
         /\ run \in [Sweeps -> Run] /\ wasEmpty \in [Sweeps -> SUBSET Rows]
         /\ RunOK(cell, deleted, run[s], wasEmpty[s])
         /\ wasEmpty = [wasEmpty EXCEPT ![s] = wasEmpty[s]]
  BY DEF SweepInv, TypeOK

LEMMA StartKeepsInv == ASSUME SweepInv, NEW s \in Sweeps, Start(s) PROVE SweepInv'
  <1>1. PICK call \in Calls :
          /\ run' = [run EXCEPT ![s] = [Idle EXCEPT !.pc = "query", !.call = call]]
          /\ wasEmpty' = [wasEmpty EXCEPT ![s] = {row \in Swept(call) : ~HasText(row)}]
    BY DEF Start
  <1>2. PICK r2, was2 : /\ r2 = [Idle EXCEPT !.pc = "query", !.call = call]
                        /\ was2 = {row \in Swept(call) : ~HasText(row)}
    OBVIOUS
  <1>3. RunMoves(s, r2, was2)
    BY <1>1, <1>2 DEF Start, RunMoves
  <1>4. /\ r2 \in Run /\ r2.pc = "query" /\ r2.call = call /\ r2.at = 1 /\ r2.attempted = {}
        /\ r2.queue = {} /\ r2.processed = 0 /\ r2.updated = 0 /\ r2.failed = {}
    <2>1. r2 = [pc |-> "query", call |-> call, at |-> 1, attempted |-> {}, batches |-> 0,
                queue |-> {}, tries |-> 1, processed |-> 0, updated |-> 0, failed |-> {}]
      BY <1>2 DEF Idle
    <2>2. 1 \in 1..MaxTries
      BY SweepAssumption
    <2>3. QED
      BY <2>1, <2>2 DEF Run, Steps
  <1>5. was2 \in SUBSET Rows
    BY <1>2, TablesOfCalls DEF Swept, Rows
  <1>6. Balanced(r2)
    BY <1>4, FS_EmptySet DEF Balanced
  <1>7. 1 \in 1..Len(call.tables)
    BY TablesOfCalls
  <1>8. Batched(r2) = {}
    BY <1>4 DEF Batched
  <1>9. TablesDone(cell, deleted, r2)
    BY <1>4 DEF TablesDone
  <1>10. \A row \in Swept(call) : cell[row] \in Texts \/ row \in was2
    BY <1>2 DEF HasText
  <1>11. RunOK(cell, deleted, r2, was2)
    BY <1>4, <1>6, <1>7, <1>8, <1>9, <1>10 DEF RunOK
  <1>12. QED
    BY <1>3, <1>4, <1>5, <1>11, OnlyRunMoves

LEMMA TakeBatchKeepsInv == ASSUME SweepInv, NEW s \in Sweeps, TakeBatch(s) PROVE SweepInv'
  <1>1. PICK rows \in SUBSET Wanted(s) :
          run' = [run EXCEPT ![s] =
            [run[s] EXCEPT !.pc = "ask", !.queue = rows,
                      !.attempted = @ \cup ({Table(s)} \X rows), !.batches = @ + 1,
                      !.tries = 1, !.processed = @ + Cardinality(rows)]]
    BY DEF TakeBatch
  <1>2. PICK r, was, table : r = run[s] /\ was = wasEmpty[s] /\ table = Table(s)
    OBVIOUS
  <1>3. PICK r2 : r2 = [r EXCEPT !.pc = "ask", !.queue = rows,
                                 !.attempted = @ \cup ({table} \X rows), !.batches = @ + 1,
                                 !.tries = 1, !.processed = @ + Cardinality(rows)]
    OBVIOUS
  <1>4. /\ r \in Run /\ was \in SUBSET Rows /\ RunOK(cell, deleted, r, was) /\ r.pc = "query"
        /\ table = r.call.tables[r.at]
    BY <1>2, SweepFacts DEF TakeBatch, Table
  <1>5. RunMoves(s, r2, was)
    <2>1. r2 = [run[s] EXCEPT !.pc = "ask", !.queue = rows,
                              !.attempted = @ \cup ({Table(s)} \X rows), !.batches = @ + 1,
                              !.tries = 1, !.processed = @ + Cardinality(rows)]
      BY <1>2, <1>3, Zenon
    <2>2. run' = [run EXCEPT ![s] = r2]
      BY <1>1, <2>1
    <2>3. wasEmpty' = [wasEmpty EXCEPT ![s] = was] /\ cell' = cell /\ deleted' = deleted
      BY <1>2, SweepFacts DEF TakeBatch
    <2>4. QED
      BY <2>2, <2>3 DEF RunMoves
  <1>6. /\ r.call \in Calls /\ r.at \in 1..Len(r.call.tables) /\ r.queue = {}
        /\ r.failed \subseteq r.attempted
        /\ \A row \in Swept(r.call) : cell[row] \in Texts \/ row \in was
        /\ \A row \in r.attempted : AccountedFor(cell, deleted, r, row)
        /\ r.call.all /\ r.call.max = 0 => TablesDone(cell, deleted, r)
        /\ Balanced(r)
    BY <1>4 DEF RunOK
  <1>7. /\ table \in Tables /\ {table} \X Ids \subseteq Swept(r.call)
    BY <1>4, <1>6, TablesOfCalls DEF Swept
  <1>8. rows \subseteq Ids /\ \A i \in rows : Eligible(<<table, i>>) /\ <<table, i>> \notin r.attempted
    BY <1>2 DEF Wanted
  <1>9. Cardinality(rows) \in Nat /\ IsFiniteSet(rows)
    BY <1>8, RowsOfTable
  <1>10. /\ r2 \in Run /\ r2.pc = "ask" /\ r2.queue = rows /\ r2.call = r.call /\ r2.at = r.at
         /\ r2.attempted = r.attempted \cup ({table} \X rows) /\ r2.failed = r.failed
         /\ r2.updated = r.updated /\ r2.processed = r.processed + Cardinality(rows)
    <2>1. r.attempted \cup ({table} \X rows) \in SUBSET Rows /\ r.batches + 1 \in Nat
          /\ r.processed + Cardinality(rows) \in Nat /\ 1 \in 1..MaxTries
      BY <1>4, <1>7, <1>8, <1>9, SweepAssumption DEF Run, Rows
    <2>2. QED
      BY <1>3, <1>4, <1>8, <2>1 DEF Run, Steps
  <1>11. Balanced(r2)
    <2>1. /\ Cardinality(r.failed) \in Nat /\ Cardinality(r.queue) = 0
          /\ r.updated \in Nat /\ IsFiniteSet(r.failed)
          /\ r.processed = r.updated + Cardinality(r.failed) + Cardinality(r.queue)
      BY <1>4, <1>6, FS_CardinalityType, FS_EmptySet DEF Balanced, Run
    <2>2. QED
      BY <1>9, <1>10, <2>1 DEF Balanced
  <1>12. Batched(r2) = {table} \X rows /\ Batched(r) = {}
    BY <1>4, <1>6, <1>10 DEF Batched
  <1>13. ASSUME NEW row \in Batched(r2) PROVE Takeable(cell, deleted, was, row)
    <2>1. PICK i \in rows : row = <<table, i>>
      BY <1>12
    <2>2. row \in Swept(r.call) /\ Eligible(row) /\ row[1] = table /\ row[2] = i
      BY <1>7, <1>8, <2>1
    <2>3. cell[row] \notin Texts
      BY <2>2, NoTexts DEF Eligible, HasText
    <2>4. row \in was
      BY <1>6, <2>2, <2>3
    <2>5. CASE row[1] = "summary"
      BY <2>2, <2>4, <2>5 DEF Eligible, HasText, Takeable
    <2>6. CASE row[1] # "summary"
      BY <2>2, <2>4, <2>6 DEF Eligible, Takeable
    <2>7. QED
      BY <2>5, <2>6
  <1>14. \A row \in r2.attempted : AccountedFor(cell, deleted, r2, row)
    BY <1>6, <1>10, <1>12 DEF AccountedFor
  <1>15. r2.failed \cap Batched(r2) = {} /\ r2.failed \subseteq r2.attempted
         /\ Batched(r2) \subseteq r2.attempted
    BY <1>6, <1>8, <1>10, <1>12
  <1>16. TablesDone(cell, deleted, r) => TablesDone(cell, deleted, r2)
    BY <1>10 DEF TablesDone
  <1>17. RunOK(cell, deleted, r2, was)
    BY <1>6, <1>10, <1>11, <1>13, <1>14, <1>15, <1>16 DEF RunOK
  <1>18. QED
    BY <1>4, <1>5, <1>10, <1>17, OnlyRunMoves

\* An unbounded sweep of everything leaves a table only when its rows have
\* failed or were deleted, or have a text.
LEMMA TableIsSwept ==
  ASSUME SweepInv, NEW s \in Sweeps, EndTable(s), run[s].call.all, run[s].call.max = 0,
         NEW i \in Ids, Eligible(<<Table(s), i>>)
  PROVE  <<Table(s), i>> \in run[s].failed \/ i \in deleted
  <1>1. PICK r, row : r = run[s] /\ row = <<Table(s), i>>
    OBVIOUS
  <1>2. r \in Run /\ RunOK(cell, deleted, r, wasEmpty[s]) /\ r.pc = "query"
    BY <1>1, SweepFacts DEF EndTable
  <1>3. r.queue = {} /\ \A other \in r.attempted : AccountedFor(cell, deleted, r, other)
    BY <1>2 DEF RunOK
  <1>4. ~Stopped(s)
    BY <1>1, <1>2 DEF Stopped, Run
  <1>5. row \in r.attempted
    BY <1>1, <1>4 DEF EndTable, Wanted
  <1>6. cell[row] \notin Texts
    BY <1>1, NoTexts DEF Eligible, HasText
  <1>7. row[2] = i /\ Batched(r) = {}
    BY <1>1, <1>3 DEF Batched
  <1>8. QED
    BY <1>1, <1>3, <1>5, <1>6, <1>7 DEF AccountedFor

LEMMA EndTableKeepsInv == ASSUME SweepInv, NEW s \in Sweeps, EndTable(s) PROVE SweepInv'
  <1>1. PICK r, was : r = run[s] /\ was = wasEmpty[s]
    OBVIOUS
  <1>2. /\ r \in Run /\ was \in SUBSET Rows /\ RunOK(cell, deleted, r, was) /\ r.pc = "query"
        /\ wasEmpty' = [wasEmpty EXCEPT ![s] = was] /\ cell' = cell /\ deleted' = deleted
    BY <1>1, SweepFacts DEF EndTable
  <1>3. /\ r.call \in Calls /\ r.at \in 1..Len(r.call.tables) /\ r.queue = {}
        /\ r.failed \subseteq r.attempted
        /\ \A row \in Swept(r.call) : cell[row] \in Texts \/ row \in was
        /\ \A row \in r.attempted : AccountedFor(cell, deleted, r, row)
        /\ r.call.all /\ r.call.max = 0 => TablesDone(cell, deleted, r)
        /\ Balanced(r) /\ Batched(r) = {}
    BY <1>2 DEF RunOK, Batched
  <1>4. CASE r.at < Len(r.call.tables)
    <2>1. PICK r2 : r2 = [r EXCEPT !.at = @ + 1, !.batches = 0]
      OBVIOUS
    <2>2. run' = [run EXCEPT ![s] = r2]
      BY <1>1, <1>4, <2>1 DEF EndTable
    <2>3. r.at = 1 /\ Len(r.call.tables) = 2 /\ r.call.tables[1] = "kitab"
      <3>1. PICK n : n = Len(r.call.tables)
        OBVIOUS
      <3>2. n \in 1..2 /\ r.at \in 1..n /\ r.at < n
        BY <1>3, <1>4, <3>1, TablesOfCalls
      <3>3. r.at = 1 /\ n = 2
        BY <3>2
      <3>4. QED
        BY <1>3, <3>1, <3>3, TablesOfCalls
    <2>4. /\ r2 \in Run /\ r2.pc = "query" /\ r2.at = 2 /\ r2.call = r.call /\ r2.queue = {}
          /\ r2.attempted = r.attempted /\ r2.failed = r.failed
          /\ r2.processed = r.processed /\ r2.updated = r.updated
      <3>1. r2 = [r EXCEPT !.at = 2, !.batches = 0]
        BY <2>1, <2>3
      <3>2. r \in Run /\ 2 \in 1..2 /\ 0 \in Nat
        BY <1>2
      <3>3. /\ r2 \in Run /\ r2.pc = r.pc /\ r2.at = 2 /\ r2.call = r.call /\ r2.queue = r.queue
            /\ r2.attempted = r.attempted /\ r2.failed = r.failed
            /\ r2.processed = r.processed /\ r2.updated = r.updated
        BY <3>1, <3>2 DEF Run
      <3>4. QED
        BY <1>2, <1>3, <3>3
    <2>5. Balanced(r2) /\ Batched(r2) = {} /\ r2.at \in 1..Len(r2.call.tables)
      <3>1. Balanced(r2) /\ Batched(r2) = {}
        BY <1>3, <2>4 DEF Balanced, Batched
      <3>2. Len(r2.call.tables) = 2
        BY <2>3, <2>4
      <3>3. QED
        BY <2>4, <3>1, <3>2
    <2>6. \A row \in r2.attempted : AccountedFor(cell, deleted, r2, row)
      BY <1>3, <2>4, <2>5 DEF AccountedFor
    <2>7. ASSUME r2.call.all, r2.call.max = 0 PROVE TablesDone(cell, deleted, r2)
      <3> SUFFICES ASSUME NEW k \in 1..(r2.at - 1), NEW i \in Ids,
                          cell[<<r2.call.tables[k], i>>] = "empty"
                   PROVE  <<r2.call.tables[k], i>> \in r2.failed \/ i \in deleted
        BY DEF TablesDone
      <3>1. r2.call.tables[k] = "kitab" /\ Table(s) = "kitab"
        BY <1>1, <2>3, <2>4 DEF Table
      <3>2. <<"kitab", i>>[1] # "summary"
        OBVIOUS
      <3>3. Eligible(<<Table(s), i>>)
        BY <3>1, <3>2 DEF Eligible
      <3>4. QED
        BY <1>1, <2>4, <2>7, <3>1, <3>3, TableIsSwept
    <2>8. RunOK(cell, deleted, r2, was)
      BY <1>3, <2>4, <2>5, <2>6, <2>7 DEF RunOK
    <2>9. RunMoves(s, r2, was)
      BY <1>2, <2>2 DEF RunMoves
    <2>10. QED
      BY <1>2, <2>4, <2>8, <2>9, OnlyRunMoves
  <1>5. CASE ~(r.at < Len(r.call.tables))
    <2>1. PICK r2 : r2 = [r EXCEPT !.pc = "done"]
      OBVIOUS
    <2>2. RunMoves(s, r2, was)
      BY <1>1, <1>2, <1>5, <2>1, SweepFacts DEF EndTable, RunMoves
    <2>3. /\ r2 \in Run /\ r2.pc = "done" /\ r2.at = r.at /\ r2.call = r.call /\ r2.queue = {}
          /\ r2.attempted = r.attempted /\ r2.failed = r.failed
          /\ r2.processed = r.processed /\ r2.updated = r.updated
      BY <1>2, <1>3, <2>1 DEF Run, Steps
    <2>4. Balanced(r2) /\ Batched(r2) = {}
      BY <1>3, <2>3 DEF Balanced, Batched
    <2>5. \A row \in r2.attempted : AccountedFor(cell, deleted, r2, row)
      BY <1>3, <2>3, <2>4 DEF AccountedFor
    <2>6. TablesDone(cell, deleted, r) => TablesDone(cell, deleted, r2)
      BY <2>3 DEF TablesDone
    <2>7. RunOK(cell, deleted, r2, was)
      BY <1>3, <2>3, <2>4, <2>5, <2>6 DEF RunOK
    <2>8. QED
      BY <1>2, <2>2, <2>3, <2>7, OnlyRunMoves
  <1>6. QED
    BY <1>4, <1>5

\* Who waits for the AI keeps the batch.
LEMMA AiKeepsInv ==
  ASSUME SweepInv, NEW s \in Sweeps, AiReplies(s) \/ AiFailsForNow(s)
  PROVE  SweepInv'
  <1>1. PICK r, was : r = run[s] /\ was = wasEmpty[s]
    OBVIOUS
  <1>2. /\ r \in Run /\ was \in SUBSET Rows /\ RunOK(cell, deleted, r, was) /\ r.pc = "ask"
        /\ wasEmpty' = [wasEmpty EXCEPT ![s] = was] /\ cell' = cell /\ deleted' = deleted
    BY <1>1, SweepFacts DEF AiReplies, AiFailsForNow
  <1>3. PICK r2 : /\ r2 = [r EXCEPT !.pc = "save"] \/ (r.tries < MaxTries /\ r2 = [r EXCEPT !.tries = @ + 1])
                  /\ run' = [run EXCEPT ![s] = r2]
    <2>1. CASE AiReplies(s)
      BY <1>1, <2>1, SweepFacts DEF AiReplies
    <2>2. CASE AiFailsForNow(s)
      BY <1>1, <2>2, SweepFacts DEF AiFailsForNow
    <2>3. QED
      BY <2>1, <2>2
  <1>4. /\ r2 \in Run /\ r2.pc \in {"ask", "save"} /\ r2.at = r.at /\ r2.call = r.call
        /\ r2.queue = r.queue /\ r2.attempted = r.attempted /\ r2.failed = r.failed
        /\ r2.processed = r.processed /\ r2.updated = r.updated
    <2>1. r.tries < MaxTries => r.tries + 1 \in 1..MaxTries
      BY <1>2, SweepAssumption DEF Run
    <2>2. QED
      BY <1>2, <1>3, <2>1 DEF Run, Steps
  <1>5. RunOK(cell, deleted, r2, was)
    BY <1>2, <1>4 DEF RunOK, Balanced, Batched, AccountedFor, TablesDone
  <1>6. RunMoves(s, r2, was)
    BY <1>2, <1>3 DEF RunMoves
  <1>7. QED
    BY <1>2, <1>4, <1>5, <1>6, OnlyRunMoves

\* A sweep that is not running.
LEMMA RestingRuns ==
  ASSUME NEW was, NEW pc \in {"idle", "error"}
  PROVE  [Idle EXCEPT !.pc = pc] \in Run /\ RunOK(cell, deleted, [Idle EXCEPT !.pc = pc], was)
  <1>1. PICK r : r = [Idle EXCEPT !.pc = pc]
    OBVIOUS
  <1>2. r = [pc |-> pc, call |-> NoCall, at |-> 1, attempted |-> {}, batches |-> 0,
             queue |-> {}, tries |-> 1, processed |-> 0, updated |-> 0, failed |-> {}]
    BY <1>1 DEF Idle
  <1>3. 1 \in 1..MaxTries
    BY SweepAssumption
  <1>4. /\ r \in Run /\ r.pc = pc /\ r.queue = {} /\ r.processed = 0 /\ r.updated = 0 /\ r.failed = {}
    BY <1>2, <1>3 DEF Run, Steps
  <1>5. RunOK(cell, deleted, r, was)
    BY <1>4, FS_EmptySet DEF RunOK, Balanced
  <1>6. QED
    BY <1>1, <1>4, <1>5

LEMMA EndKeepsInv ==
  ASSUME SweepInv, NEW s \in Sweeps, QueryFails(s) \/ Answer(s) \/ Crash(s)
  PROVE  SweepInv'
  <1>1. CASE QueryFails(s)
    <2>1. RunMoves(s, [Idle EXCEPT !.pc = "error"], wasEmpty[s])
      BY <1>1, SweepFacts DEF QueryFails, RunMoves
    <2>2. QED
      BY <2>1, SweepFacts, RestingRuns, OnlyRunMoves
  <1>2. CASE Answer(s) \/ Crash(s)
    <2>1. Idle = [Idle EXCEPT !.pc = "idle"]
      BY DEF Idle
    <2>2. RunMoves(s, Idle, {})
      BY <1>2 DEF Answer, Crash, RunMoves
    <2>3. Idle \in Run /\ RunOK(cell, deleted, Idle, {})
      BY <2>1, RestingRuns
    <2>4. QED
      BY <2>2, <2>3, OnlyRunMoves
  <1>3. QED
    BY <1>1, <1>2

\* What fails is listed.
LEMMA FailKeepsInv ==
  ASSUME SweepInv, NEW s \in Sweeps, run[s].pc \in {"ask", "save"},
         NEW ids \in SUBSET run[s].queue, FailRows(s, ids),
         cell' = cell, wasEmpty' = wasEmpty, deleted' = deleted
  PROVE  SweepInv'
  <1>1. PICK r, was, table : r = run[s] /\ was = wasEmpty[s] /\ table = Table(s)
    OBVIOUS
  <1>2. /\ r \in Run /\ was \in SUBSET Rows /\ RunOK(cell, deleted, r, was)
        /\ run \in [Sweeps -> Run] /\ wasEmpty = [wasEmpty EXCEPT ![s] = was]
        /\ cell \in [Rows -> Cells] /\ deleted \in SUBSET Ids
        /\ ids \in SUBSET Ids /\ ids \in SUBSET r.queue /\ r.pc \in {"ask", "save"}
        /\ table = r.call.tables[r.at]
    BY <1>1, SweepFacts DEF Run, Table
  <1>3. PICK rest : rest = Rest(s, ids)
    OBVIOUS
  <1>4. PICK r2 : r2 = [rest EXCEPT !.failed = @ \cup ({table} \X ids)]
    OBVIOUS
  <1>5. /\ rest \in Run /\ rest.queue = r.queue \ ids
        /\ rest.pc \in {"query", "ask", "save"} /\ (rest.pc = "query" <=> rest.queue = {})
        /\ rest.call = r.call /\ rest.at = r.at /\ rest.attempted = r.attempted
        /\ rest.processed = r.processed /\ rest.updated = r.updated
        /\ rest.failed = r.failed
    BY <1>1, <1>2, <1>3, RestOfBatch
  <1>6. table \in Tables
    BY <1>2, TablesOfCalls DEF RunOK
  <1>7. /\ r2 \in Run /\ r2.queue = r.queue \ ids
        /\ r2.pc \in {"query", "ask", "save"} /\ (r2.pc = "query" <=> r2.queue = {})
        /\ r2.call = r.call /\ r2.at = r.at /\ r2.attempted = r.attempted
        /\ r2.processed = r.processed /\ r2.updated = r.updated
        /\ r2.failed = r.failed \cup ({table} \X ids)
    <2>1. rest.failed \cup ({table} \X ids) \in SUBSET Rows
      BY <1>2, <1>5, <1>6 DEF Run, Rows
    <2>2. QED
      BY <1>4, <1>5, <2>1 DEF Run
  <1>8. RunMoves(s, r2, was)
    BY <1>1, <1>2, <1>3, <1>4 DEF FailRows, RunMoves
  <1>9. Balanced(r2)
    <2>1. /\ IsFiniteSet(r.failed) /\ r.failed \cap ({table} \X r.queue) = {}
          /\ r.processed = r.updated + Cardinality(r.failed) + Cardinality(r.queue)
      BY <1>2 DEF RunOK, Balanced, Batched
    <2>2. /\ IsFiniteSet(r2.failed)
          /\ Cardinality(r2.failed) + Cardinality(r2.queue)
               = Cardinality(r.failed) + Cardinality(r.queue)
      <3>1. r.queue \in SUBSET Ids
        BY <1>2 DEF Run
      <3>2. /\ IsFiniteSet(r.failed \cup ({table} \X ids))
            /\ Cardinality(r.failed \cup ({table} \X ids)) + Cardinality(r.queue \ ids)
                 = Cardinality(r.failed) + Cardinality(r.queue)
        <4>1. PICK rows : rows = {table} \X ids
          OBVIOUS
        <4>2. IsFiniteSet(rows) /\ Cardinality(rows) = Cardinality(ids)
          BY <1>2, <4>1, RowsOfTable
        <4>3. r.failed \cap rows = {}
          BY <1>2, <2>1, <4>1
        <4>4. /\ IsFiniteSet(r.failed \cup rows)
              /\ Cardinality(r.failed \cup rows) + Cardinality(r.queue \ ids)
                   = Cardinality(r.failed) + Cardinality(r.queue)
          <5>1. MayFail(r.failed, rows, r.queue, ids)
            BY <1>2, <2>1, <3>1, <4>2, <4>3 DEF MayFail
          <5>2. QED
            BY <5>1, FailuresBalance
        <4>5. QED
          BY <4>1, <4>4
      <3>3. QED
        BY <1>7, <3>2
    <2>3. /\ Cardinality(r2.failed) \in Nat /\ Cardinality(r2.queue) \in Nat
          /\ Cardinality(r.failed) \in Nat /\ Cardinality(r.queue) \in Nat /\ r.updated \in Nat
      BY <1>2, <1>7, <2>1, <2>2, FS_CardinalityType, RowsOfTable DEF Run
    <2>4. r2.processed = r2.updated + Cardinality(r2.failed) + Cardinality(r2.queue)
      BY <1>7, <2>1, <2>2, <2>3
    <2>5. QED
      BY <2>2, <2>4 DEF Balanced
  <1>10. \A i \in ids : AccountedFor(cell, deleted, r2, <<r.call.tables[r.at], i>>)
    BY <1>2, <1>7 DEF AccountedFor
  <1>11. RunOK(cell, deleted, r2, was)
    BY <1>2, <1>7, <1>9, <1>10, LeavingTheBatch
  <1>12. QED
    BY <1>2, <1>7, <1>8, <1>11, OnlyRunMoves

LEMMA AiFailsKeepsInv ==
  ASSUME SweepInv, NEW s \in Sweeps, AiFails(s) \/ RowFails(s)
  PROVE  SweepInv'
  <1>1. /\ run[s].pc \in {"ask", "save"}
        /\ cell' = cell /\ wasEmpty' = wasEmpty /\ deleted' = deleted
    BY DEF AiFails, RowFails
  <1>2. \E ids \in SUBSET run[s].queue : FailRows(s, ids)
    <2>1. ASSUME NEW i \in Ids, Current(s, i), FailRows(s, {i})
          PROVE  \E ids \in SUBSET run[s].queue : FailRows(s, ids)
      <3>1. {i} \in SUBSET run[s].queue
        BY <2>1 DEF Current
      <3>2. QED
        BY <2>1, <3>1
    <2>2. CASE FailRows(s, run[s].queue)
      BY <2>2
    <2>3. QED
      BY <2>1, <2>2 DEF AiFails, RowFails
  <1>3. QED
    BY <1>1, <1>2, FailKeepsInv

\* What is written was without a text, and is then the AI's.
LEMMA SavedRow ==
  ASSUME SweepInv, NEW s \in Sweeps, NEW i \in Ids, run[s].pc = "save", i \in run[s].queue,
         NEW row, row = <<Table(s), i>>, cell' = Written(row)
  PROVE  /\ row \in Rows /\ row[1] = Table(s) /\ row[2] = i
         /\ Takeable(cell, deleted, wasEmpty[s], row)
         /\ cell' \in [Rows -> Cells]
         /\ \A other \in Rows : other # row => cell'[other] = cell[other]
         /\ cell'[row] = "ai" \/ (cell'[row] = cell[row] /\ row[1] # "summary" /\ i \in deleted)
  <1>1. PICK r : r = run[s]
    OBVIOUS
  <1>2. /\ r.call \in Calls /\ r.at \in 1..Len(r.call.tables) /\ Table(s) = r.call.tables[r.at]
        /\ \A other \in Batched(r) : Takeable(cell, deleted, wasEmpty[s], other)
        /\ cell \in [Rows -> Cells]
    BY <1>1, SweepFacts DEF RunOK, Table
  <1>3. row \in Rows /\ row \in Batched(r) /\ row[1] = Table(s) /\ row[2] = i
    BY <1>1, <1>2, TablesOfCalls DEF Rows, Batched
  <1>4. Takeable(cell, deleted, wasEmpty[s], row)
    BY <1>2, <1>3
  <1>5. "ai" \in Cells
    BY DEF Cells, Texts
  <1>6. CASE row[1] = "summary" \/ cell[row] # "absent"
    BY <1>2, <1>3, <1>4, <1>5, <1>6 DEF Written
  <1>7. CASE ~(row[1] = "summary" \/ cell[row] # "absent")
    BY <1>2, <1>3, <1>4, <1>7 DEF Written, Takeable
  <1>8. QED
    BY <1>6, <1>7

LEMMA SaveKeepsInv == ASSUME SweepInv, NEW s \in Sweeps, SaveRow(s) PROVE SweepInv'
  <1>1. PICK i \in Ids : /\ Current(s, i)
                         /\ cell' = Written(<<Table(s), i>>)
                         /\ run' = [run EXCEPT ![s] = [Rest(s, {i}) EXCEPT !.updated = @ + 1]]
    BY DEF SaveRow
  <1>2. PICK r, was, row : r = run[s] /\ was = wasEmpty[s] /\ row = <<Table(s), i>>
    OBVIOUS
  <1>3. /\ r \in Run /\ was \in SUBSET Rows /\ RunOK(cell, deleted, r, was)
        /\ run \in [Sweeps -> Run] /\ cell \in [Rows -> Cells] /\ deleted \in SUBSET Ids
        /\ wasEmpty' = wasEmpty /\ deleted' = deleted /\ r.pc = "save" /\ i \in r.queue
        /\ TypeOK /\ SummaryHasSource
    BY <1>1, <1>2, SweepFacts DEF SaveRow, Current, SweepInv
  <1>4. /\ row \in Rows /\ row[1] = Table(s) /\ row[2] = i
        /\ Takeable(cell, deleted, was, row)
        /\ cell' \in [Rows -> Cells]
        /\ \A other \in Rows : other # row => cell'[other] = cell[other]
        /\ cell'[row] = "ai" \/ (cell'[row] = cell[row] /\ row[1] # "summary" /\ i \in deleted)
    BY <1>1, <1>2, <1>3, SavedRow
  <1>5. PICK rest : rest = Rest(s, {i})
    OBVIOUS
  <1>6. PICK r2 : r2 = [rest EXCEPT !.updated = @ + 1]
    OBVIOUS
  <1>7. /\ rest \in Run /\ rest.queue = r.queue \ {i}
        /\ rest.pc \in {"query", "ask", "save"} /\ (rest.pc = "query" <=> rest.queue = {})
        /\ rest.call = r.call /\ rest.at = r.at /\ rest.attempted = r.attempted
        /\ rest.processed = r.processed /\ rest.updated = r.updated
        /\ rest.failed = r.failed
    BY <1>2, <1>3, <1>5, RestOfBatch
  <1>8. /\ r2 \in Run /\ r2.queue = r.queue \ {i}
        /\ r2.pc \in {"query", "ask", "save"} /\ (r2.pc = "query" <=> r2.queue = {})
        /\ r2.call = r.call /\ r2.at = r.at /\ r2.attempted = r.attempted
        /\ r2.processed = r.processed /\ r2.updated = r.updated + 1
        /\ r2.failed = r.failed
    <2>1. rest.updated \in Nat /\ rest.updated + 1 \in Nat
      BY <1>7 DEF Run
    <2>2. QED
      BY <1>6, <1>7, <2>1 DEF Run
  <1>9. run' = [run EXCEPT ![s] = r2]
    BY <1>1, <1>5, <1>6
  <1>10. "ai" \in Texts /\ "ai" # "empty" /\ "ai" # "absent"
    BY DEF Texts
  <1>11. \A other \in Rows : cell[other] \in Texts => cell'[other] \in Texts
    BY <1>4, <1>10
  <1>12. Moves(cell, deleted, cell', deleted')
    BY <1>3, <1>4, <1>10, <1>11 DEF Moves
  <1>13. RunOK(cell', deleted, r, was)
    <2>1. r.call \in Calls => \A other \in Swept(r.call) : other \in Rows
      BY TablesOfCalls DEF Swept, Rows
    <2>2. Moves(cell, deleted, cell', deleted)
      BY <1>3, <1>12
    <2>3. QED
      BY <1>3, <1>4, <1>11, <2>1, <2>2, MovesKeepRuns
  <1>14. Balanced(r2)
    <2>1. /\ IsFiniteSet(r.failed)
          /\ r.processed = r.updated + Cardinality(r.failed) + Cardinality(r.queue)
      BY <1>3 DEF RunOK, Balanced
    <2>2. /\ Cardinality(r.failed) \in Nat /\ Cardinality(r.queue) \in Nat /\ r.updated \in Nat
          /\ IsFiniteSet(r.queue)
      BY <1>3, <2>1, FS_CardinalityType, RowsOfTable DEF Run
    <2>3. Cardinality(r.queue \ {i}) = Cardinality(r.queue) - 1
      BY <1>3, <2>2, FS_RemoveElement
    <2>4. r2.processed = r2.updated + Cardinality(r2.failed) + Cardinality(r2.queue)
      BY <1>8, <2>1, <2>2, <2>3
    <2>5. QED
      BY <1>8, <2>1, <2>4 DEF Balanced
  <1>15. RunOK(cell', deleted, r2, was)
    <2>1. {i} \in SUBSET r.queue /\ Table(s) = r.call.tables[r.at]
      BY <1>2, <1>3 DEF Table
    <2>2. AccountedFor(cell', deleted, r2, row)
      BY <1>4, <1>10 DEF AccountedFor
    <2>3. \A j \in {i} : AccountedFor(cell', deleted, r2, <<r.call.tables[r.at], j>>)
      BY <1>2, <2>1, <2>2
    <2>4. QED
      BY <1>3, <1>4, <1>8, <1>13, <1>14, <2>1, <2>3, LeavingTheBatch
  <1>16. /\ run' \in [Sweeps -> Run] /\ run'[s] = r2
         /\ \A t \in Sweeps : t # s => run'[t] = run[t]
    BY <1>3, <1>8, <1>9
  <1>17. TypeOK'
    BY <1>3, <1>4, <1>16 DEF TypeOK
  <1>18. SummaryHasSource'
    <2> SUFFICES ASSUME NEW j \in Ids, cell'[<<"summary", j>>] \in Texts
                 PROVE  cell'[<<"hadith", j>>] \in Texts \/ j \in deleted'
      BY DEF SummaryHasSource, HasText
    <2>1. PICK summary, hadith : summary = <<"summary", j>> /\ hadith = <<"hadith", j>>
      OBVIOUS
    <2>2. /\ summary \in Rows /\ hadith \in Rows /\ summary # hadith
          /\ summary[1] = "summary" /\ summary[2] = j
      BY <2>1 DEF Rows, Tables
    <2>3. CASE row = summary
      BY <1>3, <1>4, <1>11, <2>1, <2>2, <2>3 DEF Takeable
    <2>4. CASE row # summary
      <3>1. cell[summary] \in Texts
        BY <1>4, <2>1, <2>2, <2>4
      <3>2. cell[hadith] \in Texts \/ j \in deleted
        BY <1>3, <2>1, <3>1 DEF SummaryHasSource, HasText
      <3>3. QED
        BY <1>3, <1>11, <2>1, <2>2, <3>2
    <2>5. QED
      BY <2>3, <2>4
  <1>19. RunOK(cell, deleted, run[s], wasEmpty[s])'
    BY <1>2, <1>3, <1>15, <1>16
  <1>20. QED
    BY <1>3, <1>11, <1>12, <1>16, <1>17, <1>18, <1>19, OneSweepMoves

-----------------------------------------------------------------------------
(* The administration. *)

LEMMA AdminKeepsInv ==
  ASSUME SweepInv, NEW i \in Ids, AdminPutOne(i) \/ AdminPostOne(i) \/ AdminDeleteOne(i)
  PROVE  SweepInv'
  <1>1. PICK row : row = <<"hadith", i>>
    OBVIOUS
  <1>2. row \in Rows /\ row[1] = "hadith" /\ row[2] = i
    BY <1>1 DEF Rows, Tables
  <1>3. /\ cell \in [Rows -> Cells] /\ run \in [Sweeps -> Run]
        /\ wasEmpty \in [Sweeps -> SUBSET Rows] /\ deleted \in SUBSET Ids
        /\ SummaryHasSource
        /\ \A t \in Sweeps : RunOK(cell, deleted, run[t], wasEmpty[t])
    BY DEF SweepInv, TypeOK
  <1>4. PICK text \in Cells : cell' = [cell EXCEPT ![row] = text]
    BY <1>1 DEF AdminPutOne, AdminPostOne, AdminDeleteOne, Cells, Texts
  <1>5. /\ cell' \in [Rows -> Cells] /\ cell'[row] = text
        /\ \A other \in Rows : other # row => cell'[other] = cell[other]
    BY <1>2, <1>3, <1>4
  <1>6. run' = run
    BY DEF AdminPutOne, AdminPostOne, AdminDeleteOne
  \* A text is put where there is a row or an absent row gets one; else the
  \* hadith is deleted.
  <1>7. \/ /\ AdminDeleteOne(i) /\ text = "absent" /\ deleted' = deleted \cup {i}
        \/ /\ wasEmpty' = wasEmpty /\ deleted' = deleted
           /\ text # "absent" /\ (text \in Texts \/ cell[row] = "absent")
    <2>1. CASE AdminPutOne(i)
      <3>1. cell'[row] = "human" /\ wasEmpty' = wasEmpty /\ deleted' = deleted
        BY <1>1, <1>2, <1>3, <2>1 DEF AdminPutOne
      <3>2. QED
        BY <1>5, <3>1 DEF Texts
    <2>2. CASE AdminPostOne(i)
      <3>1. /\ cell'[row] \in {"empty", "human"} /\ wasEmpty' = wasEmpty /\ deleted' = deleted
            /\ cell[row] = "absent"
        BY <1>1, <1>2, <1>3, <2>2 DEF AdminPostOne
      <3>2. QED
        BY <1>5, <3>1
    <2>3. CASE AdminDeleteOne(i)
      <3>1. cell'[row] = "absent" /\ deleted' = deleted \cup {i}
        BY <1>1, <1>2, <1>3, <2>3 DEF AdminDeleteOne
      <3>2. QED
        BY <1>5, <2>3, <3>1
    <2>4. QED
      BY <2>1, <2>2, <2>3
  <1>8. Moves(cell, deleted, cell', deleted')
    BY <1>2, <1>5, <1>7, NoTexts DEF Moves
  <1>9. ASSUME NEW t \in Sweeps
        PROVE  /\ wasEmpty'[t] \in SUBSET Rows /\ wasEmpty[t] \subseteq wasEmpty'[t]
               /\ run[t].call \in Calls => \A other \in Swept(run[t].call) :
                    cell[other] \in Texts => cell'[other] \in Texts \/ other \in wasEmpty'[t]
    <2>1. run[t].call \in Calls => \A other \in Swept(run[t].call) : other \in Rows
      BY TablesOfCalls DEF Swept, Rows
    <2>2. CASE AdminDeleteOne(i)
      <3>1. wasEmpty'[t] = IF run[t].call # NoCall /\ row \in Swept(run[t].call)
                           THEN wasEmpty[t] \cup {row} ELSE wasEmpty[t]
        BY <1>1, <2>2 DEF AdminDeleteOne
      <3>2. run[t].call \in Calls => run[t].call # NoCall
        BY CallsAssumption
      <3>3. QED
        BY <1>2, <1>3, <1>5, <2>1, <3>1, <3>2
    <2>3. CASE ~AdminDeleteOne(i)
      <3>1. wasEmpty' = wasEmpty /\ (text \in Texts \/ cell[row] = "absent")
        BY <1>7, <2>3
      <3>2. QED
        BY <1>3, <1>5, <2>1, <3>1, NoTexts
    <2>4. QED
      BY <2>2, <2>3
  <1>10. TypeOK'
    <2>1. wasEmpty' \in [Sweeps -> SUBSET Rows]
      <3>1. CASE AdminDeleteOne(i)
        BY <1>9, <3>1 DEF AdminDeleteOne
      <3>2. CASE ~AdminDeleteOne(i)
        BY <1>3, <1>7, <3>2
      <3>3. QED
        BY <3>1, <3>2
    <2>2. deleted' \in SUBSET Ids
      BY <1>3, <1>7
    <2>3. QED
      BY <1>3, <1>5, <1>6, <2>1, <2>2 DEF TypeOK
  <1>11. SummaryHasSource'
    <2> SUFFICES ASSUME NEW j \in Ids, cell'[<<"summary", j>>] \in Texts
                 PROVE  cell'[<<"hadith", j>>] \in Texts \/ j \in deleted'
      BY DEF SummaryHasSource, HasText
    <2>1. PICK summary, hadith : summary = <<"summary", j>> /\ hadith = <<"hadith", j>>
      OBVIOUS
    <2>2. summary \in Rows /\ hadith \in Rows /\ summary[1] = "summary" /\ hadith[2] = j
      BY <2>1 DEF Rows, Tables
    <2>3. cell[summary] \in Texts
      BY <1>2, <1>5, <2>1, <2>2
    <2>4. cell[hadith] \in Texts \/ j \in deleted
      BY <1>3, <2>1, <2>3 DEF SummaryHasSource, HasText
    <2>5. QED
      BY <1>8, <2>1, <2>2, <2>4 DEF Moves
  <1>12. ASSUME NEW t \in Sweeps PROVE RunOK(cell, deleted, run[t], wasEmpty[t])'
    <2>1. /\ run[t] \in Run /\ wasEmpty[t] \in SUBSET Rows /\ deleted' \in SUBSET Ids
          /\ RunOK(cell, deleted, run[t], wasEmpty[t])
      BY <1>3, <1>10 DEF TypeOK
    <2>2. RunOK(cell', deleted', run[t], wasEmpty'[t])
      BY <1>3, <1>5, <1>8, <1>9, <2>1, MovesKeepRuns
    <2>3. QED
      BY <1>6, <2>2
  <1>13. QED
    BY <1>10, <1>11, <1>12 DEF SweepInv

-----------------------------------------------------------------------------
(* The theorems. *)

LEMMA SweepInitInv == Init => SweepInv
  <1> SUFFICES ASSUME Init PROVE SweepInv
    OBVIOUS
  <1>1. /\ run = [s \in Sweeps |-> Idle] /\ wasEmpty = [s \in Sweeps |-> {}] /\ deleted = {}
    BY DEF Init
  <1>2. /\ cell \in [Rows -> Cells]
        /\ \A i \in Ids : cell[<<"summary", i>>] = "absent"
    <2>1. PICK hadiths \in [Ids -> Cells \ {"ai"}], titles \in [{"kitab", "bab"} \X Ids -> Cells \ {"ai"}] :
            cell = [row \in Rows |-> IF row[1] = "hadith" THEN hadiths[row[2]]
                                     ELSE IF row[1] = "summary" THEN "absent" ELSE titles[row]]
      BY DEF Init
    <2>2. ASSUME NEW row \in Rows PROVE cell[row] \in Cells
      <3>1. row[1] \in Tables /\ row[2] \in Ids /\ row = <<row[1], row[2]>>
        BY DEF Rows
      <3>2. "absent" \in Cells
        BY DEF Cells
      <3>3. row[1] \in {"hadith", "summary"} \/ row \in {"kitab", "bab"} \X Ids
        BY <3>1 DEF Tables
      <3>4. QED
        BY <2>1, <3>1, <3>2, <3>3
    <2>3. ASSUME NEW i \in Ids PROVE cell[<<"summary", i>>] = "absent"
      <3>1. PICK row : row = <<"summary", i>>
        OBVIOUS
      <3>2. row \in Rows /\ row[1] = "summary"
        BY <3>1 DEF Rows, Tables
      <3>3. QED
        BY <2>1, <3>1, <3>2
    <2>4. QED
      BY <2>1, <2>2, <2>3
  <1>3. Idle = [Idle EXCEPT !.pc = "idle"]
    BY DEF Idle
  <1>4. Idle \in Run /\ RunOK(cell, deleted, Idle, {})
    BY <1>3, RestingRuns
  <1>5. TypeOK
    BY <1>1, <1>2, <1>4 DEF TypeOK
  <1>6. SummaryHasSource
    BY <1>2, NoTexts DEF SummaryHasSource, HasText
  <1>7. QED
    BY <1>1, <1>4, <1>5, <1>6 DEF SweepInv

LEMMA SweepNextInv == SweepInv /\ [Next]_vars => SweepInv'
  <1> SUFFICES ASSUME SweepInv, [Next]_vars PROVE SweepInv'
    OBVIOUS
  <1>1. ASSUME NEW s \in Sweeps, Start(s) \/ Work(s) \/ Crash(s) PROVE SweepInv'
    BY <1>1, StartKeepsInv, TakeBatchKeepsInv, EndTableKeepsInv, EndKeepsInv, AiKeepsInv,
       AiFailsKeepsInv, SaveKeepsInv DEF Work
  <1>2. ASSUME NEW i \in Ids, AdminPutOne(i) \/ AdminPostOne(i) \/ AdminDeleteOne(i) PROVE SweepInv'
    BY <1>2, AdminKeepsInv
  <1>3. CASE UNCHANGED vars
    BY <1>3 DEF vars, SweepInv, TypeOK, SummaryHasSource, HasText
  <1>4. QED
    BY <1>1, <1>2, <1>3 DEF Next

LEMMA SweepInvHolds == Spec => []SweepInv
  BY SweepInitInv, SweepNextInv, PTL DEF Spec

THEOREM SweepTypes == Spec => []TypeOK
  <1>1. SweepInv => TypeOK
    BY DEF SweepInv
  <1>2. QED
    BY <1>1, SweepInvHolds, PTL

\* The counts of a report add up, whatever failed and whoever else wrote.
THEOREM ReportsAddUp == Spec => []Accounted
  <1>1. SweepInv => Accounted
    BY DEF SweepInv, RunOK, Balanced, Accounted
  <1>2. QED
    BY <1>1, SweepInvHolds, PTL

\* A summary belongs to a translated hadith, unless the hadith was deleted.
THEOREM SummariesHaveSources == Spec => []SummaryHasSource
  <1>1. SweepInv => SummaryHasSource
    BY DEF SweepInv
  <1>2. QED
    BY <1>1, SweepInvHolds, PTL

\* A sweep writes only to rows that have been without a text since it began.
THEOREM SweepsFillOnly == Spec => SweepsOnlyFill
  <1>1. SweepInv /\ [Next]_vars =>
          [\A s \in Sweeps : Work(s) =>
             \A row \in Rows : cell'[row] # cell[row] => row \in wasEmpty[s] /\ cell'[row] = "ai"]_vars
    <2> SUFFICES ASSUME SweepInv, NEW s \in Sweeps, Work(s), NEW row \in Rows, cell'[row] # cell[row]
                 PROVE  row \in wasEmpty[s] /\ cell'[row] = "ai"
      OBVIOUS
    <2>1. SaveRow(s)
      BY DEF Work, TakeBatch, EndTable, QueryFails, AiReplies, AiFailsForNow, AiFails, RowFails, Answer
    <2>2. PICK i \in Ids : Current(s, i) /\ cell' = Written(<<Table(s), i>>)
      BY <2>1 DEF SaveRow
    <2>3. PICK saved : saved = <<Table(s), i>>
      OBVIOUS
    <2>4. /\ Takeable(cell, deleted, wasEmpty[s], saved)
          /\ \A other \in Rows : other # saved => cell'[other] = cell[other]
          /\ cell'[saved] = "ai" \/ cell'[saved] = cell[saved]
      <3>1. run[s].pc = "save" /\ i \in run[s].queue /\ cell' = Written(saved)
        BY <2>1, <2>2, <2>3 DEF SaveRow, Current
      <3>2. QED
        BY <2>3, <3>1, SavedRow
    <2>5. QED
      BY <2>4 DEF Takeable
  <1>2. QED
    BY <1>1, SweepInvHolds, PTL DEF Spec, SweepsOnlyFill

\* A sweep that ends its last table ends by EndTable.
LEMMA LastStep ==
  ASSUME SweepInv, [Next]_vars, NEW s \in Sweeps, run[s].pc = "query", run'[s].pc = "done"
  PROVE  EndTable(s) /\ ~(run[s].at < Len(run[s].call.tables))
  <1>1. run \in [Sweeps -> Run] /\ run[s] \in Run
    BY DEF SweepInv, TypeOK
  <1>2. ASSUME NEW t \in Sweeps, t # s, Start(t) \/ Work(t) \/ Crash(t)
        PROVE  run'[s] = run[s]
    BY <1>1, <1>2 DEF Start, Work, Crash, TakeBatch, EndTable, QueryFails, AiReplies, AiFailsForNow,
                      AiFails, RowFails, FailRows, SaveRow, Answer
  <1>3. ASSUME NEW i \in Ids, AdminPutOne(i) \/ AdminPostOne(i) \/ AdminDeleteOne(i)
        PROVE  run'[s] = run[s]
    BY <1>3 DEF AdminPutOne, AdminPostOne, AdminDeleteOne
  <1>4. Start(s) \/ Work(s) \/ Crash(s)
    BY <1>2, <1>3 DEF Next, vars
  <1>5. ~Start(s) /\ ~AiReplies(s) /\ ~AiFailsForNow(s) /\ ~AiFails(s) /\ ~RowFails(s)
        /\ ~SaveRow(s) /\ ~Answer(s)
    BY DEF Start, AiReplies, AiFailsForNow, AiFails, RowFails, SaveRow, Answer
  <1>6. ~TakeBatch(s)
    <2>1. ASSUME TakeBatch(s) PROVE run'[s].pc = "ask"
      <3>1. PICK rows : run' = [run EXCEPT ![s] =
              [run[s] EXCEPT !.pc = "ask", !.queue = rows,
                             !.attempted = @ \cup ({Table(s)} \X rows), !.batches = @ + 1,
                             !.tries = 1, !.processed = @ + Cardinality(rows)]]
        BY <2>1 DEF TakeBatch
      <3>2. run'[s] = [run[s] EXCEPT !.pc = "ask", !.queue = rows,
                             !.attempted = @ \cup ({Table(s)} \X rows), !.batches = @ + 1,
                             !.tries = 1, !.processed = @ + Cardinality(rows)]
        BY <1>1, <3>1
      <3>3. QED
        BY <1>1, <3>2 DEF Run
    <2>2. QED
      BY <2>1
  <1>7. ~QueryFails(s) /\ ~Crash(s)
    BY <1>1 DEF QueryFails, Crash, Idle
  <1>8. EndTable(s)
    BY <1>4, <1>5, <1>6, <1>7 DEF Work
  <1>9. ASSUME run[s].at < Len(run[s].call.tables) PROVE FALSE
    <2>1. run'[s] = [run[s] EXCEPT !.at = @ + 1, !.batches = 0]
      BY <1>1, <1>8, <1>9 DEF EndTable
    <2>2. run'[s].pc = "query"
      BY <1>1, <2>1 DEF Run
    <2>3. QED
      BY <2>2
  <1>10. QED
    BY <1>8, <1>9

\* When an unbounded sweep of everything ends, what still has no text and was
\* never deleted is in its list of failures.
THEOREM NoRowIsForgotten == Spec => NothingForgotten
  <1>1. SweepInv /\ [Next]_vars =>
          [\A s \in Sweeps :
             LET c == run[s].call IN
             run[s].pc = "query" /\ run'[s].pc = "done" /\ c.all /\ c.max = 0 =>
                 \A row \in Swept(c) :
                     Eligible(row) => row \in run[s].failed \/ row[2] \in deleted]_vars
    <2> SUFFICES ASSUME SweepInv, [Next]_vars, NEW s \in Sweeps, run[s].pc = "query", run'[s].pc = "done",
                        run[s].call.all, run[s].call.max = 0,
                        NEW row \in Swept(run[s].call), Eligible(row)
                 PROVE  row \in run[s].failed \/ row[2] \in deleted
      OBVIOUS
    <2>1. EndTable(s) /\ ~(run[s].at < Len(run[s].call.tables))
      BY LastStep
    <2>2. PICK r : r = run[s]
      OBVIOUS
    <2>3. /\ r.call \in Calls /\ r.at \in 1..Len(r.call.tables) /\ TablesDone(cell, deleted, r)
          /\ Table(s) = r.call.tables[r.at]
      BY <2>2, SweepFacts DEF RunOK, Table
    <2>4. PICK k \in 1..Len(r.call.tables), i \in Ids : row = <<r.call.tables[k], i>>
      BY <2>2 DEF Swept
    <2>5. PICK n : n = Len(r.call.tables)
      OBVIOUS
    <2>6. n \in 1..2 /\ r.at = n /\ k \in 1..n
      <3>1. n \in 1..2 /\ r.at \in 1..n /\ k \in 1..n /\ ~(r.at < n)
        BY <2>1, <2>2, <2>3, <2>4, <2>5, TablesOfCalls
      <3>2. QED
        BY <3>1
    <2>7. CASE k = n
      BY <2>2, <2>3, <2>4, <2>6, <2>7, <2>1, TableIsSwept
    <2>8. CASE k # n
      <3>1. n = 2 /\ k = 1
        BY <2>6, <2>8
      <3>2. r.call.tables[k] = "kitab"
        BY <2>3, <2>5, <3>1, TablesOfCalls
      <3>3. row = <<"kitab", i>>
        BY <2>4, <3>2
      <3>4. row[1] = "kitab" /\ row[2] = i
        BY <3>3
      <3>5. cell[row] = "empty"
        BY <3>4 DEF Eligible
      <3>6. k \in 1..(r.at - 1)
        BY <2>6, <3>1
      <3>7. QED
        BY <2>2, <2>3, <2>4, <3>4, <3>5, <3>6 DEF TablesDone
    <2>9. QED
      BY <2>7, <2>8
  <1>2. QED
    BY <1>1, SweepInvHolds, PTL DEF Spec, NothingForgotten

=============================================================================
