--------------------------- MODULE StorageProofs ---------------------------
(***************************************************************************)
(* Proofs about Preferences and Bookmarks for any number of requests: what *)
(* snapshot transactions keep although each writes back what it has read.  *)
(***************************************************************************)
EXTENDS Preferences, Bookmarks, FiniteSetTheorems, TLAPS

(* The preferences. *)

PutSteps == {"idle", "find", "save", "activity", "ok", "failed"}

PrefRow == [exists : BOOLEAN, columns : [AllColumns -> Puts \cup {Default}]]

PutRequest == [pc : PutSteps, table : PrefTables, sets : SUBSET AllColumns, read : PrefRow, stale : BOOLEAN]

\* The inductive invariant: a row is what the puts answered with success have
\* made of it, and a request that may still save has read it as it is, or has
\* taken it for missing.
PrefInv ==
    /\ PreferencesTypeOK
    /\ \A t \in PrefTables :
         /\ row[t].columns = latest[t]
         /\ ~row[t].exists => row[t] = NoRow
    /\ \A p \in Puts : put[p].pc = "save" /\ ~put[p].stale => put[p].read \in {row[put[p].table], NoRow}

LEMMA PrefTypes ==
    PreferencesTypeOK <=>
      /\ put \in [Puts -> PutRequest]
      /\ row \in [PrefTables -> PrefRow]
      /\ latest \in [PrefTables -> [AllColumns -> Puts \cup {Default}]]
  BY DEF PreferencesTypeOK, PutRequest, PutSteps, PrefRow

LEMMA NoRowType == NoRow \in PrefRow /\ ~NoRow.exists /\ NoRow.columns = Empty
  BY DEF NoRow, PrefRow, Empty

LEMMA PrefInitInv == PreferencesInit => PrefInv
  <1> SUFFICES ASSUME PreferencesInit PROVE PrefInv
    OBVIOUS
  <1>1. SomeTable \in PrefTables
    BY PreferenceAssumption DEF SomeTable
  <1>2. put \in [Puts -> PutRequest] /\ \A p \in Puts : put[p].pc = "idle"
    BY <1>1, NoRowType DEF PreferencesInit, PutRequest, PutSteps
  <1>3. row \in [PrefTables -> PrefRow] /\ \A t \in PrefTables : row[t] = NoRow
    BY NoRowType DEF PreferencesInit
  <1>4. latest \in [PrefTables -> [AllColumns -> Puts \cup {Default}]]
        /\ \A t \in PrefTables : latest[t] = Empty
    BY DEF PreferencesInit, Empty
  <1>5. QED
    BY <1>2, <1>3, <1>4, PrefTypes, NoRowType DEF PrefInv

LEMMA SetByType ==
    ASSUME NEW p \in Puts, NEW columns \in [AllColumns -> Puts \cup {Default}]
    PROVE  SetBy(p, columns) \in [AllColumns -> Puts \cup {Default}]
  BY DEF SetBy

\* A request ends a step; when it has committed, nobody who has read before
\* may save.
LEMMA PutEndKeeps ==
    ASSUME PrefInv, NEW p \in Puts, NEW pc \in PutSteps, pc # "save", NEW commits \in BOOLEAN,
           PutEnd(p, pc, commits)
    PROVE  /\ put' \in [Puts -> PutRequest]
           /\ \A q \in Puts : put'[q].pc = "save" =>
                put[q].pc = "save" /\ put'[q].table = put[q].table /\ put'[q].read = put[q].read
           /\ \A q \in Puts : put'[q].pc = "save" /\ ~put'[q].stale => ~commits /\ ~put[q].stale
  <1>1. put \in [Puts -> PutRequest]
    BY PrefTypes DEF PrefInv
  <1>2. ASSUME NEW q \in Puts
        PROVE  put'[q] = IF q = p THEN [put[q] EXCEPT !.pc = pc, !.read = NoRow, !.stale = FALSE]
                         ELSE [put[q] EXCEPT !.stale = put[q].stale \/ (commits /\ put[q].pc = "save")]
    BY DEF PutEnd
  <1>3. ASSUME NEW q \in Puts
        PROVE  /\ put'[q] \in PutRequest
               /\ put'[q].pc = "save" =>
                    put[q].pc = "save" /\ put'[q].table = put[q].table /\ put'[q].read = put[q].read
               /\ put'[q].pc = "save" /\ ~put'[q].stale => ~commits /\ ~put[q].stale
    <2>1. put[q] \in PutRequest
      BY <1>1
    <2>2. CASE q = p
      <3>1. put'[q] = [put[q] EXCEPT !.pc = pc, !.read = NoRow, !.stale = FALSE]
        BY <1>2, <2>2
      <3>2. put'[q] \in PutRequest /\ put'[q].pc = pc
        BY <2>1, <3>1, NoRowType DEF PutRequest
      <3>3. QED
        BY <3>2
    <2>3. CASE q # p
      <3>1. put'[q] = [put[q] EXCEPT !.stale = put[q].stale \/ (commits /\ put[q].pc = "save")]
        BY <1>2, <2>3
      <3>2. (put[q].stale \/ (commits /\ put[q].pc = "save")) \in BOOLEAN
        OBVIOUS
      <3>3. QED
        BY <2>1, <3>1, <3>2 DEF PutRequest
    <2>4. QED
      BY <2>2, <2>3
  <1>4. put' \in [Puts -> PutRequest]
    <2>1. put' = [q \in Puts |-> put'[q]]
      BY DEF PutEnd
    <2>2. QED
      BY <1>3, <2>1
  <1>5. QED
    BY <1>3, <1>4

\* A commit of columns that extend what was answered before.
LEMMA WriteKeeps ==
    ASSUME PrefInv, NEW p \in Puts, NEW pc \in PutSteps, pc # "save", PutEnd(p, pc, TRUE),
           Write(p, SetBy(p, latest[put[p].table]))
    PROVE  PrefInv'
  <1>1. /\ put \in [Puts -> PutRequest]
        /\ row \in [PrefTables -> PrefRow]
        /\ latest \in [PrefTables -> [AllColumns -> Puts \cup {Default}]]
    BY PrefTypes DEF PrefInv
  <1>2. PICK t \in PrefTables : t = put[p].table
    BY <1>1 DEF PutRequest
  <1>3. PICK columns \in [AllColumns -> Puts \cup {Default}] : columns = SetBy(p, latest[t])
    BY <1>1, SetByType
  <1>4. row' = [row EXCEPT ![t] = [exists |-> TRUE, columns |-> columns]]
    BY <1>2, <1>3 DEF Write
  <1>5. latest' = [latest EXCEPT ![t] = columns]
    BY <1>2, <1>3 DEF Write
  <1>6. row' \in [PrefTables -> PrefRow] /\ latest' \in [PrefTables -> [AllColumns -> Puts \cup {Default}]]
    BY <1>1, <1>4, <1>5 DEF PrefRow
  <1>7. \A s \in PrefTables : row'[s].columns = latest'[s] /\ (~row'[s].exists => row'[s] = NoRow)
    BY <1>1, <1>4, <1>5 DEF PrefInv
  <1>8. put' \in [Puts -> PutRequest] /\ \A q \in Puts : put'[q].pc = "save" => put'[q].stale
    BY PutEndKeeps
  <1>9. PreferencesTypeOK'
    BY <1>6, <1>8 DEF PreferencesTypeOK, PutRequest, PutSteps, PrefRow
  <1>10. QED
    BY <1>7, <1>8, <1>9 DEF PrefInv

LEMMA PrefNextInv == PrefInv /\ [PreferencesNext]_prefVars => PrefInv'
  <1> SUFFICES ASSUME PrefInv, [PreferencesNext]_prefVars PROVE PrefInv'
    OBVIOUS
  <1>1. /\ put \in [Puts -> PutRequest]
        /\ row \in [PrefTables -> PrefRow]
        /\ latest \in [PrefTables -> [AllColumns -> Puts \cup {Default}]]
    BY PrefTypes DEF PrefInv
  \* No row changes, and who may save has read before or reads now.
  <1>2. ASSUME UNCHANGED <<row, latest>>, put' \in [Puts -> PutRequest],
               \A q \in Puts : put'[q].pc = "save" /\ ~put'[q].stale =>
                 put'[q].read \in {row[put'[q].table], NoRow}
        PROVE  PrefInv'
    <2>1. PreferencesTypeOK'
      BY <1>1, <1>2 DEF PreferencesTypeOK, PutRequest, PutSteps, PrefRow
    <2>2. QED
      BY <1>2, <2>1 DEF PrefInv
  <1>3. ASSUME NEW p \in Puts, NEW pc \in PutSteps, pc # "save", NEW commits \in BOOLEAN,
               PutEnd(p, pc, commits), UNCHANGED <<row, latest>>
        PROVE  PrefInv'
    BY <1>2, <1>3, PutEndKeeps DEF PrefInv
  <1>4. ASSUME NEW p \in Puts, BeginPut(p) PROVE PrefInv'
    <2>1. PICK table \in PrefTables, sets \in SUBSET AllColumns :
            put' = [put EXCEPT ![p] = [pc |-> "find", table |-> table, sets |-> sets,
                                       read |-> NoRow, stale |-> FALSE]]
      BY <1>4 DEF BeginPut
    <2>2. [pc |-> "find", table |-> table, sets |-> sets, read |-> NoRow, stale |-> FALSE] \in PutRequest
      BY NoRowType DEF PutRequest, PutSteps
    <2>3. put' \in [Puts -> PutRequest] /\ put'[p].pc = "find" /\ \A q \in Puts : q # p => put'[q] = put[q]
      BY <1>1, <2>1, <2>2
    <2>4. QED
      BY <1>2, <1>4, <2>3 DEF BeginPut, PrefInv
  <1>5. ASSUME NEW p \in Puts, FindRow(p) PROVE PrefInv'
    <2>1. PICK read \in {row[put[p].table], NoRow} : put' = [put EXCEPT ![p].pc = "save", ![p].read = read]
      BY <1>5 DEF FindRow
    <2>2. put[p] \in PutRequest /\ read \in PrefRow
      BY <1>1, NoRowType DEF PutRequest
    <2>3. /\ put' \in [Puts -> PutRequest]
          /\ put'[p].read = read /\ put'[p].table = put[p].table
          /\ \A q \in Puts : q # p => put'[q] = put[q]
      BY <1>1, <2>1, <2>2 DEF PutRequest, PutSteps
    <2>4. QED
      BY <1>2, <1>5, <2>3 DEF FindRow, PrefInv
  <1>6. ASSUME NEW p \in Puts, SaveRow(p) PROVE PrefInv'
    <2>1. CASE PutEnd(p, "failed", FALSE) /\ UNCHANGED <<row, latest>>
      BY <1>3, <2>1 DEF PutSteps
    <2>2. CASE /\ MaySave(p)
               /\ ~put[p].read.exists => ~row[put[p].table].exists
               /\ Write(p, SetBy(p, put[p].read.columns))
               /\ PutEnd(p, "ok", TRUE)
      <3>1. put[p].read \in {row[put[p].table], NoRow} /\ put[p].table \in PrefTables
        BY <1>1, <1>6, <2>2 DEF SaveRow, MaySave, PrefInv, PutRequest
      <3>2. put[p].read = row[put[p].table]
        BY <2>2, <3>1, NoRowType DEF PrefInv
      <3>3. put[p].read.columns = latest[put[p].table]
        BY <3>1, <3>2 DEF PrefInv
      <3>4. QED
        BY <2>2, <3>3, WriteKeeps DEF PutSteps
    <2>3. QED
      BY <1>6, <2>1, <2>2 DEF SaveRow
  <1>7. ASSUME NEW p \in Puts, UpdateOrCreate(p) PROVE PrefInv'
    <2>1. CASE PutEnd(p, "failed", FALSE) /\ UNCHANGED <<row, latest>>
      BY <1>3, <2>1 DEF PutSteps
    <2>2. CASE Write(p, SetBy(p, row[put[p].table].columns)) /\ PutEnd(p, "activity", TRUE)
      <3>1. row[put[p].table].columns = latest[put[p].table]
        BY <1>1 DEF PrefInv, PutRequest
      <3>2. QED
        BY <2>2, <3>1, WriteKeeps DEF PutSteps
    <2>3. QED
      BY <1>7, <2>1, <2>2 DEF UpdateOrCreate
  <1>8. ASSUME NEW p \in Puts, CreateActivity(p) PROVE PrefInv'
    BY <1>3, <1>8 DEF CreateActivity, PutSteps
  <1>9. CASE UNCHANGED prefVars
    BY <1>1, <1>2, <1>9 DEF prefVars, PrefInv
  <1>10. QED
    BY <1>4, <1>5, <1>6, <1>7, <1>8, <1>9 DEF PreferencesNext

LEMMA PrefInvariance == PreferencesSpec => []PrefInv
  BY PrefInitInv, PrefNextInv, PTL DEF PreferencesSpec

\* However the puts of a user interleave and fail, he is shown, column by
\* column, the last one that was committed.
THEOREM NoPutIsLost == PreferencesSpec => []NothingLostInPreferences
  <1>1. PrefInv => NothingLostInPreferences
    <2>1. SUFFICES ASSUME PrefInv, NEW table \in PrefTables, NEW c \in Columns(table)
                   PROVE  ShownOf(table)[c] = latest[table][c]
      BY DEF NothingLostInPreferences
    <2>2. row[table].columns = latest[table] /\ (~row[table].exists => row[table] = NoRow)
      BY <2>1 DEF PrefInv
    <2>3. c \in AllColumns
      BY DEF Columns, AllColumns, Halves
    <2>4. Empty[c] = Default
      BY <2>3 DEF Empty
    <2>5. QED
      BY <2>2, <2>4, NoRowType DEF ShownOf
  <1>2. QED
    BY <1>1, PrefInvariance, PTL

-----------------------------------------------------------------------------
(* The bookmarks. *)

MarkSteps == {"idle", "find", "insert", "delete", "ok", "failed"}

MarkRequest == [pc : MarkSteps, op : Ops, numbers : SUBSET Numbers, id : 0..MaxRowsOfMarks, stale : BOOLEAN]

MarkItem == [bookmark : 1..MaxRowsOfMarks, number : Numbers, deleted : BOOLEAN]

LiveItems == {i \in 1..Len(markItems) : ~markItems[i].deleted}

Deleted == Answered("UpdateAll") \cup Answered("DeleteParent")

\* The inductive invariant: no bookmark is deleted, items are of bookmarks,
\* what a request may still delete is there, and there are as many items as
\* the answers say.
MarksInv ==
    /\ BookmarksTypeOK
    /\ Len(bookmarks) <= Cardinality(Answered("Create"))
    /\ Len(markItems) = Cardinality(Answered("Create"))
    /\ \A b \in 1..Len(bookmarks) : ~bookmarks[b].deleted
    /\ \A i \in 1..Len(markItems) : markItems[i].bookmark \in 1..Len(bookmarks)
    /\ \A r \in MarkRequests :
         /\ markReq[r].op = "Create" /\ markReq[r].pc # "idle" => markReq[r].numbers # {}
         /\ markReq[r].pc = "insert" => markReq[r].op = "Create" /\ markReq[r].id <= Len(bookmarks)
         /\ markReq[r].pc = "delete" => markReq[r].op # "Create"
         /\ markReq[r].pc = "delete" /\ ~markReq[r].stale => markReq[r].id \in LiveItems
    /\ EachDeleteCounts

LEMMA MarkTypes ==
    BookmarksTypeOK <=>
      /\ markReq \in [MarkRequests -> MarkRequest]
      /\ bookmarks \in Seq([deleted : BOOLEAN]) /\ Len(bookmarks) <= MaxRowsOfMarks
      /\ markItems \in Seq(MarkItem)
  BY DEF BookmarksTypeOK, MarkRequest, MarkSteps, MarkItem

LEMMA CountsMeans ==
    EachDeleteCounts <=> Cardinality(LiveItems) = Cardinality(Answered("Create")) - Cardinality(Deleted)
  BY DEF EachDeleteCounts, LiveItems, Deleted

LEMMA RequestsFinite ==
    ASSUME NEW S \in SUBSET MarkRequests
    PROVE  /\ IsFiniteSet(S) /\ Cardinality(S) \in Nat
           /\ Cardinality(S) <= MaxRowsOfMarks /\ MaxRowsOfMarks \in Nat
  BY FS_Subset, FS_CardinalityType, BookmarkAssumption DEF MaxRowsOfMarks

LEMMA MarksInitInv == BookmarksInit => MarksInv
  <1> SUFFICES ASSUME BookmarksInit PROVE MarksInv
    OBVIOUS
  <1>1. MaxRowsOfMarks \in Nat
    BY RequestsFinite
  <1>2. /\ markReq \in [MarkRequests -> MarkRequest]
        /\ \A r \in MarkRequests : markReq[r].pc = "idle"
        /\ bookmarks = <<>> /\ markItems = <<>>
    BY <1>1 DEF BookmarksInit, MarkRequest, MarkSteps, Ops
  <1>3. BookmarksTypeOK
    BY <1>1, <1>2, MarkTypes
  <1>4. LiveItems = {} /\ Answered("Create") = {} /\ Deleted = {}
    BY <1>2 DEF LiveItems, Answered, Deleted
  <1>5. EachDeleteCounts /\ Cardinality(Answered("Create")) = 0
    BY <1>4, FS_EmptySet, CountsMeans
  <1>6. QED
    BY <1>2, <1>3, <1>5 DEF MarksInv

\* A request that is not about to be answered with success goes on.
LEMMA MarkGoesOn ==
    ASSUME MarksInv, NEW r \in MarkRequests, NEW request \in MarkRequest,
           markReq' = [markReq EXCEPT ![r] = request], UNCHANGED <<bookmarks, markItems>>,
           markReq[r].pc # "ok", request.pc # "ok",
           request.op = "Create" /\ request.pc # "idle" => request.numbers # {},
           request.pc = "insert" => request.op = "Create" /\ request.id <= Len(bookmarks),
           request.pc = "delete" => request.op # "Create",
           request.pc = "delete" /\ ~request.stale => request.id \in LiveItems
    PROVE  MarksInv'
  <1>1. markReq \in [MarkRequests -> MarkRequest]
    BY MarkTypes DEF MarksInv
  <1>2. /\ markReq' \in [MarkRequests -> MarkRequest] /\ markReq'[r] = request
        /\ \A q \in MarkRequests : q # r => markReq'[q] = markReq[q]
    BY <1>1
  <1>3. BookmarksTypeOK'
    BY <1>2 DEF MarksInv, BookmarksTypeOK, MarkRequest, MarkSteps
  <1>4. Answered("Create")' = Answered("Create") /\ Answered("UpdateAll")' = Answered("UpdateAll")
        /\ Answered("DeleteParent")' = Answered("DeleteParent")
    BY <1>2 DEF Answered
  <1>5. EachDeleteCounts'
    BY <1>4 DEF MarksInv, EachDeleteCounts
  <1>6. LiveItems' = LiveItems
    BY DEF LiveItems
  <1>7. QED
    BY <1>2, <1>3, <1>4, <1>5, <1>6 DEF MarksInv

\* A request fails.
LEMMA MarkFails ==
    ASSUME MarksInv, NEW r \in MarkRequests, markReq[r].pc \in {"find", "insert", "delete"},
           MarkEnd(r, "failed"), UNCHANGED <<bookmarks, markItems>>
    PROVE  MarksInv'
  <1>1. markReq \in [MarkRequests -> MarkRequest]
    BY MarkTypes DEF MarksInv
  <1>2. PICK request : request = [markReq[r] EXCEPT !.pc = "failed"]
    OBVIOUS
  <1>3. request \in MarkRequest /\ request.pc = "failed" /\ request.op = markReq[r].op
        /\ request.numbers = markReq[r].numbers
    BY <1>1, <1>2 DEF MarkRequest, MarkSteps
  <1>4. markReq' = [markReq EXCEPT ![r] = request]
    <2>1. ASSUME NEW q \in MarkRequests, q # r PROVE [markReq[q] EXCEPT !.stale = markReq[q].stale \/ FALSE] = markReq[q]
      <3>1. markReq[q] \in MarkRequest /\ (markReq[q].stale \/ FALSE) = markReq[q].stale
        BY <1>1 DEF MarkRequest
      <3>2. QED
        BY <3>1 DEF MarkRequest
    <2>2. markReq' = [q \in MarkRequests |-> IF q = r THEN request ELSE markReq[q]]
      BY <1>2, <2>1 DEF MarkEnd
    <2>3. QED
      BY <1>1, <2>2
  <1>5. QED
    BY <1>3, <1>4, MarkGoesOn DEF MarksInv

\* A request is answered with success; from then on nobody who has read
\* before may write.
LEMMA MarkCommits ==
    ASSUME MarksInv, NEW r \in MarkRequests, MarkEnd(r, "ok"), markReq[r].pc \in {"insert", "delete"}
    PROVE  /\ markReq' \in [MarkRequests -> MarkRequest]
           /\ \A q \in MarkRequests :
                /\ markReq'[q].op = markReq[q].op /\ markReq'[q].numbers = markReq[q].numbers
                /\ markReq'[q].id = markReq[q].id
                /\ q # r => markReq'[q].pc = markReq[q].pc
                /\ markReq'[q].pc = "delete" => markReq'[q].stale
           /\ markReq'[r].pc = "ok"
           /\ \A op \in Ops : Answered(op)' = IF op = markReq[r].op THEN Answered(op) \cup {r} ELSE Answered(op)
           /\ \A op \in Ops : r \notin Answered(op)
  <1>1. markReq \in [MarkRequests -> MarkRequest]
    BY MarkTypes DEF MarksInv
  <1>2. ASSUME NEW q \in MarkRequests
        PROVE  /\ markReq'[q] \in MarkRequest
               /\ markReq'[q].op = markReq[q].op /\ markReq'[q].numbers = markReq[q].numbers
               /\ markReq'[q].id = markReq[q].id
               /\ q # r => markReq'[q].pc = markReq[q].pc
               /\ markReq'[q].pc = "delete" => markReq'[q].stale
               /\ q = r => markReq'[q].pc = "ok"
    <2>1. markReq[q] \in MarkRequest
      BY <1>1
    <2>2. CASE q = r
      <3>1. markReq'[q] = [markReq[q] EXCEPT !.pc = "ok"]
        BY <2>2 DEF MarkEnd
      <3>2. QED
        BY <2>1, <2>2, <3>1 DEF MarkRequest, MarkSteps
    <2>3. CASE q # r
      <3>1. markReq'[q] = [markReq[q] EXCEPT !.stale = markReq[q].stale \/ markReq[q].pc = "delete"]
        BY <2>3 DEF MarkEnd
      <3>2. (markReq[q].stale \/ markReq[q].pc = "delete") \in BOOLEAN
        OBVIOUS
      <3>3. /\ markReq'[q] \in MarkRequest
            /\ markReq'[q].op = markReq[q].op /\ markReq'[q].numbers = markReq[q].numbers
            /\ markReq'[q].id = markReq[q].id
            /\ markReq'[q].pc = markReq[q].pc
            /\ markReq'[q].stale = (markReq[q].stale \/ markReq[q].pc = "delete")
        BY <2>1, <3>1, <3>2 DEF MarkRequest
      <3>4. QED
        BY <2>3, <3>3
    <2>4. QED
      BY <2>2, <2>3
  <1>3. markReq' \in [MarkRequests -> MarkRequest]
    <2>1. markReq' = [q \in MarkRequests |-> markReq'[q]]
      BY DEF MarkEnd
    <2>2. QED
      BY <1>2, <2>1
  <1>4. ASSUME NEW op \in Ops
        PROVE  /\ Answered(op)' = IF op = markReq[r].op THEN Answered(op) \cup {r} ELSE Answered(op)
               /\ r \notin Answered(op)
    BY <1>2 DEF Answered
  <1>5. QED
    BY <1>2, <1>3, <1>4

LEMMA MarksNextInv == MarksInv /\ [BookmarksNext]_markVars => MarksInv'
  <1> SUFFICES ASSUME MarksInv, [BookmarksNext]_markVars PROVE MarksInv'
    OBVIOUS
  <1>1. /\ markReq \in [MarkRequests -> MarkRequest]
        /\ bookmarks \in Seq([deleted : BOOLEAN]) /\ Len(bookmarks) <= MaxRowsOfMarks
        /\ markItems \in Seq(MarkItem)
    BY MarkTypes DEF MarksInv
  <1>2. /\ Len(bookmarks) <= Cardinality(Answered("Create"))
        /\ Len(markItems) = Cardinality(Answered("Create"))
        /\ \A b \in 1..Len(bookmarks) : ~bookmarks[b].deleted
        /\ \A i \in 1..Len(markItems) : markItems[i].bookmark \in 1..Len(bookmarks)
        /\ \A r \in MarkRequests :
             /\ markReq[r].op = "Create" /\ markReq[r].pc # "idle" => markReq[r].numbers # {}
             /\ markReq[r].pc = "insert" => markReq[r].op = "Create" /\ markReq[r].id <= Len(bookmarks)
             /\ markReq[r].pc = "delete" => markReq[r].op # "Create"
             /\ markReq[r].pc = "delete" /\ ~markReq[r].stale => markReq[r].id \in LiveItems
        /\ EachDeleteCounts
    BY DEF MarksInv, LiveItems
  <1>3. MaxRowsOfMarks \in Nat
    BY RequestsFinite
  <1>4. /\ IsFiniteSet(LiveItems) /\ Cardinality(LiveItems) \in Nat
        /\ \A op : Cardinality(Answered(op)) \in Nat /\ IsFiniteSet(Answered(op))
        /\ Cardinality(Deleted) \in Nat /\ IsFiniteSet(Deleted)
        /\ Cardinality(Answered("Create")) <= MaxRowsOfMarks
    <2>1. Len(markItems) \in Nat
      BY <1>1
    <2>2. IsFiniteSet(1..Len(markItems))
      BY <2>1, FS_Interval
    <2>3. LiveItems \subseteq 1..Len(markItems)
      BY DEF LiveItems
    <2>4. IsFiniteSet(LiveItems)
      BY <2>2, <2>3, FS_Subset
    <2>5. Cardinality(LiveItems) \in Nat
      BY <2>4, FS_CardinalityType
    <2>6. \A op : Answered(op) \subseteq MarkRequests
      BY DEF Answered
    <2>7. Deleted \subseteq MarkRequests
      BY <2>6 DEF Deleted
    <2>8. QED
      BY <2>4, <2>5, <2>6, <2>7, RequestsFinite
  <1>5. Cardinality(LiveItems) = Cardinality(Answered("Create")) - Cardinality(Deleted)
    BY <1>2, CountsMeans
  <1>6. ASSUME NEW r \in MarkRequests, BeginMark(r) PROVE MarksInv'
    <2>1. PICK op \in Ops, numbers \in SUBSET Numbers :
            /\ op = "Create" => Cardinality(numbers) = 1
            /\ markReq' = [markReq EXCEPT ![r] = [pc |-> "find", op |-> op, numbers |-> numbers,
                                                  id |-> 0, stale |-> FALSE]]
      BY <1>6 DEF BeginMark
    <2>2. op = "Create" => numbers # {}
      BY <2>1, FS_EmptySet
    <2>3. [pc |-> "find", op |-> op, numbers |-> numbers, id |-> 0, stale |-> FALSE] \in MarkRequest
      BY <1>3 DEF MarkRequest, MarkSteps
    <2>4. QED
      BY <1>6, <2>1, <2>2, <2>3, MarkGoesOn DEF BeginMark
  \* A request has found a row.
  <1>7. ASSUME NEW r \in MarkRequests, markReq[r].pc = "find", NEW pc \in {"insert", "delete"},
               NEW id \in 0..MaxRowsOfMarks, Found(r, pc, id), UNCHANGED <<bookmarks, markItems>>,
               pc = "insert" => markReq[r].op = "Create" /\ id <= Len(bookmarks),
               pc = "delete" => markReq[r].op # "Create" /\ id \in LiveItems
        PROVE  MarksInv'
    <2>1. PICK request : request = [markReq[r] EXCEPT !.pc = pc, !.id = id]
      OBVIOUS
    <2>2. markReq[r] \in MarkRequest
      BY <1>1
    <2>3. request \in MarkRequest /\ request.pc = pc /\ request.id = id /\ request.op = markReq[r].op
          /\ request.numbers = markReq[r].numbers
      BY <2>1, <2>2 DEF MarkRequest, MarkSteps
    <2>4. markReq' = [markReq EXCEPT ![r] = request]
      BY <1>1, <1>7, <2>1 DEF Found
    <2>5. QED
      BY <1>2, <1>7, <2>3, <2>4, MarkGoesOn
  <1>8. ASSUME NEW r \in MarkRequests, FindBookmark(r) PROVE MarksInv'
    <2>1. PICK id \in {0} \cup LiveBookmarks : Found(r, "insert", id)
      BY <1>8 DEF FindBookmark
    <2>2. id \in 0..MaxRowsOfMarks /\ id <= Len(bookmarks)
      BY <1>1, <1>3 DEF LiveBookmarks
    <2>3. QED
      BY <1>7, <1>8, <2>1, <2>2 DEF FindBookmark
  <1>9. ASSUME NEW r \in MarkRequests, FindItem(r) PROVE MarksInv'
    <2>1. CASE MarkEnd(r, "failed")
      BY <1>9, <2>1, MarkFails DEF FindItem
    <2>2. CASE \E id \in Deletable(r) : Found(r, "delete", id)
      <3>1. PICK id \in Deletable(r) : Found(r, "delete", id)
        BY <2>2
      <3>2. id \in LiveItems
        BY DEF Deletable, Shown, LiveItems
      <3>3. id \in 0..MaxRowsOfMarks
        BY <1>2, <1>3, <1>4, <3>2 DEF LiveItems
      <3>4. QED
        BY <1>7, <1>9, <3>1, <3>2, <3>3 DEF FindItem
    <2>3. QED
      BY <1>9, <2>1, <2>2 DEF FindItem
  <1>10. ASSUME NEW r \in MarkRequests, CreateItem(r) PROVE MarksInv'
    <2>1. CASE MarkEnd(r, "failed") /\ UNCHANGED <<bookmarks, markItems>>
      BY <1>10, <2>1, MarkFails DEF CreateItem
    <2>2. CASE ~UNCHANGED <<bookmarks, markItems>> \/ ~MarkEnd(r, "failed")
      <3>1. PICK id, number :
              /\ id = IF markReq[r].id = 0 THEN Len(bookmarks) + 1 ELSE markReq[r].id
              /\ number = CHOOSE n \in markReq[r].numbers : TRUE
              /\ bookmarks' = IF markReq[r].id = 0 THEN Append(bookmarks, [deleted |-> FALSE]) ELSE bookmarks
              /\ markItems' = Append(markItems, [bookmark |-> id, number |-> number, deleted |-> FALSE])
              /\ MarkEnd(r, "ok")
        BY <1>10, <2>2 DEF CreateItem
      <3>2. /\ markReq[r].pc = "insert" /\ markReq[r].op = "Create" /\ markReq[r].id \in 0..Len(bookmarks)
            /\ number \in Numbers
        BY <1>1, <1>2, <1>3, <1>10, <3>1 DEF CreateItem, MarkRequest
      <3>3. /\ markReq' \in [MarkRequests -> MarkRequest]
            /\ \A q \in MarkRequests :
                 /\ markReq'[q].op = markReq[q].op /\ markReq'[q].numbers = markReq[q].numbers
                 /\ markReq'[q].id = markReq[q].id
                 /\ q # r => markReq'[q].pc = markReq[q].pc
                 /\ markReq'[q].pc = "delete" => markReq'[q].stale
            /\ markReq'[r].pc = "ok"
            /\ \A op \in Ops : Answered(op)' = IF op = markReq[r].op THEN Answered(op) \cup {r} ELSE Answered(op)
            /\ \A op \in Ops : r \notin Answered(op)
        BY <3>1, <3>2, MarkCommits
      <3>4. Cardinality(Answered("Create")') = Cardinality(Answered("Create")) + 1 /\ Deleted' = Deleted
        <4>1. Answered("Create")' = Answered("Create") \cup {r} /\ r \notin Answered("Create")
          BY <3>2, <3>3 DEF Ops
        <4>2. Answered("UpdateAll")' = Answered("UpdateAll") /\ Answered("DeleteParent")' = Answered("DeleteParent")
          BY <3>2, <3>3 DEF Ops
        <4>3. QED
          BY <1>4, <4>1, <4>2, FS_AddElement DEF Deleted
      <3>5. Cardinality(Answered("Create")') <= MaxRowsOfMarks
        <4>1. Answered("Create")' \subseteq MarkRequests
          BY DEF Answered
        <4>2. QED
          BY <4>1, RequestsFinite
      <3>6. /\ bookmarks' \in Seq([deleted : BOOLEAN])
            /\ Len(bookmarks') \in {Len(bookmarks), Len(bookmarks) + 1}
            /\ id \in 1..Len(bookmarks')
            /\ \A b \in 1..Len(bookmarks') : ~bookmarks'[b].deleted
        <4>1. CASE markReq[r].id # 0
          BY <1>1, <1>2, <3>1, <3>2, <4>1
        <4>2. CASE markReq[r].id = 0
          <5>1. PICK bookmark \in [deleted : BOOLEAN] : bookmark = [deleted |-> FALSE] /\ ~bookmark.deleted
            <6>1. [deleted |-> FALSE] \in [deleted : BOOLEAN] /\ ~[deleted |-> FALSE].deleted
              OBVIOUS
            <6>2. QED
              BY <6>1
          <5>2. bookmarks' = Append(bookmarks, bookmark) /\ id = Len(bookmarks) + 1
            BY <3>1, <4>2, <5>1
          <5>3. /\ bookmarks' \in Seq([deleted : BOOLEAN]) /\ Len(bookmarks') = Len(bookmarks) + 1
                /\ bookmarks'[Len(bookmarks) + 1] = bookmark
                /\ \A b \in 1..Len(bookmarks) : bookmarks'[b] = bookmarks[b]
            BY <1>1, <5>2
          <5>4. Len(bookmarks) \in Nat
            BY <1>1
          <5>5. QED
            BY <1>2, <5>1, <5>2, <5>3, <5>4
        <4>3. QED
          BY <4>1, <4>2
      <3>7. Len(bookmarks) \in Nat /\ Len(markItems) \in Nat
        BY <1>1
      <3>8. Len(bookmarks') <= Cardinality(Answered("Create")')
        BY <1>2, <1>4, <3>4, <3>6, <3>7
      <3>9. [bookmark |-> id, number |-> number, deleted |-> FALSE] \in MarkItem
        BY <1>3, <1>4, <3>2, <3>4, <3>5, <3>6, <3>7, <3>8 DEF MarkItem
      <3>10. /\ markItems' \in Seq(MarkItem) /\ Len(markItems') = Len(markItems) + 1
             /\ \A i \in 1..Len(markItems) : markItems'[i] = markItems[i]
             /\ markItems'[Len(markItems) + 1] = [bookmark |-> id, number |-> number, deleted |-> FALSE]
        BY <1>1, <3>1, <3>9
      <3>11. LiveItems' = LiveItems \cup {Len(markItems) + 1} /\ Len(markItems) + 1 \notin LiveItems
        BY <3>7, <3>10 DEF LiveItems
      <3>12. Cardinality(LiveItems') = Cardinality(LiveItems) + 1
        BY <1>4, <3>11, FS_AddElement
      <3>13. EachDeleteCounts'
        <4>1. Cardinality(LiveItems') = Cardinality(Answered("Create")') - Cardinality(Deleted')
          BY <1>4, <1>5, <3>4, <3>12
        <4>2. QED
          BY <4>1 DEF EachDeleteCounts, LiveItems, Deleted
      <3>14. BookmarksTypeOK'
        <4>1. Len(bookmarks') <= MaxRowsOfMarks
          BY <1>3, <1>4, <3>4, <3>5, <3>6, <3>7, <3>8
        <4>2. QED
          BY <3>3, <3>6, <3>10, <4>1 DEF BookmarksTypeOK, MarkRequest, MarkSteps, MarkItem, MaxRowsOfMarks
      <3>15. \A i \in 1..Len(markItems') : markItems'[i].bookmark \in 1..Len(bookmarks')
        BY <1>2, <3>6, <3>7, <3>10
      <3>16. \A q \in MarkRequests :
               /\ markReq'[q].op = "Create" /\ markReq'[q].pc # "idle" => markReq'[q].numbers # {}
               /\ markReq'[q].pc = "insert" => markReq'[q].op = "Create" /\ markReq'[q].id <= Len(bookmarks')
               /\ markReq'[q].pc = "delete" => markReq'[q].op # "Create"
               /\ markReq'[q].pc = "delete" => markReq'[q].stale
        <4>1. ASSUME NEW q \in MarkRequests, markReq'[q].pc = "insert"
              PROVE  markReq'[q].op = "Create" /\ markReq'[q].id <= Len(bookmarks')
          <5>1. markReq[q].pc = "insert" /\ markReq[q].id \in Nat
            BY <1>1, <1>3, <3>3, <4>1 DEF MarkRequest
          <5>2. QED
            BY <1>2, <3>3, <3>6, <3>7, <5>1
        <4>2. QED
          BY <1>2, <3>2, <3>3, <4>1
      <3>17. Len(markItems') = Cardinality(Answered("Create")')
        BY <1>2, <3>4, <3>10
      <3>18. QED
        BY <3>6, <3>8, <3>13, <3>14, <3>15, <3>16, <3>17 DEF MarksInv
    <2>3. QED
      BY <2>1, <2>2
  <1>11. ASSUME NEW r \in MarkRequests, DeleteItem(r) PROVE MarksInv'
    <2>1. CASE MarkEnd(r, "failed") /\ UNCHANGED <<bookmarks, markItems>>
      BY <1>11, <2>1, MarkFails DEF DeleteItem
    <2>2. CASE ~UNCHANGED <<bookmarks, markItems>> \/ ~MarkEnd(r, "failed")
      <3>1. /\ ~markReq[r].stale /\ markReq[r].pc = "delete"
            /\ markItems' = [markItems EXCEPT ![markReq[r].id].deleted = TRUE]
            /\ bookmarks' = bookmarks
            /\ MarkEnd(r, "ok")
        BY <1>11, <2>2 DEF DeleteItem, MayWrite, BookmarksAfter
      <3>2. PICK id \in LiveItems : id = markReq[r].id
        BY <1>2, <3>1
      <3>3. /\ markReq' \in [MarkRequests -> MarkRequest]
            /\ \A q \in MarkRequests :
                 /\ markReq'[q].op = markReq[q].op /\ markReq'[q].numbers = markReq[q].numbers
                 /\ markReq'[q].id = markReq[q].id
                 /\ q # r => markReq'[q].pc = markReq[q].pc
                 /\ markReq'[q].pc = "delete" => markReq'[q].stale
            /\ markReq'[r].pc = "ok"
            /\ \A op \in Ops : Answered(op)' = IF op = markReq[r].op THEN Answered(op) \cup {r} ELSE Answered(op)
            /\ \A op \in Ops : r \notin Answered(op)
        BY <3>1, MarkCommits
      <3>4. Answered("Create")' = Answered("Create") /\ Deleted' = Deleted \cup {r} /\ r \notin Deleted
        <4>1. markReq[r].op \in {"UpdateAll", "DeleteParent"}
          BY <1>1, <1>2, <3>1 DEF MarkRequest, Ops
        <4>2. QED
          BY <3>3, <4>1 DEF Deleted, Ops
      <3>5. Cardinality(Deleted') = Cardinality(Deleted) + 1
        BY <1>4, <3>4, FS_AddElement
      <3>6. /\ markItems' \in Seq(MarkItem) /\ Len(markItems') = Len(markItems)
            /\ \A i \in 1..Len(markItems) :
                 /\ markItems'[i].bookmark = markItems[i].bookmark
                 /\ markItems'[i].deleted = (i = id \/ markItems[i].deleted)
        <4>1. id \in 1..Len(markItems)
          BY DEF LiveItems
        <4>2. markItems[id] \in MarkItem
          BY <1>1, <4>1
        <4>3. PICK item : item = [markItems[id] EXCEPT !.deleted = TRUE]
          OBVIOUS
        <4>4. item \in MarkItem /\ item.deleted /\ item.bookmark = markItems[id].bookmark
          BY <4>2, <4>3 DEF MarkItem
        <4>5. markItems' = [markItems EXCEPT ![id] = item]
          BY <1>1, <3>1, <3>2, <4>1, <4>3
        <4>6. /\ markItems' \in Seq(MarkItem) /\ Len(markItems') = Len(markItems)
              /\ markItems'[id] = item
              /\ \A i \in 1..Len(markItems) : i # id => markItems'[i] = markItems[i]
          BY <1>1, <4>1, <4>4, <4>5
        <4>7. \A i \in 1..Len(markItems) : markItems[i].deleted \in BOOLEAN
          <5>1. \A i \in 1..Len(markItems) : markItems[i] \in MarkItem
            BY <1>1
          <5>2. QED
            BY <5>1 DEF MarkItem
        <4>8. QED
          BY <4>4, <4>6, <4>7
      <3>7. LiveItems' = LiveItems \ {id}
        BY <3>6 DEF LiveItems
      <3>8. Cardinality(LiveItems') = Cardinality(LiveItems) - 1
        BY <1>4, <3>7, FS_RemoveElement
      <3>9. EachDeleteCounts'
        <4>1. Cardinality(LiveItems') = Cardinality(Answered("Create")') - Cardinality(Deleted')
          BY <1>4, <1>5, <3>4, <3>5, <3>8
        <4>2. QED
          BY <4>1 DEF EachDeleteCounts, LiveItems, Deleted
      <3>10. BookmarksTypeOK'
        BY <1>1, <3>1, <3>3, <3>6 DEF BookmarksTypeOK, MarkRequest, MarkSteps, MarkItem, MaxRowsOfMarks
      <3>11. \A q \in MarkRequests :
               /\ markReq'[q].op = "Create" /\ markReq'[q].pc # "idle" => markReq'[q].numbers # {}
               /\ markReq'[q].pc = "insert" => markReq'[q].op = "Create" /\ markReq'[q].id <= Len(bookmarks')
               /\ markReq'[q].pc = "delete" => markReq'[q].op # "Create"
               /\ markReq'[q].pc = "delete" => markReq'[q].stale
        BY <1>2, <3>1, <3>3
      <3>12. QED
        BY <1>2, <3>1, <3>4, <3>6, <3>9, <3>10, <3>11 DEF MarksInv
    <2>3. QED
      BY <2>1, <2>2
  <1>12. CASE UNCHANGED markVars
    BY <1>12 DEF markVars, MarksInv, BookmarksTypeOK, LiveItems, EachDeleteCounts, Answered
  <1>13. QED
    BY <1>6, <1>8, <1>9, <1>10, <1>11, <1>12 DEF BookmarksNext

LEMMA MarksInvariance == BookmarksSpec => []MarksInv
  BY MarksInitInv, MarksNextInv, PTL DEF BookmarksSpec

\* Every item that is not deleted is shown under its title, however many
\* requests create its bookmark at once.
THEOREM ItemsAreShown == BookmarksSpec => []AddedItemsVisible
  <1>1. MarksInv => AddedItemsVisible
    BY DEF MarksInv, AddedItemsVisible, Shown, LiveBookmarks
  <1>2. QED
    BY <1>1, MarksInvariance, PTL

\* No two deletions that are answered with success delete the same item.
THEOREM DeletionsCount == BookmarksSpec => []EachDeleteCounts
  BY MarksInvariance, PTL DEF MarksInv

=============================================================================
