----------------------------- MODULE Bookmarks -----------------------------
(***************************************************************************)
(* internal/bookmark: the items of one user under one title and one book.  *)
(* A transaction of the database sees the tables as they were at its first *)
(* read, and its first write fails when anything was committed since.      *)
(***************************************************************************)
EXTENDS Naturals, Sequences, FiniteSets

CONSTANTS
    MarkRequests,   \* requests
    Numbers         \* hadith numbers

ASSUME BookmarkAssumption == Numbers \subseteq Nat /\ IsFiniteSet(MarkRequests)

VARIABLES
    markReq,    \* the requests
    bookmarks,  \* the rows of bookmark, by id: deleted or not
    markItems   \* the rows of bookmark_item, by id

markVars == <<markReq, bookmarks, markItems>>

Ops == {"Create", "UpdateAll", "DeleteParent"}

MaxRowsOfMarks == Cardinality(MarkRequests)

BookmarksTypeOK ==
    /\ markReq \in [MarkRequests ->
          [pc : {"idle", "find", "insert", "delete", "ok", "failed"},
           op : Ops, numbers : SUBSET Numbers,   \* the new item, or the payload
           id : 0..MaxRowsOfMarks,  \* the bookmark or the item that was found
           stale : BOOLEAN]]        \* was something committed since the find?
    /\ bookmarks \in Seq([deleted : BOOLEAN]) /\ Len(bookmarks) <= MaxRowsOfMarks
    /\ markItems \in Seq([bookmark : 1..MaxRowsOfMarks, number : Numbers, deleted : BOOLEAN])

BookmarksInit ==
    /\ markReq = [r \in MarkRequests |->
         [pc |-> "idle", op |-> "Create", numbers |-> {}, id |-> 0, stale |-> FALSE]]
    /\ bookmarks = <<>>
    /\ markItems = <<>>

-----------------------------------------------------------------------------
LiveBookmarks == {b \in 1..Len(bookmarks) : ~bookmarks[b].deleted}

\* GetItemsByTitle, GetBookNumbersByTitleAndBookName: the join over every
\* bookmark with the title.
Shown == {i \in 1..Len(markItems) :
            ~markItems[i].deleted /\ markItems[i].bookmark \in LiveBookmarks}

\* A request ends; when it has committed, the snapshots of the others are old.
MarkEnd(r, pc) ==
    markReq' = [q \in MarkRequests |->
      IF q = r THEN [markReq[q] EXCEPT !.pc = pc]
      ELSE [markReq[q] EXCEPT !.stale = @ \/ (pc = "ok" /\ markReq[q].pc = "delete")]]

Found(r, pc, id) == markReq' = [markReq EXCEPT ![r].pc = pc, ![r].id = id]

BeginMark(r) ==
    /\ markReq[r].pc = "idle"
    /\ \E op \in Ops, numbers \in SUBSET Numbers :
         /\ op = "Create" => Cardinality(numbers) = 1
         /\ op = "UpdateAll" => numbers # {}
         /\ op = "DeleteParent" => numbers = {}
         /\ markReq' = [markReq EXCEPT ![r] = [pc |-> "find", op |-> op, numbers |-> numbers,
                                               id |-> 0, stale |-> FALSE]]
    /\ UNCHANGED <<bookmarks, markItems>>

\* FindBookmarkIDByUserAndTitle, on another connection than the transaction,
\* and 0 for an error, too.
FindBookmark(r) ==
    /\ markReq[r].pc = "find" /\ markReq[r].op = "Create"
    /\ \E id \in {0} \cup LiveBookmarks : Found(r, "insert", id)
    /\ UNCHANGED <<bookmarks, markItems>>

\* The bookmark, when none was found, its item and the activity, or nothing:
\* the transaction begins with the write.
CreateItem(r) ==
    /\ markReq[r].pc = "insert"
    /\ \/ LET at == markReq[r]
              id == IF at.id = 0 THEN Len(bookmarks) + 1 ELSE at.id
          IN /\ bookmarks' = IF at.id = 0 THEN Append(bookmarks, [deleted |-> FALSE]) ELSE bookmarks
             /\ markItems' = Append(markItems,
                  [bookmark |-> id, number |-> CHOOSE n \in at.numbers : TRUE, deleted |-> FALSE])
             /\ MarkEnd(r, "ok")
       \/ MarkEnd(r, "failed") /\ UNCHANGED <<bookmarks, markItems>>

\* FindBookmarkItemToDeleteTx: an item whose number is not in the payload.
\* FindBookmarkItemForDeleteTx: the first item of the book.
Deletable(r) ==
    LET candidates == {i \in Shown : markItems[i].number \notin markReq[r].numbers} IN
    IF markReq[r].op = "UpdateAll"
    THEN candidates
    ELSE {i \in candidates : \A j \in candidates : i <= j}

FindItem(r) ==
    /\ markReq[r].pc = "find" /\ markReq[r].op # "Create"
    /\ \/ \E id \in Deletable(r) : Found(r, "delete", id)
       \/ MarkEnd(r, "failed")
    /\ UNCHANGED <<bookmarks, markItems>>

\* Variant with a bug: the item is found outside the transaction.
MayWriteAnyway(r) == TRUE

\* The first write of a transaction that has read.
MayWrite(r) == ~markReq[r].stale

\* Variant with a bug: the bookmark goes with its first item.
BookmarksAfterDelete(r) ==
    IF markReq[r].op = "DeleteParent"
    THEN [bookmarks EXCEPT ![markItems[markReq[r].id].bookmark].deleted = TRUE] ELSE bookmarks

\* DeleteParent deletes one item and no bookmark.
BookmarksAfter(r) == bookmarks

\* UpdateAll and DeleteParent soft-delete the ONE item that was found and
\* record the activity, or do nothing.  (The README says otherwise, see
\* GroupFollowsRequest.)
DeleteItem(r) ==
    /\ markReq[r].pc = "delete"
    /\ \/ /\ MayWrite(r)
          /\ markItems' = [markItems EXCEPT ![markReq[r].id].deleted = TRUE]
          /\ bookmarks' = BookmarksAfter(r)
          /\ MarkEnd(r, "ok")
       \/ MarkEnd(r, "failed") /\ UNCHANGED <<bookmarks, markItems>>

BookmarksNext ==
    \E r \in MarkRequests :
      BeginMark(r) \/ FindBookmark(r) \/ CreateItem(r) \/ FindItem(r) \/ DeleteItem(r)

BookmarksSpec == BookmarksInit /\ [][BookmarksNext]_markVars

-----------------------------------------------------------------------------
Answered(op) == {r \in MarkRequests : markReq[r].op = op /\ markReq[r].pc = "ok"}

\* Every item that is not deleted is shown under its title, although two
\* requests may create the bookmark twice, and although a bookmark is looked
\* up before the transaction that adds to it: bookmarks are never deleted.
AddedItemsVisible == \A i \in 1..Len(markItems) : ~markItems[i].deleted => i \in Shown

\* What the code does keep about its one-item deletions: the items left are
\* those that were created less one for each UpdateAll and DeleteParent that was
\* answered with success, so no two of them count the same item as theirs.
EachDeleteCounts ==
    Cardinality({i \in 1..Len(markItems) : ~markItems[i].deleted}) =
      Cardinality(Answered("Create")) - Cardinality(Answered("UpdateAll") \cup Answered("DeleteParent"))

\* What the code does not keep.  README "Update all bookmark items", "Delete a
\* bookmark group": when a PUT of the book succeeds, every item that is left is
\* one of its payload, and when a DELETE succeeds none is.
GroupFollowsRequest ==
    [][\A r \in MarkRequests :
         markReq[r].pc = "delete" /\ markReq'[r].pc = "ok" =>
           \A i \in Shown' : markItems'[i].number \in markReq[r].numbers]_markVars
=============================================================================
