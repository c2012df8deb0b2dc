------------------------------- MODULE LoadRow -------------------------------
(***************************************************************************)
(* The readers of internal/hadithdata: a row is fetched, then helpers, a   *)
(* goroutine each, fill its titles, its other number and the count of the  *)
(* book.  Every helper reports on an unbuffered channel of its own, and    *)
(* the handler receives from the channels in a fixed order, returning at   *)
(* the first error.  Loads share no state but the tables, which nothing    *)
(* here writes.                                                            *)
(***************************************************************************)
EXTENDS Naturals, Sequences

CONSTANTS
    Loads,      \* requests
    PageRows    \* rows on the page of the admin's list, at most

ASSUME LoadAssumption == PageRows \in Nat

VARIABLES
    load,       \* the handler of every request
    helper,     \* the goroutines that fill the row at hand
    filled      \* the fields of that row that are set

loadVars == <<load, helper, filled>>

Helpers == {"countRows", "getMinimalKitab", "getMinimalBab", "getNoLain"}

\* LoadMainData (OtherNumber, too), LoadClassificationData, LoadCustomData,
\* AfterGetTotalHadith, and SearchMainData, which loads a page of rows.
Kinds == {"main", "classification", "custom", "total", "page"}

\* The order in which the channels are read.
Order(kind) ==
    IF kind \in {"main", "classification"}
    THEN <<"countRows", "getMinimalKitab", "getMinimalBab", "getNoLain">>
    ELSE <<"getMinimalKitab", "getMinimalBab", "getNoLain">>

HelpersOf(kind) == {Order(kind)[i] : i \in 1..Len(Order(kind))}

\* "ok", "error": blocked on sending nil or an error; "again": blocked on the
\* nil that the helpers of "main" and "classification" send after their error.
HelperStates == {"none", "query", "ok", "error", "again", "ended"}

Load == [pc : {"idle", "receive", "answered", "failed"}, kind : Kinds,
         rows : 0..PageRows, next : 1..4]

LoadTypeOK ==
    /\ load \in [Loads -> Load]
    /\ helper \in [Loads -> [Helpers -> HelperStates]]
    /\ filled \in [Loads -> SUBSET Helpers]

Launched(kind) == [h \in Helpers |-> IF h \in HelpersOf(kind) THEN "query" ELSE "none"]

LoadInit ==
    /\ load = [l \in Loads |-> [pc |-> "idle", kind |-> "main", rows |-> 0, next |-> 1]]
    /\ helper = [l \in Loads |-> [h \in Helpers |-> "none"]]
    /\ filled = [l \in Loads |-> {}]

-----------------------------------------------------------------------------
Launch(l, kind, rows) ==
    /\ load' = [load EXCEPT ![l] = [pc |-> "receive", kind |-> kind, rows |-> rows, next |-> 1]]
    /\ helper' = [helper EXCEPT ![l] = Launched(kind)]
    /\ filled' = [filled EXCEPT ![l] = {}]

End(l, pc, kind) ==
    /\ load' = [load EXCEPT ![l] = [@ EXCEPT !.pc = pc, !.kind = kind, !.rows = 0]]
    /\ UNCHANGED filled

\* The first query.  A missing row is an error, except for "total", whose
\* Limit(1).Find returns an empty row, after an empty list of numbers was
\* answered as it is; a page may be empty.
FetchRow(l) ==
    /\ load[l].pc = "idle"
    /\ \E kind \in Kinds :
         \/ kind # "page" /\ Launch(l, kind, 0)
         \/ kind = "page" /\ \E rows \in 1..PageRows : Launch(l, kind, rows - 1)
         \/ End(l, "failed", kind) /\ UNCHANGED helper
         \/ kind \in {"total", "page"} /\ End(l, "answered", kind) /\ UNCHANGED helper

\* Variant with a bug: LoadCustomData's helpers return without a word when
\* there is no title.
OutcomesSilent(kind) == IF kind = "custom" THEN {"ok", "error", "ended"} ELSE {"ok", "error"}

Outcomes(kind) == {"ok", "error"}

\* The query of one helper, and the field it sets when the query succeeds.
\* A title that is missing is an error for "classification" and "total"
\* only; the others set an empty one.
Query(l, h) ==
    /\ helper[l][h] = "query"
    /\ \E outcome \in Outcomes(load[l].kind) :
         /\ helper' = [helper EXCEPT ![l][h] = outcome]
         /\ filled' = [filled EXCEPT ![l] = IF outcome = "ok" THEN @ \cup {h} ELSE @]
    /\ UNCHANGED load

\* Variant with a bug: the return after the error is missing everywhere.
AfterErrorOnce(kind) == "again"

\* What a helper does once its error was received.
AfterError(kind) == IF kind = "custom" THEN "ended" ELSE "again"

\* Variant with a bug: one receive too few.
IsLastEarly(at) == at.next + 1 >= Len(Order(at.kind))

IsLast(at) == at.next = Len(Order(at.kind))

\* The handler receives from the next channel: it returns at an error, goes
\* on to the next channel or row, or answers.  The helper has sent its nil
\* and ends.
ReceiveField(l) ==
    LET at == load[l]
        h == Order(at.kind)[at.next]
        helperEnds == helper' = [helper EXCEPT ![l][h] = "ended"]
    IN
    /\ at.pc = "receive"
    /\ \/ /\ helper[l][h] = "error"
          /\ End(l, "failed", at.kind)
          /\ helper' = [helper EXCEPT ![l][h] = AfterError(at.kind)]
       \/ /\ helper[l][h] = "ok"
          /\ ~IsLast(at)
          /\ load' = [load EXCEPT ![l].next = @ + 1]
          /\ helperEnds /\ UNCHANGED filled
       \/ /\ helper[l][h] = "ok"
          /\ IsLast(at)
          /\ IF at.rows > 0
             THEN Launch(l, at.kind, at.rows - 1)
             ELSE End(l, "answered", at.kind) /\ helperEnds

LoadStep(l) == ReceiveField(l) \/ \E h \in Helpers : Query(l, h)

LoadNext == \E l \in Loads : FetchRow(l) \/ LoadStep(l)

\* Goroutines run and queries return, in any order.
LoadFairness == \A l \in Loads : WF_loadVars(LoadStep(l))

LoadSpec == LoadInit /\ [][LoadNext]_loadVars /\ LoadFairness

-----------------------------------------------------------------------------
\* A row is answered only when every helper has set its field and has ended:
\* nothing writes to the row while it is encoded.
RowsAreComplete ==
    \A l \in Loads :
      load[l].pc = "answered" /\ load[l].next > 1 =>
        /\ filled[l] = HelpersOf(load[l].kind)
        /\ \A h \in HelpersOf(load[l].kind) : helper[l][h] = "ended"

\* A goroutine never gets rid of its result when nobody receives it any more.
Leaked(l) ==
    {h \in Helpers : load[l].pc \in {"answered", "failed"} /\ helper[l][h] \notin {"none", "ended"}}

\* Goroutines leak after errors only, and then exactly those whose channel is
\* read after the one that failed, and, except for LoadCustomData, that one.
LeaksAfterErrors ==
    \A l \in Loads :
      LET at == load[l]
          from == IF at.kind = "custom" THEN at.next + 1 ELSE at.next
      IN /\ at.pc = "answered" => Leaked(l) = {}
         /\ at.pc = "failed" /\ helper[l] # [h \in Helpers |-> "none"] =>
              Leaked(l) = {Order(at.kind)[i] : i \in from..Len(Order(at.kind))}

\* Every request is answered, whichever helpers fail.
LoadsEnd == \A l \in Loads : load[l].pc = "receive" ~> load[l].pc \in {"answered", "failed"}
=============================================================================
