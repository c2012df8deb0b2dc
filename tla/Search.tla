------------------------------- MODULE Search -------------------------------
(***************************************************************************)
(* internal/search: a search of one book, or of a list of books with a     *)
(* goroutine for each, over the cache of full-text expressions of          *)
(* shared/utils/lru_cache.go, of which each process (Prefork) has one.     *)
(* The tables searched are never written here, so what a query finds is a  *)
(* number of rows, or an error.                                            *)
(***************************************************************************)
EXTENDS Naturals, Sequences, FiniteSets
LOCAL INSTANCE SequencesExt
LOCAL INSTANCE FiniteSetsExt

CONSTANTS
    Searches,   \* requests
    Books,      \* the keys of models.GetIndexOfKitab
    Unknown,    \* a name that is not one of them
    Asks,       \* what each may ask for: records of all (SearchHadithAll, or
                \* GetSearchHadith), books and words, the filtered keywords: a
                \* sequence of words, a word being a sequence of letters
    Capacity,   \* of the cache (500)
    TTL,        \* of an entry of the cache (two hours)
    MaxRows,    \* rows of one book, at most
    MaxNow      \* bound of the clock

AllAsks == UNION {Asks[s] : s \in Searches}

ASSUME SearchAssumption ==
    /\ Unknown \notin Books
    /\ \A ask \in AllAsks : /\ ask.all \in BOOLEAN /\ ask.books \in Seq(Books \cup {Unknown})
                            /\ ~ask.all => Len(ask.books) = 1
    /\ Capacity \in Nat \ {0} /\ TTL \in Nat /\ MaxRows \in Nat /\ MaxNow \in Nat

VARIABLES
    search,     \* the handlers
    worker,     \* a goroutine for every book of a handler
    channel,    \* the results that the handler has not received, by worker
    order,      \* the list of the cache, the entry used last in front
    items,      \* the keys of the map of the cache
    now         \* the clock

searchVars == <<search, worker, channel, order, items, now>>

Queries == {ask.words : ask \in AllAsks}

Key(words) == FlattenSeq(words)     \* strings.Join(filtered, "")

Positions == 1..Max({Len(ask.books) : ask \in AllAsks})

\* An expression: the words it was built from and when.
Exprs == [words : Queries, at : 0..MaxNow]
NoExpr == [words |-> <<>>, at |-> 0]

NoWorker == [pc |-> "none", expr |-> NoExpr, rows |-> 0, err |-> FALSE]
NoResult == MaxRows + 1

SearchTypeOK ==
    /\ search \in [Searches -> [pc : {"idle", "receive", "answered", "failed"},
                                all : BOOLEAN, books : {ask.books : ask \in AllAsks} \cup {<<>>},
                                words : Queries \cup {<<>>},
                                results : [Books \cup {Unknown} -> 0..NoResult],
                                total : Nat]]
    /\ worker \in [Searches -> [Positions ->
                     [pc : {"none", "start", "lookup", "cached", "build", "sent"},
                      expr : Exprs \cup {NoExpr}, rows : 0..MaxRows, err : BOOLEAN]]]
    /\ \A s \in Searches : channel[s] \in Seq(Positions)
    /\ \A i \in 1..Len(order) : order[i].expr \in Exprs /\ order[i].expiresAt \in 0..(MaxNow + TTL)
    /\ items \subseteq {Key(words) : words \in Queries}
    /\ now \in 0..MaxNow

SearchInit ==
    /\ search = [s \in Searches |->
                   [pc |-> "idle", all |-> FALSE, words |-> <<>>, books |-> <<>>,
                    results |-> [b \in Books \cup {Unknown} |-> NoResult], total |-> 0]]
    /\ worker = [s \in Searches |-> [i \in Positions |-> NoWorker]]
    /\ channel = [s \in Searches |-> <<>>]
    /\ order = <<>>
    /\ items = {}
    /\ now = 0

-----------------------------------------------------------------------------
(* The cache.  Each operation holds its mutex. *)

EntryOf(key) == CHOOSE i \in 1..Len(order) : order[i].key = key

ToFront(entry, i) == <<entry>> \o RemoveAt(order, i)

\* Variant with a bug: an entry lives on as long as it is used.
HitSliding(entry) ==
    IF now > entry.expiresAt THEN {} ELSE {[entry EXCEPT !.expiresAt = now + TTL]}

\* The entry, unless it has expired.
Hit(entry) == IF now > entry.expiresAt THEN {} ELSE {entry}

Found(key) == IF key \in items THEN Hit(order[EntryOf(key)]) ELSE {}

\* c.Get: an entry that is found moves to the front, an expired one goes.
Get(key) ==
    IF key \notin items
    THEN UNCHANGED <<order, items>>
    ELSE LET i == EntryOf(key) IN
         IF Found(key) = {}
         THEN order' = RemoveAt(order, i) /\ items' = items \ {key}
         ELSE order' = ToFront(CHOOSE e \in Found(key) : TRUE, i) /\ UNCHANGED items

\* Variant with a bug: the map keeps the key of the entry that is evicted.
EvictedFromList == {}

\* The keys that Set takes out of the map when the list is full.
Evicted == IF Len(order) >= Capacity THEN {Last(order).key} ELSE {}

\* c.Set: a new value for the key, or a new entry in place of the oldest.
Set(key, expr) ==
    LET entry == [key |-> key, expr |-> expr, expiresAt |-> now + TTL] IN
    IF key \in items
    THEN order' = ToFront(entry, EntryOf(key)) /\ UNCHANGED items
    ELSE /\ order' = <<entry>> \o (IF Len(order) >= Capacity THEN Front(order) ELSE order)
         /\ items' = (items \ Evicted) \cup {key}

-----------------------------------------------------------------------------
(* A search of one book: searchOneKitab and indonesiaFTSearch. *)

At(s, i, pc) == worker[s][i].pc = pc

\* The book is done: its rows, or an error, go to the channel, which has room
\* for a result of every book.
Done(s, i, rows, err) ==
    /\ worker' = [worker EXCEPT ![s][i] = [NoWorker EXCEPT !.pc = "sent", !.rows = rows, !.err = err]]
    /\ channel' = [channel EXCEPT ![s] = Append(@, i)]

Goto(s, i, pc, expr) ==
    /\ worker' = [worker EXCEPT ![s][i] = [worker[s][i] EXCEPT !.pc = pc, !.expr = expr]]
    /\ UNCHANGED channel

\* A name that is no book's fails, unasked or by its query.  A single word,
\* another column or a book without full-text table: one LIKE query, which may
\* fail.  Several words in the column Indonesia: the first
\* two ranks, an error of which is the search's, then the cache.
Start(s, i) ==
    /\ At(s, i, "start")
    /\ IF search[s].books[i] = Unknown
       THEN Done(s, i, 0, TRUE)
       ELSE \/ \E rows \in 0..MaxRows : Done(s, i, rows, FALSE)
            \/ Done(s, i, 0, TRUE)
            \/ Len(search[s].words) > 1 /\ Goto(s, i, "lookup", NoExpr)
    /\ UNCHANGED <<search, order, items, now>>

Lookup(s, i) ==
    /\ At(s, i, "lookup")
    /\ LET key == Key(search[s].words) IN
       /\ Get(key)
       /\ IF Found(key) = {}
          THEN Goto(s, i, "build", NoExpr)
          ELSE Goto(s, i, "cached", (CHOOSE e \in Found(key) : TRUE).expr)
    /\ UNCHANGED <<search, now>>

\* The cached expression is used when it finds rows; an error counts as none.
\* Rows of the earlier ranks and of the fallback are among the answer's.
RunCached(s, i) ==
    /\ At(s, i, "cached")
    /\ \/ \E rows \in 1..MaxRows : Done(s, i, rows, FALSE)
       \/ Goto(s, i, "build", NoExpr)
    /\ UNCHANGED <<search, order, items, now>>

\* The expression is built from the dictionary, stored, whatever it finds, and
\* run, which is one step here; when the dictionary leaves fewer than two words
\* there is none.
Build(s, i) ==
    /\ At(s, i, "build")
    /\ \E rows \in 0..MaxRows : Done(s, i, rows, FALSE)
    /\ \/ Set(Key(search[s].words), [words |-> search[s].words, at |-> now])
       \/ UNCHANGED <<order, items>>
    /\ UNCHANGED <<search, now>>

-----------------------------------------------------------------------------
(* The handlers GetSearchHadith and SearchHadithAll. *)

Ask(s) ==
    /\ search[s].pc = "idle"
    /\ \E ask \in Asks[s] :
         /\ search' = [search EXCEPT ![s] =
              [search[s] EXCEPT !.pc = "receive", !.all = ask.all,
                                !.words = ask.words, !.books = ask.books]]
         /\ worker' = [worker EXCEPT ![s] =
              [i \in Positions |-> IF i <= Len(ask.books) THEN [NoWorker EXCEPT !.pc = "start"]
                                                      ELSE NoWorker]]
    /\ UNCHANGED <<channel, order, items, now>>

\* Variant with a bug: the total is the count of the book that came last.
TotalOfLast(total, rows) == rows

AddTo(total, rows) == total + rows

\* The results that the handler has received.
Received(s) == Cardinality({i \in Positions : At(s, i, "sent")}) - Len(channel[s])

\* A result is received: the error of a book is an empty result, except for
\* the search of one book, which fails.  The handler answers after as many
\* results as there were books.
ReceiveResult(s) ==
    LET at == search[s]
        one == worker[s][Head(channel[s])]
        book == at.books[Head(channel[s])]
        last == Received(s) + 1 = Len(at.books) IN
    /\ at.pc = "receive" /\ channel[s] # <<>>
    /\ channel' = [channel EXCEPT ![s] = Tail(@)]
    /\ search' = [search EXCEPT ![s] =
         [at EXCEPT !.pc = IF one.err /\ ~at.all THEN "failed" ELSE IF last THEN "answered" ELSE @,
                    !.results[book] = IF one.err THEN 0 ELSE one.rows,
                    !.total = IF one.err THEN @ ELSE AddTo(@, one.rows)]]
    /\ UNCHANGED <<worker, order, items, now>>

\* Time before the first entry tells nothing apart.
Tick ==
    /\ now < MaxNow
    /\ order # <<>>
    /\ now' = now + 1
    /\ UNCHANGED <<search, worker, channel, order, items>>

Serve(s) ==
    \/ ReceiveResult(s)
    \/ \E i \in Positions : Start(s, i) \/ Lookup(s, i) \/ RunCached(s, i) \/ Build(s, i)

SearchNext == Tick \/ \E s \in Searches : Ask(s) \/ Serve(s)

\* Goroutines run and queries return, in any order.
SearchFairness == \A s \in Searches : WF_searchVars(Serve(s))

SearchSpec == SearchInit /\ [][SearchNext]_searchVars /\ SearchFairness

-----------------------------------------------------------------------------
\* The map and the list of the cache, of one process, hold the same keys, each
\* key once, never more than the capacity; an entry expires TTL after its
\* expression was stored, and its expression is one of its key.
CacheSound ==
    /\ Len(order) <= Capacity
    /\ items = {order[i].key : i \in 1..Len(order)}
    /\ \A i, j \in 1..Len(order) : order[i].key = order[j].key => i = j
    /\ \A i \in 1..Len(order) :
         /\ order[i].expiresAt = order[i].expr.at + TTL
         /\ Key(order[i].expr.words) = order[i].key

\* A search runs the expression of a search with the same letters, not older
\* than TTL when it is taken, however often the entry was used before.  (Words
\* that are cut elsewhere, "ab" "c" and "a" "bc", share an entry.)
ServedQueries ==
    [][\A s \in Searches, i \in Positions :
         At(s, i, "lookup") /\ worker'[s][i].pc = "cached" =>
           LET expr == worker'[s][i].expr IN
           /\ Key(expr.words) = Key(search[s].words)
           /\ now <= expr.at + TTL]_searchVars

\* The books of a search, by the position of each in its list.
OkOf(s) == {i \in 1..Len(search[s].books) : ~worker[s][i].err}

\* The rows that the books of a search found, a row being a number at the
\* position of its book.
FoundRows(s) == UNION {{i} \X (1..worker[s][i].rows) : i \in OkOf(s)}

\* The total of a search is the number of rows that its books found, in
\* whichever order they ended, a book that was asked for twice counting twice;
\* every book has a result, which is its count, and a book that failed takes
\* nothing from the others.
TotalIsSum ==
    \A s \in Searches :
      search[s].pc = "answered" =>
        /\ search[s].total = Cardinality(FoundRows(s))
        /\ \A i \in 1..Len(search[s].books) :
             \E j \in 1..Len(search[s].books) :
               /\ search[s].books[j] = search[s].books[i]
               /\ search[s].results[search[s].books[i]] = worker[s][j].rows

\* Every search is answered, whichever books fail.
SearchesEnd == \A s \in Searches : search[s].pc = "receive" ~> search[s].pc \in {"answered", "failed"}
=============================================================================
