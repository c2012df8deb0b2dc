--------------------------- MODULE AttemptCounter ---------------------------
(***************************************************************************)
(* shared/utils/ip_cache.go as the search handlers use it: the keywords of *)
(* the last search from an address and how often they changed today.  The  *)
(* entry is read under the mutex and written under it again, later.        *)
(* Nothing else reads it, so it is a module of its own; addresses do not   *)
(* meet, so there is one.  Every process (Prefork) has entries of its own; *)
(* these are those of one.                                                 *)
(***************************************************************************)
EXTENDS Naturals, FiniteSets

CONSTANTS
    Counts,     \* the searches that count themselves
    Keywords,   \* what they ask for
    NoKeywords, \* of an address without entry
    MaxDay      \* bound of the day

ASSUME CounterAssumption == MaxDay \in Nat /\ NoKeywords \notin Keywords

VARIABLES
    count,      \* the searches
    entry,      \* the entry of the address, or NoEntry
    day,        \* today
    cacheDay,   \* the day of the entries
    disturbed,  \* two searches were under way at once, or at midnight
    changes     \* the changes of keywords today, in the order of the reads

counterVars == <<count, entry, day, cacheDay, disturbed, changes>>

NoEntry == [keywords |-> NoKeywords, attempt |-> 0]

\* A search counts once.
Entries == [keywords : Keywords \cup {NoKeywords}, attempt : 0..Cardinality(Counts)]

CounterTypeOK ==
    /\ count \in [Counts -> [pc : {"idle", "write", "done"}, entry : Entries]]
    /\ entry \in Entries
    /\ day \in 0..MaxDay /\ cacheDay \in 0..MaxDay
    /\ disturbed \in BOOLEAN
    /\ changes \in 0..Cardinality(Counts)

CounterInit ==
    /\ count = [c \in Counts |-> [pc |-> "idle", entry |-> NoEntry]]
    /\ entry = NoEntry
    /\ day = 0 /\ cacheDay = 0
    /\ disturbed = FALSE
    /\ changes = 0

-----------------------------------------------------------------------------
\* Variant with a bug: the entries of yesterday stay.
OfTodayStale == entry

\* resetIfNewDay: the entries of another day are dropped.
OfToday == IF cacheDay = day THEN entry ELSE NoEntry

Counting == {c \in Counts : count[c].pc = "write"}

\* GetIPEntry, and the entry that the search will write: another attempt when
\* the keywords are not those of the last search.  The same keywords again
\* write nothing.
ReadEntry(c) ==
    /\ count[c].pc = "idle"
    /\ \E keywords \in Keywords :
         IF OfToday.keywords = keywords
         THEN count' = [count EXCEPT ![c].pc = "done"] /\ UNCHANGED changes
         ELSE /\ count' = [count EXCEPT ![c] =
                   [pc |-> "write",
                    entry |-> [keywords |-> keywords, attempt |-> OfToday.attempt + 1]]]
              /\ changes' = (IF cacheDay = day THEN changes ELSE 0) + 1
    /\ entry' = OfToday
    /\ cacheDay' = day
    /\ disturbed' = (disturbed \/ Counting # {})
    /\ UNCHANGED day

\* SetIPEntry: the entry that was computed from the read.
WriteEntry(c) ==
    /\ count[c].pc = "write"
    /\ entry' = count[c].entry
    /\ cacheDay' = day
    /\ count' = [count EXCEPT ![c].pc = "done"]
    /\ UNCHANGED <<day, disturbed, changes>>

Midnight ==
    /\ day < MaxDay
    /\ day' = day + 1
    /\ disturbed' = (disturbed \/ Counting # {})
    /\ UNCHANGED <<count, entry, cacheDay, changes>>

CounterNext == Midnight \/ \E c \in Counts : ReadEntry(c) \/ WriteEntry(c)

CounterSpec == CounterInit /\ [][CounterNext]_counterVars

-----------------------------------------------------------------------------
\* The searches of an address that one process serves after each other are
\* counted exactly: an attempt for every change of keywords since midnight.
\* Searches that overlap, or run over midnight, may lose changes to each other
\* or bring yesterday's count into today, which is why the condition is there.
CountsWhenAlone ==
    ~disturbed /\ Counting = {} /\ cacheDay = day => entry.attempt = changes

=============================================================================
