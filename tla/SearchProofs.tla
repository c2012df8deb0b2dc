---------------------------- MODULE SearchProofs ----------------------------
(***************************************************************************)
(* Proofs about Search: the cache of full-text expressions, for any number *)
(* of searches, any queries, capacity and lifetime.                        *)
(***************************************************************************)
EXTENDS Search, FiniteSetTheorems, TLAPS
LOCAL INSTANCE SequencesExt

(* Sequences without one of their elements. *)

LEMMA RemoveAtFacts ==
  ASSUME NEW S, NEW o \in Seq(S), NEW i \in 1..Len(o)
  PROVE  /\ RemoveAt(o, i) \in Seq(S)
         /\ Len(RemoveAt(o, i)) = Len(o) - 1
         /\ \A j \in 1..(Len(o) - 1) :
              RemoveAt(o, i)[j] = IF j < i THEN o[j] ELSE o[j + 1]
  <1>1. Len(o) \in Nat /\ i \in Nat /\ 1 <= i /\ i <= Len(o)
    OBVIOUS
  <1>2. PICK a, b : a = SubSeq(o, 1, i - 1) /\ b = SubSeq(o, i + 1, Len(o))
    OBVIOUS
  <1>3. /\ a \in Seq(S) /\ Len(a) = i - 1 /\ \A j \in 1..(i - 1) : a[j] = o[j]
    BY <1>1, <1>2
  <1>4. /\ b \in Seq(S) /\ Len(b) = Len(o) - i /\ \A j \in 1..(Len(o) - i) : b[j] = o[j + i]
    BY <1>1, <1>2
  <1>5. RemoveAt(o, i) = a \o b
    BY <1>2 DEF RemoveAt
  <1>6. a \o b \in Seq(S) /\ Len(a \o b) = Len(o) - 1
    <2>1. a \o b \in Seq(S) /\ Len(a \o b) = Len(a) + Len(b)
      <3>1. a \in Seq(S) /\ b \in Seq(S)
        BY <1>3, <1>4
      <3>2. QED
        BY <3>1
    <2>2. PICK n : n = Len(o)
      OBVIOUS
    <2>3. (i - 1) + (n - i) = n - 1
      BY <1>1, <2>2
    <2>4. QED
      BY <1>3, <1>4, <2>1, <2>2, <2>3
  <1>7. ASSUME NEW j \in 1..(Len(o) - 1) PROVE (a \o b)[j] = IF j < i THEN o[j] ELSE o[j + 1]
    <2>1. CASE j < i
      BY <1>1, <1>3, <1>4, <2>1
    <2>2. CASE ~(j < i)
      <3>1. (a \o b)[j] = b[j - (i - 1)]
        BY <1>1, <1>3, <1>4, <2>2
      <3>2. j - (i - 1) \in 1..(Len(o) - i) /\ (j - (i - 1)) + i = j + 1
        BY <1>1, <2>2
      <3>3. QED
        BY <1>4, <2>2, <3>1, <3>2
    <2>3. QED
      BY <2>1, <2>2
  <1>8. QED
    BY <1>5, <1>6, <1>7

LEMMA FrontFacts ==
  ASSUME NEW S, NEW o \in Seq(S), Len(o) > 0
  PROVE  /\ Front(o) \in Seq(S) /\ Len(Front(o)) = Len(o) - 1
         /\ \A j \in 1..(Len(o) - 1) : Front(o)[j] = o[j]
         /\ Last(o) = o[Len(o)]
  <1>1. PICK n : n = Len(o)
    OBVIOUS
  <1>2. n \in Nat /\ n > 0
    BY <1>1
  <1>3. /\ SubSeq(o, 1, n - 1) \in Seq(S) /\ Len(SubSeq(o, 1, n - 1)) = n - 1
        /\ \A j \in 1..(n - 1) : SubSeq(o, 1, n - 1)[j] = o[j]
    BY <1>1, <1>2
  <1>4. QED
    BY <1>1, <1>3 DEF Front, Last

LEMMA PushFacts ==
  ASSUME NEW S, NEW o \in Seq(S), NEW entry \in S
  PROVE  /\ <<entry>> \o o \in Seq(S) /\ Len(<<entry>> \o o) = Len(o) + 1
         /\ (<<entry>> \o o)[1] = entry
         /\ \A j \in 2..(Len(o) + 1) : (<<entry>> \o o)[j] = o[j - 1]
  OBVIOUS

-----------------------------------------------------------------------------
(* The cache. *)

WordLists == Queries \cup {<<>>}

Entry == [key : {Key(words) : words \in WordLists},
          expr : [words : WordLists, at : Nat], expiresAt : Nat]

\* An entry as Set made it.
Fresh(entry) ==
    /\ entry.expiresAt = entry.expr.at + TTL
    /\ Key(entry.expr.words) = entry.key

\* The list o and the keys k of the map.
CacheOK(o, k) ==
    /\ o \in Seq(Entry) /\ Len(o) <= Capacity
    /\ k = {o[i].key : i \in 1..Len(o)}
    /\ \A i, j \in 1..Len(o) : o[i].key = o[j].key => i = j
    /\ \A i \in 1..Len(o) : Fresh(o[i])

LEMMA RemoveKeepsCache ==
  ASSUME NEW o, NEW k, CacheOK(o, k), NEW i \in 1..Len(o)
  PROVE  CacheOK(RemoveAt(o, i), k \ {o[i].key}) /\ Len(RemoveAt(o, i)) < Capacity
  <1>1. PICK r, n : r = RemoveAt(o, i) /\ n = Len(o)
    OBVIOUS
  <1>2. /\ o \in Seq(Entry) /\ n \in Nat /\ n <= Capacity /\ i \in 1..n
        /\ k = {o[j].key : j \in 1..n}
        /\ \A j, l \in 1..n : o[j].key = o[l].key => j = l
        /\ \A j \in 1..n : Fresh(o[j])
    BY <1>1 DEF CacheOK
  <1>3. /\ r \in Seq(Entry) /\ Len(r) = n - 1
        /\ \A j \in 1..(n - 1) : r[j] = IF j < i THEN o[j] ELSE o[j + 1]
    BY <1>1, <1>2, RemoveAtFacts
  <1>4. n - 1 \in Nat /\ n - 1 < Capacity /\ Capacity \in Nat
    BY <1>2, SearchAssumption
  <1>5. \A j \in 1..(n - 1) : j \in 1..n /\ j + 1 \in 1..n /\ j \in Nat
    BY <1>2
  <1>6. \A j \in 1..(n - 1) : Fresh(r[j])
    BY <1>2, <1>3, <1>5
  <1>7. ASSUME NEW j \in 1..(n - 1), NEW l \in 1..(n - 1), r[j].key = r[l].key PROVE j = l
    <2>1. PICK a, b : a = (IF j < i THEN j ELSE j + 1) /\ b = (IF l < i THEN l ELSE l + 1)
      OBVIOUS
    <2>2. a \in 1..n /\ b \in 1..n /\ r[j] = o[a] /\ r[l] = o[b]
      BY <1>3, <1>5, <2>1
    <2>3. a = b
      BY <1>2, <1>7, <2>2
    <2>4. QED
      BY <1>2, <2>1, <2>3
  <1>8. {r[j].key : j \in 1..(n - 1)} = k \ {o[i].key}
    <2>1. ASSUME NEW j \in 1..(n - 1) PROVE r[j].key \in k \ {o[i].key}
      <3>1. PICK a : a = IF j < i THEN j ELSE j + 1
        OBVIOUS
      <3>2. a \in 1..n /\ a # i
        BY <1>2, <1>5, <3>1
      <3>3. r[j] = o[a]
        BY <1>3, <3>1
      <3>4. QED
        BY <1>2, <3>2, <3>3
    <2>2. ASSUME NEW key \in k \ {o[i].key} PROVE \E j \in 1..(n - 1) : r[j].key = key
      <3>1. PICK a \in 1..n : o[a].key = key
        BY <1>2
      <3>2. a # i
        BY <2>2, <3>1
      <3>3. CASE a < i
        <4>1. a \in 1..(n - 1) /\ r[a] = o[a]
          BY <1>2, <1>3, <3>3
        <4>2. QED
          BY <3>1, <4>1
      <3>4. CASE ~(a < i)
        <4>1. a - 1 \in 1..(n - 1) /\ ~(a - 1 < i) /\ (a - 1) + 1 = a
          BY <1>2, <3>2, <3>4
        <4>2. r[a - 1] = o[a]
          BY <1>3, <4>1
        <4>3. QED
          BY <3>1, <4>1, <4>2
      <3>5. QED
        BY <3>3, <3>4
    <2>3. QED
      BY <2>1, <2>2
  <1>9. 1..Len(r) = 1..(n - 1) /\ Len(r) < Capacity /\ Len(r) <= Capacity
    BY <1>3, <1>4
  <1>10. CacheOK(r, k \ {o[i].key})
    BY <1>3, <1>6, <1>7, <1>8, <1>9 DEF CacheOK
  <1>11. QED
    BY <1>1, <1>9, <1>10

LEMMA DropLastKeepsCache ==
  ASSUME NEW o, NEW k, CacheOK(o, k), Len(o) > 0
  PROVE  CacheOK(Front(o), k \ {Last(o).key}) /\ Len(Front(o)) < Capacity
  <1>1. PICK r, n : r = Front(o) /\ n = Len(o)
    OBVIOUS
  <1>2. /\ o \in Seq(Entry) /\ n \in Nat /\ n <= Capacity /\ n > 0
        /\ k = {o[j].key : j \in 1..n}
        /\ \A j, l \in 1..n : o[j].key = o[l].key => j = l
        /\ \A j \in 1..n : Fresh(o[j])
    BY <1>1 DEF CacheOK
  <1>3. /\ r \in Seq(Entry) /\ Len(r) = n - 1 /\ Last(o) = o[n]
        /\ \A j \in 1..(n - 1) : r[j] = o[j]
    BY <1>1, <1>2, FrontFacts
  <1>4. n - 1 \in Nat /\ n - 1 < Capacity /\ Capacity \in Nat /\ n \in 1..n
    BY <1>2, SearchAssumption
  <1>5. \A j \in 1..n : j # n <=> j \in 1..(n - 1)
    BY <1>2
  <1>6. \A j \in 1..(n - 1) : j \in 1..n
    BY <1>2
  <1>7. {r[j].key : j \in 1..(n - 1)} = k \ {o[n].key}
    BY <1>2, <1>3, <1>4, <1>5, <1>6
  <1>8. 1..Len(r) = 1..(n - 1) /\ Len(r) < Capacity /\ Len(r) <= Capacity
    BY <1>3, <1>4
  <1>9. /\ \A j \in 1..(n - 1) : Fresh(r[j])
        /\ \A j, l \in 1..(n - 1) : r[j].key = r[l].key => j = l
    BY <1>2, <1>3, <1>6
  <1>10. CacheOK(r, k \ {o[n].key})
    BY <1>3, <1>7, <1>8, <1>9 DEF CacheOK
  <1>11. QED
    BY <1>1, <1>3, <1>8, <1>10

LEMMA PushKeepsCache ==
  ASSUME NEW o, NEW k, CacheOK(o, k), Len(o) < Capacity,
         NEW entry \in Entry, Fresh(entry), entry.key \notin k
  PROVE  CacheOK(<<entry>> \o o, k \cup {entry.key})
  <1>1. PICK r, n : r = <<entry>> \o o /\ n = Len(o)
    OBVIOUS
  <1>2. /\ o \in Seq(Entry) /\ n \in Nat /\ n < Capacity
        /\ k = {o[j].key : j \in 1..n}
        /\ \A j, l \in 1..n : o[j].key = o[l].key => j = l
        /\ \A j \in 1..n : Fresh(o[j])
    BY <1>1 DEF CacheOK
  <1>3. /\ r \in Seq(Entry) /\ Len(r) = n + 1 /\ r[1] = entry
        /\ \A j \in 2..(n + 1) : r[j] = o[j - 1]
    BY <1>1, <1>2, PushFacts
  <1>4. n + 1 <= Capacity /\ n + 1 \in Nat /\ 1 \in 1..(n + 1)
    BY <1>2, SearchAssumption
  <1>5. \A j \in 1..(n + 1) : j = 1 \/ (j \in 2..(n + 1) /\ j - 1 \in 1..n)
    BY <1>2
  <1>6. \A j \in 1..n : j + 1 \in 2..(n + 1) /\ j + 1 \in 1..(n + 1) /\ (j + 1) - 1 = j
    BY <1>2
  <1>7. \A j \in 1..(n + 1) : Fresh(r[j])
    BY <1>2, <1>3, <1>5
  <1>8. ASSUME NEW j \in 1..(n + 1), NEW l \in 1..(n + 1), r[j].key = r[l].key PROVE j = l
    <2>1. CASE j = 1 \/ l = 1
      BY <1>2, <1>3, <1>5, <1>8, <2>1
    <2>2. CASE j # 1 /\ l # 1
      <3>1. j - 1 \in 1..n /\ l - 1 \in 1..n /\ r[j] = o[j - 1] /\ r[l] = o[l - 1]
        BY <1>3, <1>5, <2>2
      <3>2. j - 1 = l - 1
        BY <1>2, <1>8, <3>1
      <3>3. QED
        BY <1>2, <3>2
    <2>3. QED
      BY <2>1, <2>2
  <1>9. {r[j].key : j \in 1..(n + 1)} = k \cup {entry.key}
    <2>1. ASSUME NEW j \in 1..(n + 1) PROVE r[j].key \in k \cup {entry.key}
      BY <1>2, <1>3, <1>5
    <2>2. ASSUME NEW j \in 1..n PROVE \E l \in 1..(n + 1) : r[l].key = o[j].key
      <3>1. PICK l : l = j + 1
        OBVIOUS
      <3>2. l \in 2..(n + 1) /\ l \in 1..(n + 1) /\ l - 1 = j
        BY <1>6, <3>1
      <3>3. r[l] = o[j]
        BY <1>3, <3>2
      <3>4. QED
        BY <3>2, <3>3
    <2>3. \E l \in 1..(n + 1) : r[l].key = entry.key
      BY <1>3, <1>4
    <2>4. ASSUME NEW key \in k \cup {entry.key} PROVE \E l \in 1..(n + 1) : r[l].key = key
      <3>1. CASE key = entry.key
        BY <2>3, <3>1
      <3>2. CASE key # entry.key
        <4>1. PICK j \in 1..n : key = o[j].key
          BY <1>2, <3>2
        <4>2. QED
          BY <2>2, <4>1
      <3>3. QED
        BY <3>1, <3>2
    <2>5. QED
      BY <2>1, <2>4
  <1>10. QED
    BY <1>1, <1>3, <1>4, <1>7, <1>8, <1>9 DEF CacheOK

LEMMA EntryOfFacts ==
  ASSUME CacheOK(order, items), NEW key \in items
  PROVE  EntryOf(key) \in 1..Len(order) /\ order[EntryOf(key)].key = key
  <1>1. \E i \in 1..Len(order) : order[i].key = key
    BY DEF CacheOK
  <1>2. QED
    BY <1>1 DEF EntryOf

\* An entry moves to the front, or a new one takes its place.
LEMMA ToFrontKeepsCache ==
  ASSUME CacheOK(order, items), NEW i \in 1..Len(order),
         NEW entry \in Entry, Fresh(entry), entry.key = order[i].key
  PROVE  CacheOK(ToFront(entry, i), items)
  <1>1. order[i].key \in items
    BY DEF CacheOK
  <1>2. CacheOK(RemoveAt(order, i), items \ {entry.key}) /\ Len(RemoveAt(order, i)) < Capacity
    BY RemoveKeepsCache
  <1>3. CacheOK(<<entry>> \o RemoveAt(order, i), (items \ {entry.key}) \cup {entry.key})
    BY <1>2, PushKeepsCache
  <1>4. (items \ {entry.key}) \cup {entry.key} = items
    BY <1>1
  <1>5. QED
    BY <1>3, <1>4 DEF ToFront

\* What is found is the entry of the key, not expired.
LEMMA FoundFacts ==
  ASSUME CacheOK(order, items), NEW key, Found(key) # {}, NEW entry, entry = CHOOSE e \in Found(key) : TRUE
  PROVE  /\ key \in items /\ entry = order[EntryOf(key)] /\ entry \in Entry
         /\ Fresh(entry) /\ entry.key = key /\ ~(now > entry.expiresAt)
  <1>1. key \in items /\ Hit(order[EntryOf(key)]) # {} /\ Found(key) = Hit(order[EntryOf(key)])
    BY DEF Found
  <1>2. ~(now > order[EntryOf(key)].expiresAt) /\ Found(key) = {order[EntryOf(key)]}
    BY <1>1 DEF Hit
  <1>3. entry = order[EntryOf(key)]
    BY <1>2
  <1>4. EntryOf(key) \in 1..Len(order) /\ order[EntryOf(key)].key = key
    BY <1>1, EntryOfFacts
  <1>5. order[EntryOf(key)] \in Entry /\ Fresh(order[EntryOf(key)])
    BY <1>4 DEF CacheOK
  <1>6. QED
    BY <1>1, <1>2, <1>3, <1>4, <1>5

LEMMA GetKeepsCache ==
  ASSUME CacheOK(order, items), NEW key, Get(key)
  PROVE  CacheOK(order, items)'
  <1>1. CASE key \notin items
    BY <1>1 DEF Get, CacheOK, Fresh
  <1>2. CASE key \in items /\ Found(key) = {}
    <2>1. PICK i : i = EntryOf(key)
      OBVIOUS
    <2>2. i \in 1..Len(order) /\ order[i].key = key
      BY <1>2, <2>1, EntryOfFacts
    <2>3. order' = RemoveAt(order, i) /\ items' = items \ {order[i].key}
      BY <1>2, <2>1, <2>2 DEF Get
    <2>4. CacheOK(RemoveAt(order, i), items \ {order[i].key})
      BY <2>2, RemoveKeepsCache
    <2>5. CacheOK(order', items')
      BY <2>3, <2>4
    <2>6. QED
      BY <2>5 DEF CacheOK, Fresh
  <1>3. CASE key \in items /\ Found(key) # {}
    <2>1. PICK i, entry : i = EntryOf(key) /\ entry = CHOOSE e \in Found(key) : TRUE
      OBVIOUS
    <2>2. i \in 1..Len(order) /\ order[i].key = key
      BY <1>3, <2>1, EntryOfFacts
    <2>3. entry \in Entry /\ Fresh(entry) /\ entry.key = key
      BY <1>3, <2>1, FoundFacts
    <2>4. order' = ToFront(entry, i) /\ items' = items
      BY <1>3, <2>1 DEF Get
    <2>5. CacheOK(ToFront(entry, i), items)
      BY <2>2, <2>3, ToFrontKeepsCache
    <2>6. CacheOK(order', items')
      BY <2>4, <2>5
    <2>7. QED
      BY <2>6 DEF CacheOK, Fresh
  <1>4. QED
    BY <1>1, <1>2, <1>3

LEMMA SetKeepsCache ==
  ASSUME CacheOK(order, items), now \in Nat, NEW words \in WordLists,
         Set(Key(words), [words |-> words, at |-> now])
  PROVE  CacheOK(order, items)'
  <1>1. PICK key, entry : /\ key = Key(words)
                          /\ entry = [key |-> Key(words), expr |-> [words |-> words, at |-> now],
                                      expiresAt |-> now + TTL]
    OBVIOUS
  <1>2. entry \in Entry /\ entry.key = key /\ Fresh(entry)
    <2>1. now + TTL \in Nat
      BY SearchAssumption
    <2>2. QED
      BY <1>1, <2>1 DEF Entry, Fresh
  <1>3. CASE key \in items
    <2>1. EntryOf(key) \in 1..Len(order) /\ order[EntryOf(key)].key = key
      BY <1>3, EntryOfFacts
    <2>2. order' = ToFront(entry, EntryOf(key)) /\ items' = items
      BY <1>1, <1>3 DEF Set
    <2>3. CacheOK(ToFront(entry, EntryOf(key)), items)
      BY <1>2, <2>1, ToFrontKeepsCache
    <2>4. CacheOK(order', items')
      BY <2>2, <2>3
    <2>5. QED
      BY <2>4 DEF CacheOK, Fresh
  <1>4. CASE key \notin items
    <2>1. /\ order' = <<entry>> \o (IF Len(order) >= Capacity THEN Front(order) ELSE order)
          /\ items' = (items \ Evicted) \cup {key}
      BY <1>1, <1>4 DEF Set
    <2>2. Len(order) \in Nat /\ Capacity \in Nat \ {0}
      BY SearchAssumption DEF CacheOK
    <2>3. CASE Len(order) >= Capacity
      <3>1. CacheOK(Front(order), items \ {Last(order).key}) /\ Len(Front(order)) < Capacity
        BY <2>2, <2>3, DropLastKeepsCache
      <3>2. key \notin items \ {Last(order).key}
        BY <1>4
      <3>3. CacheOK(<<entry>> \o Front(order), (items \ {Last(order).key}) \cup {key})
        BY <1>2, <3>1, <3>2, PushKeepsCache
      <3>4. CacheOK(order', items')
        BY <2>1, <2>3, <3>3 DEF Evicted
      <3>5. QED
        BY <3>4 DEF CacheOK, Fresh
    <2>4. CASE ~(Len(order) >= Capacity)
      <3>1. Len(order) < Capacity
        BY <2>2, <2>4
      <3>2. CacheOK(<<entry>> \o order, items \cup {key})
        BY <1>2, <1>4, <3>1, PushKeepsCache
      <3>3. order' = <<entry>> \o order /\ items' = items \cup {key}
        BY <2>1, <2>4 DEF Evicted
      <3>4. CacheOK(order', items')
        BY <3>2, <3>3
      <3>5. QED
        BY <3>4 DEF CacheOK, Fresh
    <2>5. QED
      BY <2>3, <2>4
  <1>5. QED
    BY <1>3, <1>4

-----------------------------------------------------------------------------
(* The searches. *)

Workers == [pc : {"none", "start", "lookup", "cached", "build", "sent"},
            expr : [words : WordLists, at : Nat], rows : Nat, err : BOOLEAN]

Handlers == [pc : {"idle", "receive", "answered", "failed"},
             all : {ask.all : ask \in AllAsks} \cup {FALSE},
             books : {ask.books : ask \in AllAsks} \cup {<<>>},
             words : WordLists, results : [Books \cup {Unknown} -> Nat], total : Nat]

-----------------------------------------------------------------------------
(* The results of a search, at its handler, with the workers w and the       *)
(* channel ch.                                                               *)

Sent(w) == {i \in Positions : w[i].pc = "sent"}
Waiting(ch) == {ch[k] : k \in 1..Len(ch)}
Got(w, ch) == Sent(w) \ Waiting(ch)
Good(w, S) == {i \in S : ~w[i].err}
RowsOf(w, S) == UNION {{i} \X (1..w[i].rows) : i \in Good(w, S)}

\* Each book has been received at most once, and the total is the number of
\* rows of those that have.
Counted(at, w, ch) ==
    /\ IsFiniteSet(RowsOf(w, Got(w, ch)))
    /\ at.total = Cardinality(RowsOf(w, Got(w, ch)))
    /\ \A i \in Got(w, ch) : \E j \in Got(w, ch) :
         at.books[j] = at.books[i] /\ at.results[at.books[i]] = w[j].rows

ChannelOK(at, w, ch) ==
    /\ \A i \in Positions : w[i].pc # "none" => i <= Len(at.books)
    /\ \A i \in Positions : w[i].err => w[i].rows = 0
    /\ \A k \in 1..Len(ch) : ch[k] \in Sent(w)
    /\ \A k, m \in 1..Len(ch) : ch[k] = ch[m] => k = m
    /\ IsFiniteSet(Waiting(ch)) /\ Cardinality(Waiting(ch)) = Len(ch)

\* The inductive invariant of one search.
FanOK(at, w, ch) ==
    /\ at.pc = "idle" => ch = <<>> /\ at.total = 0 /\ \A i \in Positions : w[i].pc = "none"
    /\ ChannelOK(at, w, ch)
    /\ at.pc \in {"receive", "answered"} => Counted(at, w, ch)
    /\ at.pc = "answered" => Got(w, ch) = 1..Len(at.books)

\* What is received is what was sent less what waits.
LEMMA ReceivedIsGot ==
  ASSUME NEW at \in Handlers, NEW w \in [Positions -> Workers], NEW ch \in Seq(Positions),
         ChannelOK(at, w, ch)
  PROVE  /\ Sent(w) \subseteq 1..Len(at.books) /\ Len(at.books) \in Nat
         /\ IsFiniteSet(Got(w, ch))
         /\ Cardinality(Got(w, ch)) = Cardinality(Sent(w)) - Len(ch)
  <1>1. Len(at.books) \in Nat
    BY SearchAssumption DEF Handlers
  <1>2. Sent(w) \subseteq 1..Len(at.books)
    BY <1>1 DEF Sent, ChannelOK, Positions
  <1>3. IsFiniteSet(1..Len(at.books))
    BY <1>1, FS_Interval
  <1>4. IsFiniteSet(Sent(w))
    BY <1>2, <1>3, FS_Subset
  <1>5. Cardinality(Waiting(ch)) = Len(ch)
    BY DEF ChannelOK
  <1>6. Waiting(ch) \subseteq Sent(w) /\ Sent(w) \cap Waiting(ch) = Waiting(ch)
    BY DEF Waiting, ChannelOK
  <1>7. /\ IsFiniteSet(Sent(w) \ Waiting(ch))
        /\ Cardinality(Sent(w) \ Waiting(ch)) = Cardinality(Sent(w)) - Cardinality(Sent(w) \cap Waiting(ch))
    BY <1>4, FS_Difference
  <1>8. QED
    BY <1>1, <1>2, <1>5, <1>6, <1>7 DEF Got

\* One more book adds its rows.
LEMMA RowsOfOneMore ==
  ASSUME NEW w \in [Positions -> Workers], NEW S \in SUBSET Positions, NEW h \in Positions \ S,
         IsFiniteSet(RowsOf(w, S))
  PROVE  /\ IsFiniteSet(RowsOf(w, S \cup {h}))
         /\ Cardinality(RowsOf(w, S \cup {h})) =
              Cardinality(RowsOf(w, S)) + (IF w[h].err THEN 0 ELSE w[h].rows)
  <1>1. PICK n, R : n = w[h].rows /\ R = {h} \X (1..n)
    OBVIOUS
  <1>2. n \in Nat
    BY <1>1 DEF Workers
  <1>3. Cardinality(RowsOf(w, S)) \in Nat
    BY FS_CardinalityType
  <1>4. CASE w[h].err
    <2>1. Good(w, S \cup {h}) = Good(w, S)
      BY <1>4 DEF Good
    <2>2. RowsOf(w, S \cup {h}) = RowsOf(w, S)
      BY <2>1 DEF RowsOf
    <2>3. PICK c : c = Cardinality(RowsOf(w, S))
      OBVIOUS
    <2>4. c + 0 = c
      BY <1>3, <2>3
    <2>5. QED
      BY <1>4, <2>2, <2>3, <2>4
  <1>5. CASE ~w[h].err
    <2>1. Good(w, S \cup {h}) = Good(w, S) \cup {h}
      BY <1>5 DEF Good
    <2>2. RowsOf(w, S \cup {h}) = RowsOf(w, S) \cup R
      BY <1>1, <2>1 DEF RowsOf
    <2>3. RowsOf(w, S) \cap R = {}
      <3>1. ASSUME NEW x \in RowsOf(w, S), x \in R PROVE FALSE
        <4>1. PICK i \in Good(w, S) : x \in {i} \X (1..w[i].rows)
          BY <3>1 DEF RowsOf
        <4>2. x[1] = i /\ x[1] = h
          BY <1>1, <3>1, <4>1
        <4>3. QED
          BY <4>2 DEF Good
      <3>2. QED
        BY <3>1
    <2>4. IsFiniteSet(R) /\ Cardinality(R) = n
      <3>1. IsFiniteSet({h}) /\ Cardinality({h}) = 1
        BY FS_Singleton
      <3>2. IsFiniteSet(1..n) /\ Cardinality(1..n) = n
        BY <1>2, FS_Interval
      <3>3. IsFiniteSet(R) /\ Cardinality(R) = 1 * n
        BY <1>1, <3>1, <3>2, FS_Product
      <3>4. QED
        BY <1>2, <3>3
    <2>5. PICK Q, X : Q = RowsOf(w, S) /\ X = Q \cap R
      OBVIOUS
    <2>6. IsFiniteSet(Q \cup R) /\ Cardinality(Q \cup R) = Cardinality(Q) + Cardinality(R) - Cardinality(X)
      BY <2>4, <2>5, FS_Union
    <2>7. IsFiniteSet(X) /\ X = {}
      BY <2>3, <2>5, FS_EmptySet
    <2>8. Cardinality(X) = 0
      BY <2>7, FS_EmptySet
    <2>9. Cardinality(Q \cup R) = Cardinality(Q) + n
      BY <1>2, <1>3, <2>4, <2>5, <2>6, <2>8
    <2>10. RowsOf(w, S \cup {h}) = Q \cup R
      BY <2>2, <2>5
    <2>11. QED
      BY <1>1, <1>5, <2>5, <2>6, <2>9, <2>10
  <1>6. QED
    BY <1>4, <1>5

\* A worker that has neither sent nor is idle takes a step.
LEMMA WorkingKeepsFan ==
  ASSUME NEW at \in Handlers, NEW w \in [Positions -> Workers], NEW ch \in Seq(Positions),
         FanOK(at, w, ch), NEW i \in Positions, w[i].pc \notin {"none", "sent"},
         NEW v \in Workers, v.pc # "none", v.err => v.rows = 0,
         NEW ch2, (v.pc = "sent" /\ ch2 = Append(ch, i)) \/ (v.pc # "sent" /\ ch2 = ch)
  PROVE  FanOK(at, [w EXCEPT ![i] = v], ch2)
  <1>1. PICK w2 : w2 = [w EXCEPT ![i] = v]
    OBVIOUS
  <1>2. w2 \in [Positions -> Workers] /\ w2[i] = v /\ \A j \in Positions : j # i => w2[j] = w[j]
    BY <1>1
  <1>3. i \notin Sent(w) /\ i \notin Waiting(ch)
    BY DEF Sent, Waiting, FanOK, ChannelOK
  <1>4. ch2 \in Seq(Positions)
    OBVIOUS
  <1>5. Sent(w2) = IF v.pc = "sent" THEN Sent(w) \cup {i} ELSE Sent(w)
    BY <1>2, <1>3 DEF Sent
  <1>6. Waiting(ch2) = IF v.pc = "sent" THEN Waiting(ch) \cup {i} ELSE Waiting(ch)
    <2>1. CASE v.pc = "sent"
      <3>1. PICK n : n = Len(ch) /\ n \in Nat
        OBVIOUS
      <3>2. Len(ch2) = n + 1 /\ ch2[n + 1] = i /\ \A k \in 1..n : ch2[k] = ch[k]
        BY <2>1, <3>1
      <3>3. \A k \in 1..(n + 1) : k \in 1..n \/ k = n + 1
        BY <3>1
      <3>4. n + 1 \in 1..(n + 1) /\ \A k \in 1..n : k \in 1..(n + 1)
        BY <3>1
      <3>5. QED
        BY <2>1, <3>1, <3>2, <3>3, <3>4 DEF Waiting
    <2>2. CASE v.pc # "sent"
      BY <2>2
    <2>3. QED
      BY <2>1, <2>2
  <1>7. Got(w2, ch2) = Got(w, ch) /\ i \notin Got(w, ch) /\ Got(w, ch) \subseteq Positions
    BY <1>3, <1>5, <1>6 DEF Got, Sent
  <1>8. at.pc # "idle" /\ i <= Len(at.books)
    BY DEF FanOK, ChannelOK
  <1>9. ChannelOK(at, w2, ch2)
    <2>1. ChannelOK(at, w, ch)
      BY DEF FanOK
    <2>2. \A j \in Positions : /\ w2[j].pc # "none" => j <= Len(at.books)
                               /\ w2[j].err => w2[j].rows = 0
      BY <1>2, <1>8, <2>1 DEF ChannelOK
    <2>3. CASE v.pc = "sent"
      <3>1. PICK n : n = Len(ch) /\ n \in Nat
        OBVIOUS
      <3>2. Len(ch2) = n + 1 /\ ch2[n + 1] = i /\ \A k \in 1..n : ch2[k] = ch[k]
        BY <2>3, <3>1
      <3>3. \A k \in 1..(n + 1) : k \in 1..n \/ k = n + 1
        BY <3>1
      <3>4. \A k \in 1..n : ch[k] \in Sent(w) /\ ch[k] # i
        BY <1>3, <2>1, <3>1 DEF ChannelOK
      <3>5. \A k \in 1..(n + 1) : ch2[k] \in Sent(w2)
        BY <1>5, <2>3, <3>2, <3>3, <3>4
      <3>6. \A k, m \in 1..(n + 1) : ch2[k] = ch2[m] => k = m
        BY <2>1, <3>1, <3>2, <3>3, <3>4 DEF ChannelOK
      <3>7. IsFiniteSet(Waiting(ch2)) /\ Cardinality(Waiting(ch2)) = n + 1
        <4>1. IsFiniteSet(Waiting(ch)) /\ Cardinality(Waiting(ch)) = n
          BY <2>1, <3>1 DEF ChannelOK
        <4>2. QED
          BY <1>3, <1>6, <2>3, <4>1, FS_AddElement
      <3>8. QED
        BY <2>2, <3>2, <3>5, <3>6, <3>7 DEF ChannelOK
    <2>4. CASE v.pc # "sent"
      BY <1>5, <2>1, <2>2, <2>4 DEF ChannelOK
    <2>5. QED
      BY <2>3, <2>4
  <1>10. ASSUME Counted(at, w, ch) PROVE Counted(at, w2, ch2)
    <2>1. \A j \in Got(w, ch) : w2[j] = w[j]
      BY <1>2, <1>7
    <2>2. Good(w2, Got(w, ch)) = Good(w, Got(w, ch))
      BY <2>1 DEF Good
    <2>3. {{j} \X (1..w2[j].rows) : j \in Good(w, Got(w, ch))} =
             {{j} \X (1..w[j].rows) : j \in Good(w, Got(w, ch))}
      BY <2>1 DEF Good
    <2>4. RowsOf(w2, Got(w, ch)) = RowsOf(w, Got(w, ch))
      BY <2>2, <2>3 DEF RowsOf
    <2>5. QED
      BY <1>7, <1>10, <2>1, <2>4 DEF Counted
  <1>11. QED
    BY <1>1, <1>7, <1>8, <1>9, <1>10 DEF FanOK

\* The handler receives the result of h.
LEMMA ReceiveKeepsFan ==
  ASSUME NEW at \in Handlers, NEW w \in [Positions -> Workers], NEW ch \in Seq(Positions),
         FanOK(at, w, ch), at.pc = "receive", ch # <<>>,
         NEW h, h = Head(ch), NEW at2 \in Handlers, at2.books = at.books,
         at2.pc \in {"receive", "answered", "failed"},
         at2.pc # "failed" =>
           (at2.pc = "answered" <=> (Cardinality(Sent(w)) - Len(ch)) + 1 = Len(at.books)),
         at2.results = [at.results EXCEPT ![at.books[h]] = IF w[h].err THEN 0 ELSE w[h].rows],
         at2.total = IF w[h].err THEN at.total ELSE at.total + w[h].rows
  PROVE  FanOK(at2, w, Tail(ch))
  <1>1. ChannelOK(at, w, ch) /\ Counted(at, w, ch)
    BY DEF FanOK
  <1>2. PICK n, t : n = Len(ch) /\ t = Tail(ch)
    OBVIOUS
  <1>3. n \in Nat \ {0} /\ t \in Seq(Positions) /\ Len(t) = n - 1
        /\ h = ch[1] /\ h \in Positions /\ \A k \in 1..(n - 1) : t[k] = ch[k + 1]
    BY <1>2
  <1>4. \A k \in 1..(n - 1) : k + 1 \in 1..n /\ k + 1 # 1
    BY <1>3
  <1>5. \A m \in 1..n : m = 1 \/ (m - 1 \in 1..(n - 1) /\ (m - 1) + 1 = m)
    BY <1>3
  <1>6. 1 \in 1..n
    BY <1>3
  <1>7. /\ \A k \in 1..(n - 1) : t[k] \in Sent(w) /\ t[k] # h
        /\ \A k, m \in 1..(n - 1) : t[k] = t[m] => k = m
    BY <1>1, <1>2, <1>3, <1>4, <1>6 DEF ChannelOK
  <1>8. Waiting(ch) = Waiting(t) \cup {h} /\ h \notin Waiting(t) /\ h \in Sent(w)
    <2>1. \A k \in 1..n : ch[k] \in Waiting(t) \cup {h}
      <3>1. ASSUME NEW k \in 1..n, k # 1 PROVE ch[k] \in Waiting(t)
        <4>1. k - 1 \in 1..(n - 1) /\ t[k - 1] = ch[k]
          BY <1>3, <1>5, <3>1
        <4>2. QED
          BY <1>3, <4>1 DEF Waiting
      <3>2. QED
        BY <1>3, <3>1
    <2>2. \A k \in 1..(n - 1) : t[k] \in Waiting(ch)
      BY <1>2, <1>3, <1>4 DEF Waiting
    <2>3. h \in Waiting(ch)
      BY <1>2, <1>3, <1>6 DEF Waiting
    <2>4. Waiting(ch) = {ch[k] : k \in 1..n} /\ Waiting(t) = {t[k] : k \in 1..(n - 1)}
      BY <1>2, <1>3 DEF Waiting
    <2>5. h \notin Waiting(t)
      BY <1>7, <2>4
    <2>6. h \in Sent(w)
      BY <1>1, <1>2, <1>3, <1>6 DEF ChannelOK
    <2>7. QED
      BY <2>1, <2>2, <2>3, <2>4, <2>5, <2>6
  <1>9. Got(w, t) = Got(w, ch) \cup {h} /\ h \notin Got(w, ch) /\ Got(w, ch) \subseteq Positions
    BY <1>8 DEF Got, Sent
  <1>10. ChannelOK(at2, w, t)
    <2>1. IsFiniteSet(Waiting(ch)) /\ Cardinality(Waiting(ch)) = n
      BY <1>1, <1>2 DEF ChannelOK
    <2>2. Waiting(t) = Waiting(ch) \ {h} /\ h \in Waiting(ch)
      BY <1>8
    <2>3. IsFiniteSet(Waiting(t)) /\ Cardinality(Waiting(t)) = n - 1
      BY <2>1, <2>2, FS_RemoveElement
    <2>4. QED
      BY <1>1, <1>3, <1>7, <2>3 DEF ChannelOK
  <1>11. Counted(at2, w, t)
    <2>1. /\ IsFiniteSet(RowsOf(w, Got(w, t)))
          /\ Cardinality(RowsOf(w, Got(w, t))) =
               Cardinality(RowsOf(w, Got(w, ch))) + (IF w[h].err THEN 0 ELSE w[h].rows)
      <3>1. PICK S : S = Got(w, ch)
        OBVIOUS
      <3>2. S \in SUBSET Positions /\ h \in Positions \ S /\ IsFiniteSet(RowsOf(w, S))
        BY <1>1, <1>3, <1>9, <3>1 DEF Counted
      <3>3. /\ IsFiniteSet(RowsOf(w, S \cup {h}))
            /\ Cardinality(RowsOf(w, S \cup {h})) =
                 Cardinality(RowsOf(w, S)) + (IF w[h].err THEN 0 ELSE w[h].rows)
        BY <3>2, RowsOfOneMore
      <3>4. QED
        BY <1>9, <3>1, <3>3
    <2>2. at.total \in Nat /\ at.total = Cardinality(RowsOf(w, Got(w, ch)))
      BY <1>1 DEF Counted, Handlers
    <2>3. at2.total = Cardinality(RowsOf(w, Got(w, t)))
      BY <2>1, <2>2
    <2>4. at.books \in Seq(Books \cup {Unknown}) /\ at.results \in [Books \cup {Unknown} -> Nat]
      <3>1. at.books \in {ask.books : ask \in AllAsks} \cup {<<>>}
            /\ at.results \in [Books \cup {Unknown} -> Nat]
        BY DEF Handlers
      <3>2. <<>> \in Seq(Books \cup {Unknown})
        OBVIOUS
      <3>3. \A ask \in AllAsks : ask.books \in Seq(Books \cup {Unknown})
        BY SearchAssumption
      <3>4. QED
        BY <3>1, <3>2, <3>3
    <2>5. h \in 1..Len(at.books) /\ at.books[h] \in Books \cup {Unknown}
      BY <1>1, <1>8, <2>4, ReceivedIsGot
    <2>6. at2.results[at.books[h]] = w[h].rows
      BY <1>1, <1>3, <2>4, <2>5 DEF ChannelOK
    <2>7. ASSUME NEW i \in Got(w, t), at.books[i] # at.books[h]
          PROVE  \E j \in Got(w, t) :
                   at.books[j] = at.books[i] /\ at2.results[at.books[i]] = w[j].rows
      <3>1. i \in Got(w, ch)
        BY <1>9, <2>7
      <3>2. PICK j \in Got(w, ch) : at.books[j] = at.books[i] /\ at.results[at.books[i]] = w[j].rows
        BY <1>1, <3>1 DEF Counted
      <3>3. at.books[i] \in Books \cup {Unknown}
        <4>1. i \in 1..Len(at.books)
          BY <1>1, <3>1, ReceivedIsGot DEF Got
        <4>2. QED
          BY <2>4, <4>1
      <3>4. at2.results[at.books[i]] = at.results[at.books[i]]
        BY <2>4, <2>7, <3>3
      <3>5. QED
        BY <1>9, <3>2, <3>4
    <2>8. QED
      BY <1>9, <2>1, <2>3, <2>6, <2>7 DEF Counted
  <1>12. ASSUME at2.pc = "answered" PROVE Got(w, t) = 1..Len(at.books)
    <2>1. /\ Sent(w) \subseteq 1..Len(at.books) /\ Len(at.books) \in Nat
          /\ IsFiniteSet(Got(w, ch))
          /\ Cardinality(Got(w, ch)) + 1 = Len(at.books)
      BY <1>1, <1>12, ReceivedIsGot
    <2>2. Cardinality(Got(w, t)) = Len(at.books)
      BY <1>9, <2>1, FS_AddElement
    <2>3. Got(w, t) \subseteq 1..Len(at.books)
      BY <2>1 DEF Got
    <2>4. IsFiniteSet(1..Len(at.books)) /\ Cardinality(1..Len(at.books)) = Len(at.books)
      BY <2>1, FS_Interval
    <2>5. QED
      BY <2>2, <2>3, <2>4, FS_Subset
  <1>13. QED
    BY <1>2, <1>10, <1>11, <1>12 DEF FanOK

-----------------------------------------------------------------------------
\* The inductive invariant: the cache is sound, whatever the searches do, and
\* every search has counted what it received.
SearchInv ==
    /\ search \in [Searches -> Handlers]
    /\ worker \in [Searches -> [Positions -> Workers]]
    /\ channel \in [Searches -> Seq(Positions)]
    /\ now \in Nat
    /\ CacheOK(order, items)
    /\ \A s \in Searches : FanOK(search[s], worker[s], channel[s])

LEMMA FreshWorkers ==
  /\ NoWorker \in Workers /\ [NoWorker EXCEPT !.pc = "start"] \in Workers
  /\ NoExpr \in [words : WordLists, at : Nat]
  /\ [NoWorker EXCEPT !.pc = "start"].pc = "start" /\ NoWorker.pc = "none"
  BY DEF NoWorker, NoExpr, Workers, WordLists

LEMMA SearchInitInv == SearchInit => SearchInv
  <1> SUFFICES ASSUME SearchInit PROVE SearchInv
    OBVIOUS
  <1>1. search \in [Searches -> Handlers]
    <2>1. NoResult \in Nat /\ <<>> \in WordLists
      BY SearchAssumption DEF NoResult, WordLists
    <2>2. [b \in Books \cup {Unknown} |-> NoResult] \in [Books \cup {Unknown} -> Nat]
      BY <2>1
    <2>3. [pc |-> "idle", all |-> FALSE, words |-> <<>>, books |-> <<>>,
           results |-> [b \in Books \cup {Unknown} |-> NoResult], total |-> 0] \in Handlers
      BY <2>1, <2>2 DEF Handlers
    <2>4. QED
      BY <2>3 DEF SearchInit
  <1>2. worker \in [Searches -> [Positions -> Workers]]
    BY FreshWorkers DEF SearchInit
  <1>3. channel \in [Searches -> Seq(Positions)] /\ now \in Nat
    BY DEF SearchInit
  <1>4. CacheOK(order, items)
    BY SearchAssumption DEF SearchInit, CacheOK
  <1>5. ASSUME NEW s \in Searches PROVE FanOK(search[s], worker[s], channel[s])
    <2>1. PICK at, w, ch : at = search[s] /\ w = worker[s] /\ ch = channel[s]
      OBVIOUS
    <2>2. at.pc = "idle" /\ at.total = 0 /\ ch = <<>>
      BY <2>1 DEF SearchInit
    <2>3. \A i \in Positions : w[i] = NoWorker
      BY <2>1 DEF SearchInit
    <2>4. NoWorker.pc = "none" /\ NoWorker.err = FALSE
      BY DEF NoWorker
    <2>5. Waiting(ch) = {} /\ Len(ch) = 0 /\ 1..Len(ch) = {}
      BY <2>2 DEF Waiting
    <2>6. IsFiniteSet(Waiting(ch)) /\ Cardinality(Waiting(ch)) = 0
      BY <2>5, FS_EmptySet
    <2>7. ChannelOK(at, w, ch)
      BY <2>3, <2>4, <2>5, <2>6 DEF ChannelOK
    <2>8. FanOK(at, w, ch)
      BY <2>2, <2>3, <2>4, <2>7 DEF FanOK
    <2>9. QED
      BY <2>1, <2>8
  <1>6. QED
    BY <1>1, <1>2, <1>3, <1>4, <1>5 DEF SearchInv

\* The worker i of s is in the state v, and the channel of s is ch.
Moves(s, i, v, ch) ==
    /\ worker' = [worker EXCEPT ![s] = [worker[s] EXCEPT ![i] = v]]
    /\ channel' = [channel EXCEPT ![s] = ch]

\* A worker is done, or goes on; no other worker moves.
LEMMA DoneKeepsTypes ==
  ASSUME worker \in [Searches -> [Positions -> Workers]], channel \in [Searches -> Seq(Positions)],
         NEW s \in Searches, NEW i \in Positions, NEW rows \in 0..MaxRows, NEW err \in BOOLEAN,
         Done(s, i, rows, err)
  PROVE  /\ worker' \in [Searches -> [Positions -> Workers]]
         /\ channel' \in [Searches -> Seq(Positions)]
         /\ worker'[s][i].pc = "sent"
         /\ \E v \in Workers :
              v.pc = "sent" /\ v.err = err /\ v.rows = rows /\ Moves(s, i, v, Append(channel[s], i))
         /\ \A t \in Searches, j \in Positions : t # s \/ j # i => worker'[t][j] = worker[t][j]
  <1>1. PICK w : w = [NoWorker EXCEPT !.pc = "sent", !.rows = rows, !.err = err]
    OBVIOUS
  <1>2. w \in Workers /\ w.pc = "sent" /\ w.err = err /\ w.rows = rows
    <2>1. rows \in Nat
      BY SearchAssumption
    <2>2. w = [pc |-> "sent", expr |-> NoExpr, rows |-> rows, err |-> err]
      BY <1>1 DEF NoWorker
    <2>3. QED
      BY <2>1, <2>2, FreshWorkers DEF Workers
  <1>3. /\ worker' = [worker EXCEPT ![s] = [worker[s] EXCEPT ![i] = w]]
        /\ channel' = [channel EXCEPT ![s] = Append(channel[s], i)]
    BY <1>1 DEF Done
  <1>4. Append(channel[s], i) \in Seq(Positions)
    OBVIOUS
  <1>5. channel' \in [Searches -> Seq(Positions)]
    BY <1>3, <1>4
  <1>6. Moves(s, i, w, Append(channel[s], i))
    BY <1>3 DEF Moves
  <1>7. QED
    BY <1>2, <1>3, <1>5, <1>6

LEMMA GotoKeepsTypes ==
  ASSUME worker \in [Searches -> [Positions -> Workers]],
         NEW s \in Searches, NEW i \in Positions,
         NEW pc \in {"lookup", "cached", "build"}, NEW expr \in [words : WordLists, at : Nat],
         Goto(s, i, pc, expr)
  PROVE  /\ worker' \in [Searches -> [Positions -> Workers]]
         /\ channel' = channel /\ worker'[s][i].pc = pc /\ worker'[s][i].expr = expr
         /\ \A t \in Searches, j \in Positions : t # s \/ j # i => worker'[t][j] = worker[t][j]
  <1>1. PICK w, old : old = worker[s][i] /\ w = [old EXCEPT !.pc = pc, !.expr = expr]
    OBVIOUS
  <1>2. old \in Workers
    BY <1>1
  <1>3. w \in Workers /\ w.pc = pc /\ w.expr = expr /\ w.err = old.err /\ w.rows = old.rows
    BY <1>1, <1>2 DEF Workers
  <1>4. worker' = [worker EXCEPT ![s] = [worker[s] EXCEPT ![i] = w]] /\ channel' = channel
    BY <1>1 DEF Goto
  <1>5. QED
    BY <1>1, <1>3, <1>4

LEMMA GotoMoves ==
  ASSUME worker \in [Searches -> [Positions -> Workers]], channel \in [Searches -> Seq(Positions)],
         NEW s \in Searches, NEW i \in Positions,
         NEW pc \in {"lookup", "cached", "build"}, NEW expr \in [words : WordLists, at : Nat],
         Goto(s, i, pc, expr)
  PROVE  \E v \in Workers :
           /\ v.pc = pc /\ v.err = worker[s][i].err /\ v.rows = worker[s][i].rows
           /\ Moves(s, i, v, channel[s])
  <1>1. PICK w, old : old = worker[s][i] /\ w = [old EXCEPT !.pc = pc, !.expr = expr]
    OBVIOUS
  <1>2. old \in Workers
    BY <1>1
  <1>3. w \in Workers /\ w.pc = pc /\ w.err = old.err /\ w.rows = old.rows
    BY <1>1, <1>2 DEF Workers
  <1>4. worker' = [worker EXCEPT ![s] = [worker[s] EXCEPT ![i] = w]] /\ channel' = channel
    BY <1>1 DEF Goto
  <1>5. Moves(s, i, w, channel[s])
    BY <1>4 DEF Moves
  <1>6. QED
    BY <1>1, <1>3, <1>5

LEMMA WorkerStepKeepsInv ==
  ASSUME SearchInv, NEW s \in Searches, NEW i \in Positions,
         Start(s, i) \/ Lookup(s, i) \/ RunCached(s, i) \/ Build(s, i)
  PROVE  /\ SearchInv'
         /\ \A t \in Searches, j \in Positions : t # s \/ j # i => worker'[t][j] = worker[t][j]
         /\ At(s, i, "lookup") /\ worker'[s][i].pc = "cached" => Lookup(s, i)
  <1>1. /\ search \in [Searches -> Handlers] /\ worker \in [Searches -> [Positions -> Workers]]
        /\ channel \in [Searches -> Seq(Positions)] /\ now \in Nat /\ CacheOK(order, items)
        /\ search[s].words \in WordLists
    BY DEF SearchInv, Handlers
  <1>2. 0 \in 0..MaxRows /\ \A rows \in 1..MaxRows : rows \in 0..MaxRows
    BY SearchAssumption
  <1>3. /\ search' = search /\ now' = now
    BY DEF Start, Lookup, RunCached, Build
  \* What the step does to the workers.
  <1>4. \/ \E rows \in 0..MaxRows, err \in BOOLEAN : Done(s, i, rows, err) /\ (err => rows = 0)
        \/ \E pc \in {"lookup", "cached", "build"}, expr \in [words : WordLists, at : Nat] :
             Goto(s, i, pc, expr)
    <2>1. CASE Start(s, i)
      BY <1>2, <2>1, FreshWorkers DEF Start
    <2>2. CASE Lookup(s, i)
      <3>1. CASE Found(Key(search[s].words)) = {}
        BY <2>2, <3>1, FreshWorkers DEF Lookup
      <3>2. CASE Found(Key(search[s].words)) # {}
        <4>1. PICK entry : entry = CHOOSE e \in Found(Key(search[s].words)) : TRUE
          OBVIOUS
        <4>2. entry.expr \in [words : WordLists, at : Nat]
          BY <1>1, <3>2, <4>1, FoundFacts DEF Entry
        <4>3. Goto(s, i, "cached", entry.expr)
          BY <2>2, <3>2, <4>1 DEF Lookup
        <4>4. QED
          BY <4>2, <4>3
      <3>3. QED
        BY <3>1, <3>2
    <2>3. CASE RunCached(s, i)
      BY <1>2, <2>3, FreshWorkers DEF RunCached
    <2>4. CASE Build(s, i)
      BY <2>4 DEF Build
    <2>5. QED
      BY <2>1, <2>2, <2>3, <2>4
  <1>5. /\ worker' \in [Searches -> [Positions -> Workers]]
        /\ channel' \in [Searches -> Seq(Positions)]
        /\ \A t \in Searches, j \in Positions : t # s \/ j # i => worker'[t][j] = worker[t][j]
    <2>1. ASSUME NEW rows \in 0..MaxRows, NEW err \in BOOLEAN, Done(s, i, rows, err)
          PROVE  /\ worker' \in [Searches -> [Positions -> Workers]]
                 /\ channel' \in [Searches -> Seq(Positions)]
                 /\ \A t \in Searches, j \in Positions : t # s \/ j # i => worker'[t][j] = worker[t][j]
      BY <1>1, <2>1, DoneKeepsTypes
    <2>2. ASSUME NEW pc \in {"lookup", "cached", "build"}, NEW expr \in [words : WordLists, at : Nat],
                 Goto(s, i, pc, expr)
          PROVE  /\ worker' \in [Searches -> [Positions -> Workers]]
                 /\ channel' \in [Searches -> Seq(Positions)]
                 /\ \A t \in Searches, j \in Positions : t # s \/ j # i => worker'[t][j] = worker[t][j]
      <3>1. worker \in [Searches -> [Positions -> Workers]] /\ channel \in [Searches -> Seq(Positions)]
        BY <1>1
      <3>2. /\ worker' \in [Searches -> [Positions -> Workers]] /\ channel' = channel
            /\ \A t \in Searches, j \in Positions : t # s \/ j # i => worker'[t][j] = worker[t][j]
        BY <2>2, <3>1, GotoKeepsTypes
      <3>3. QED
        BY <3>1, <3>2
    <2>3. QED
      BY <1>4, <2>1, <2>2
  <1>6. CacheOK(order, items)'
    <2>1. CASE UNCHANGED <<order, items>>
      BY <1>1, <2>1 DEF CacheOK, Fresh
    <2>2. CASE Lookup(s, i)
      BY <1>1, <2>2, GetKeepsCache DEF Lookup
    <2>3. CASE Build(s, i)
      BY <1>1, <2>1, <2>3, SetKeepsCache DEF Build
    <2>4. QED
      BY <2>1, <2>2, <2>3 DEF Start, RunCached
  <1>7. At(s, i, "lookup") /\ worker'[s][i].pc = "cached" => Lookup(s, i)
    BY DEF At, Start, RunCached, Build
  <1>8. PICK w, ch : w = worker[s] /\ ch = channel[s] /\ w \in [Positions -> Workers] /\ ch \in Seq(Positions)
    BY <1>1
  <1>9. w[i].pc \notin {"none", "sent"} /\ (w[i].err => w[i].rows = 0)
    BY <1>8 DEF At, Start, Lookup, RunCached, Build, SearchInv, FanOK, ChannelOK
  <1>10. \E v \in Workers, ch2 \in Seq(Positions) :
           /\ v.pc # "none" /\ (v.err => v.rows = 0)
           /\ (v.pc = "sent" /\ ch2 = Append(ch, i)) \/ (v.pc # "sent" /\ ch2 = ch)
           /\ worker'[s] = [w EXCEPT ![i] = v] /\ channel'[s] = ch2
           /\ \A t \in Searches : t # s => worker'[t] = worker[t] /\ channel'[t] = channel[t]
    <2>1. CASE \E rows \in 0..MaxRows, err \in BOOLEAN : Done(s, i, rows, err) /\ (err => rows = 0)
      <3>1. PICK rows \in 0..MaxRows, err \in BOOLEAN : Done(s, i, rows, err) /\ (err => rows = 0)
        BY <2>1
      <3>2. PICK v \in Workers :
              v.pc = "sent" /\ v.err = err /\ v.rows = rows /\ Moves(s, i, v, Append(channel[s], i))
        BY <1>1, <3>1, DoneKeepsTypes
      <3>3. QED
        <4>1. PICK ch2 : ch2 = Append(ch, i)
          OBVIOUS
        <4>2. /\ worker'[s] = [w EXCEPT ![i] = v] /\ channel'[s] = ch2
              /\ \A t \in Searches : t # s => worker'[t] = worker[t] /\ channel'[t] = channel[t]
          BY <1>1, <1>8, <3>2, <4>1 DEF Moves
        <4>3. v.pc = "sent" /\ (v.err => v.rows = 0)
          BY <3>1, <3>2
        <4>4. ch2 \in Seq(Positions)
          BY <1>8, <4>1
        <4>5. WITNESS v \in Workers, ch2 \in Seq(Positions)
        <4>6. v.pc # "none" /\ (v.err => v.rows = 0)
          BY <4>3
        <4>7. (v.pc = "sent" /\ ch2 = Append(ch, i)) \/ (v.pc # "sent" /\ ch2 = ch)
          BY <4>1, <4>3
        <4>8. QED
          BY <4>2, <4>6, <4>7
    <2>2. CASE \E pc \in {"lookup", "cached", "build"}, expr \in [words : WordLists, at : Nat] :
                 Goto(s, i, pc, expr)
      <3>1. PICK pc \in {"lookup", "cached", "build"}, expr \in [words : WordLists, at : Nat] :
              Goto(s, i, pc, expr)
        BY <2>2
      <3>2. channel' = channel
        BY <3>1 DEF Goto
      <3>3. PICK v \in Workers :
              /\ v.pc = pc /\ v.err = worker[s][i].err /\ v.rows = worker[s][i].rows
              /\ Moves(s, i, v, channel[s])
        BY <1>1, <3>1, GotoMoves
      <3>4. QED
        <4>1. /\ worker'[s] = [w EXCEPT ![i] = v] /\ channel'[s] = ch
              /\ \A t \in Searches : t # s => worker'[t] = worker[t] /\ channel'[t] = channel[t]
          BY <1>1, <1>8, <3>3 DEF Moves
        <4>2. v.pc # "sent" /\ v.pc # "none" /\ (v.err => v.rows = 0)
          BY <1>8, <1>9, <3>3
        <4>3. QED
          BY <1>8, <4>1, <4>2
    <2>3. QED
      BY <1>4, <2>1, <2>2
  <1>11. \A t \in Searches : FanOK(search[t], worker'[t], channel'[t])
    <2>1. PICK v \in Workers, ch2 \in Seq(Positions) :
           /\ v.pc # "none" /\ (v.err => v.rows = 0)
           /\ (v.pc = "sent" /\ ch2 = Append(ch, i)) \/ (v.pc # "sent" /\ ch2 = ch)
           /\ worker'[s] = [w EXCEPT ![i] = v] /\ channel'[s] = ch2
           /\ \A t \in Searches : t # s => worker'[t] = worker[t] /\ channel'[t] = channel[t]
      BY <1>10
    <2>2. \A t \in Searches : FanOK(search[t], worker[t], channel[t])
      BY DEF SearchInv
    <2>3. search[s] \in Handlers /\ FanOK(search[s], w, ch)
      BY <1>1, <1>8, <2>2
    <2>4. FanOK(search[s], [w EXCEPT ![i] = v], ch2)
      BY <1>8, <1>9, <2>1, <2>3, WorkingKeepsFan
    <2>5. QED
      BY <2>1, <2>2, <2>4
  <1>12. QED
    BY <1>1, <1>3, <1>5, <1>6, <1>7, <1>11 DEF SearchInv

LEMMA AskKeepsInv ==
  ASSUME SearchInv, NEW s \in Searches, Ask(s)
  PROVE  /\ SearchInv'
         /\ \A i \in Positions : worker'[s][i].pc \in {"start", "none"}
         /\ \A t \in Searches : t # s => worker'[t] = worker[t]
  <1>1. /\ search \in [Searches -> Handlers] /\ worker \in [Searches -> [Positions -> Workers]]
        /\ channel \in [Searches -> Seq(Positions)] /\ now \in Nat /\ CacheOK(order, items)
    BY DEF SearchInv
  <1>2. PICK ask \in Asks[s] :
          /\ search' = [search EXCEPT ![s] =
               [search[s] EXCEPT !.pc = "receive", !.all = ask.all,
                                 !.words = ask.words, !.books = ask.books]]
          /\ worker' = [worker EXCEPT ![s] =
               [i \in Positions |-> IF i <= Len(ask.books) THEN [NoWorker EXCEPT !.pc = "start"]
                                                       ELSE NoWorker]]
    BY DEF Ask
  <1>3. ask \in AllAsks
    BY DEF AllAsks
  <1>4. PICK old, at : /\ old = search[s]
                       /\ at = [old EXCEPT !.pc = "receive", !.all = ask.all,
                                           !.words = ask.words, !.books = ask.books]
    OBVIOUS
  <1>5. old \in Handlers /\ ask.words \in WordLists /\ ask.all \in {a.all : a \in AllAsks} \cup {FALSE}
        /\ ask.books \in {a.books : a \in AllAsks} \cup {<<>>}
    BY <1>1, <1>3, <1>4 DEF WordLists, Queries
  <1>6. at \in Handlers
    BY <1>4, <1>5 DEF Handlers
  <1>7. search' = [search EXCEPT ![s] = at]
    BY <1>2, <1>4
  <1>8. PICK row : row = [i \in Positions |-> IF i <= Len(ask.books) THEN [NoWorker EXCEPT !.pc = "start"]
                                                                ELSE NoWorker]
    OBVIOUS
  <1>9. row \in [Positions -> Workers] /\ \A i \in Positions : row[i].pc \in {"start", "none"}
    BY <1>8, FreshWorkers
  <1>10. worker' = [worker EXCEPT ![s] = row]
    BY <1>2, <1>8
  <1>11. /\ search' \in [Searches -> Handlers]
         /\ worker' \in [Searches -> [Positions -> Workers]] /\ worker'[s] = row
         /\ \A t \in Searches : t # s => worker'[t] = worker[t]
    BY <1>1, <1>6, <1>7, <1>9, <1>10
  <1>12. UNCHANGED <<channel, order, items, now>>
    BY DEF Ask
  <1>13. CacheOK(order, items)'
    BY <1>1, <1>12 DEF CacheOK, Fresh
  <1>14. FanOK(at, row, channel[s])
    <2>1. old.pc = "idle" /\ FanOK(old, worker[s], channel[s])
      BY <1>4 DEF Ask, SearchInv
    <2>2. channel[s] = <<>> /\ old.total = 0
      BY <2>1 DEF FanOK
    <2>3. PICK ch : ch = channel[s]
      OBVIOUS
    <2>4. Waiting(ch) = {} /\ Len(ch) = 0 /\ 1..Len(ch) = {}
      BY <2>2, <2>3 DEF Waiting
    <2>5. IsFiniteSet(Waiting(ch)) /\ Cardinality(Waiting(ch)) = 0
      BY <2>4, FS_EmptySet
    <2>6. at.pc = "receive" /\ at.total = 0 /\ at.books = ask.books
      BY <1>4, <1>5, <2>2 DEF Handlers
    <2>7. \A i \in Positions : (row[i].pc # "none" => i <= Len(ask.books)) /\ ~row[i].err
      <3>1. NoWorker.pc = "none" /\ ~NoWorker.err /\ ~[NoWorker EXCEPT !.pc = "start"].err
        BY DEF NoWorker
      <3>2. QED
        BY <1>8, <3>1
    <2>8. ChannelOK(at, row, ch)
      BY <2>4, <2>5, <2>6, <2>7 DEF ChannelOK
    <2>9. Got(row, ch) = {}
      BY <1>9 DEF Got, Sent
    <2>10. RowsOf(row, {}) = {}
      BY DEF RowsOf, Good
    <2>11. Counted(at, row, ch)
      BY <2>6, <2>9, <2>10, FS_EmptySet DEF Counted
    <2>12. QED
      BY <2>3, <2>6, <2>8, <2>11 DEF FanOK
  <1>15. \A t \in Searches : FanOK(search'[t], worker'[t], channel'[t])
    <2>1. \A t \in Searches : FanOK(search[t], worker[t], channel[t])
      BY DEF SearchInv
    <2>2. search'[s] = at /\ \A t \in Searches : t # s => search'[t] = search[t]
      BY <1>1, <1>7
    <2>3. QED
      BY <1>11, <1>12, <1>14, <2>1, <2>2
  <1>16. QED
    BY <1>1, <1>9, <1>11, <1>12, <1>13, <1>15 DEF SearchInv

LEMMA ReceiveKeepsInv ==
  ASSUME SearchInv, NEW s \in Searches, ReceiveResult(s)
  PROVE  SearchInv' /\ worker' = worker
  <1>1. /\ search \in [Searches -> Handlers] /\ worker \in [Searches -> [Positions -> Workers]]
        /\ channel \in [Searches -> Seq(Positions)] /\ now \in Nat /\ CacheOK(order, items)
    BY DEF SearchInv
  <1>2. PICK at, one, book, last :
          /\ at = search[s] /\ one = worker[s][Head(channel[s])]
          /\ book = at.books[Head(channel[s])]
          /\ last = (Received(s) + 1 = Len(at.books))
    OBVIOUS
  <1>3. channel[s] # <<>> /\ channel[s] \in Seq(Positions)
    BY <1>1 DEF ReceiveResult
  <1>4. Head(channel[s]) \in Positions /\ Tail(channel[s]) \in Seq(Positions)
    BY <1>3
  <1>5. at \in Handlers /\ one \in Workers
    BY <1>1, <1>2, <1>4
  <1>5a. PICK pc, results, total :
          /\ pc = (IF one.err /\ ~at.all THEN "failed" ELSE IF last THEN "answered" ELSE at.pc)
          /\ results = [at.results EXCEPT ![book] = IF one.err THEN 0 ELSE one.rows]
          /\ total = (IF one.err THEN at.total ELSE AddTo(at.total, one.rows))
    OBVIOUS
  <1>6. PICK at2 : at2 = [at EXCEPT !.pc = pc, !.results = results, !.total = total]
    OBVIOUS
  <1>7. search' = [search EXCEPT ![s] = at2] /\ channel' = [channel EXCEPT ![s] = Tail(@)]
        /\ UNCHANGED <<worker, order, items, now>>
    BY <1>5a, <1>2, <1>6 DEF ReceiveResult
  <1>8. at2 \in Handlers
    <2>1. pc \in {"idle", "receive", "answered", "failed"}
      BY <1>5a, <1>5 DEF Handlers
    <2>2. one.rows \in Nat /\ at.results \in [Books \cup {Unknown} -> Nat] /\ at.total \in Nat
      BY <1>5 DEF Handlers, Workers
    <2>3. results \in [Books \cup {Unknown} -> Nat]
      BY <1>5a, <2>2
    <2>4. total \in Nat
      BY <1>5a, <2>2 DEF AddTo
    <2>5. QED
      BY <1>5, <1>6, <2>1, <2>3, <2>4 DEF Handlers
  <1>9. search' \in [Searches -> Handlers] /\ channel' \in [Searches -> Seq(Positions)]
    BY <1>1, <1>4, <1>7, <1>8
  <1>10. CacheOK(order, items)'
    BY <1>1, <1>7 DEF CacheOK, Fresh
  <1>11. FanOK(at2, worker[s], Tail(channel[s]))
    <2>1. PICK w, ch, h : w = worker[s] /\ ch = channel[s] /\ h = Head(ch)
      OBVIOUS
    <2>2. FanOK(at, w, ch) /\ w \in [Positions -> Workers] /\ ch \in Seq(Positions)
          /\ ch # <<>> /\ at.pc = "receive" /\ one = w[h] /\ book = at.books[h]
      BY <1>1, <1>2, <1>3, <2>1 DEF SearchInv, ReceiveResult
    <2>3. at2.books = at.books /\ at2.pc = pc /\ at2.results = results /\ at2.total = total
      BY <1>5, <1>6 DEF Handlers
    <2>4. Received(s) = Cardinality(Sent(w)) - Len(ch)
      BY <2>1 DEF Received, Sent, At
    <2>5. pc \in {"receive", "answered", "failed"}
          /\ (pc # "failed" => (pc = "answered" <=> last))
      BY <1>5a, <2>2
    <2>6. at2.results = [at.results EXCEPT ![at.books[h]] = IF w[h].err THEN 0 ELSE w[h].rows]
      BY <1>5a, <2>2, <2>3
    <2>7. at2.total = IF w[h].err THEN at.total ELSE at.total + w[h].rows
      BY <1>5a, <2>2, <2>3 DEF AddTo
    <2>8. pc # "failed" => (pc = "answered" <=> (Cardinality(Sent(w)) - Len(ch)) + 1 = Len(at.books))
      BY <1>2, <2>4, <2>5
    <2>9. FanOK(at2, w, Tail(ch))
      BY <1>5, <1>8, <2>1, <2>2, <2>3, <2>5, <2>6, <2>7, <2>8, ReceiveKeepsFan
    <2>10. QED
      BY <2>1, <2>9
  <1>12. \A t \in Searches : FanOK(search'[t], worker'[t], channel'[t])
    <2>1. \A t \in Searches : FanOK(search[t], worker[t], channel[t])
      BY DEF SearchInv
    <2>2. search'[s] = at2 /\ channel'[s] = Tail(channel[s]) /\ worker' = worker
          /\ \A t \in Searches : t # s => search'[t] = search[t] /\ channel'[t] = channel[t]
      BY <1>1, <1>7
    <2>3. QED
      BY <1>11, <2>1, <2>2
  <1>13. QED
    BY <1>1, <1>7, <1>9, <1>10, <1>12 DEF SearchInv

LEMMA SearchNextInv == SearchInv /\ [SearchNext]_searchVars => SearchInv'
  <1> SUFFICES ASSUME SearchInv, [SearchNext]_searchVars PROVE SearchInv'
    OBVIOUS
  <1>1. CASE Tick
    BY <1>1 DEF Tick, SearchInv, CacheOK, Fresh
  <1>2. ASSUME NEW s \in Searches, Ask(s) \/ Serve(s) PROVE SearchInv'
    BY <1>2, AskKeepsInv, ReceiveKeepsInv, WorkerStepKeepsInv DEF Serve
  <1>3. CASE UNCHANGED searchVars
    BY <1>3 DEF searchVars, SearchInv, CacheOK, Fresh
  <1>4. QED
    BY <1>1, <1>2, <1>3 DEF SearchNext

LEMMA SearchInvHolds == SearchSpec => []SearchInv
  BY SearchInitInv, SearchNextInv, PTL DEF SearchSpec

LEMMA CacheAgrees == SearchInv => CacheSound
  BY DEF SearchInv, CacheOK, Fresh, CacheSound

\* The map and the list of the cache agree, within the capacity, and every
\* entry is one that Set made.
THEOREM CacheStaysSound == SearchSpec => []CacheSound
  BY CacheAgrees, SearchInvHolds, PTL

LEMMA TotalsOfResults == SearchInv => TotalIsSum
  <1> SUFFICES ASSUME SearchInv, NEW s \in Searches, search[s].pc = "answered"
               PROVE  /\ search[s].total = Cardinality(FoundRows(s))
                      /\ \A i \in 1..Len(search[s].books) :
                           \E j \in 1..Len(search[s].books) :
                             /\ search[s].books[j] = search[s].books[i]
                             /\ search[s].results[search[s].books[i]] = worker[s][j].rows
    BY DEF TotalIsSum
  <1>1. PICK at, w, ch : at = search[s] /\ w = worker[s] /\ ch = channel[s]
    OBVIOUS
  <1>2. Counted(at, w, ch) /\ Got(w, ch) = 1..Len(at.books)
    BY <1>1 DEF SearchInv, FanOK
  <1>3. Good(w, Got(w, ch)) = OkOf(s)
    BY <1>1, <1>2 DEF Good, OkOf
  <1>4. RowsOf(w, Got(w, ch)) = FoundRows(s)
    BY <1>1, <1>3 DEF RowsOf, FoundRows
  <1>5. \A i \in Got(w, ch) : \E j \in Got(w, ch) :
           at.books[j] = at.books[i] /\ at.results[at.books[i]] = w[j].rows
    BY <1>2 DEF Counted
  <1>6. \A i \in 1..Len(at.books) : \E j \in 1..Len(at.books) :
           at.books[j] = at.books[i] /\ at.results[at.books[i]] = w[j].rows
    BY <1>2, <1>5
  <1>7. at.total = Cardinality(FoundRows(s))
    BY <1>2, <1>4 DEF Counted
  <1>8. QED
    BY <1>1, <1>6, <1>7

\* Whatever the order of the results, the total of an answered search is the
\* number of rows that its books found, and every book has its own count.
THEOREM TotalsAddUp == SearchSpec => []TotalIsSum
  BY TotalsOfResults, SearchInvHolds, PTL

LEMMA OwnExpression ==
    SearchInv /\ [SearchNext]_searchVars =>
      [\A s \in Searches, i \in Positions :
         At(s, i, "lookup") /\ worker'[s][i].pc = "cached" =>
           LET expr == worker'[s][i].expr IN
           /\ Key(expr.words) = Key(search[s].words)
           /\ now <= expr.at + TTL]_searchVars
  <1> SUFFICES ASSUME SearchInv, SearchNext, NEW s \in Searches, NEW i \in Positions,
                      At(s, i, "lookup"), worker'[s][i].pc = "cached"
               PROVE  /\ Key(worker'[s][i].expr.words) = Key(search[s].words)
                      /\ now <= worker'[s][i].expr.at + TTL
    BY DEF At, searchVars
  <1>1. worker'[s][i] # worker[s][i] /\ worker' # worker
    BY DEF At
  <1>2. PICK t \in Searches : Ask(t) \/ Serve(t)
    BY <1>1 DEF SearchNext, Tick
  <1>3. ~Ask(t)
    BY <1>1, AskKeepsInv
  <1>4. PICK j \in Positions : Start(t, j) \/ Lookup(t, j) \/ RunCached(t, j) \/ Build(t, j)
    BY <1>1, <1>2, <1>3, ReceiveKeepsInv DEF Serve
  <1>5. Lookup(s, i)
    BY <1>1, <1>4, WorkerStepKeepsInv
  <1>6. /\ worker \in [Searches -> [Positions -> Workers]] /\ now \in Nat
        /\ CacheOK(order, items)
    BY DEF SearchInv
  <1>7. PICK key, entry : key = Key(search[s].words) /\ entry = CHOOSE e \in Found(key) : TRUE
    OBVIOUS
  <1>8. CASE Found(key) = {}
    <2>1. Goto(s, i, "build", NoExpr)
      BY <1>5, <1>7, <1>8 DEF Lookup
    <2>2. worker'[s][i].pc = "build"
      BY <1>6, <2>1, GotoKeepsTypes, FreshWorkers
    <2>3. QED
      BY <2>2
  <1>9. CASE Found(key) # {}
    <2>1. entry \in Entry /\ Fresh(entry) /\ entry.key = key /\ ~(now > entry.expiresAt)
      BY <1>6, <1>7, <1>9, FoundFacts
    <2>2. Goto(s, i, "cached", entry.expr) /\ entry.expr \in [words : WordLists, at : Nat]
      BY <1>5, <1>7, <1>9, <2>1 DEF Lookup, Entry
    <2>3. worker'[s][i].expr = entry.expr
      BY <1>6, <2>2, GotoKeepsTypes
    <2>4. now <= entry.expr.at + TTL
      BY <1>6, <2>1, <2>2, SearchAssumption DEF Fresh
    <2>5. QED
      BY <1>7, <2>1, <2>3, <2>4 DEF Fresh
  <1>10. QED
    BY <1>8, <1>9

\* A search runs an expression of its own letters, not older than TTL.
THEOREM OwnQueriesAreServed == SearchSpec => ServedQueries
  BY OwnExpression, SearchInvHolds, PTL DEF SearchSpec, ServedQueries

-----------------------------------------------------------------------------
(* The types. *)

\* The expressions of the list o are of queries, at a time that was.
ExprsOf(o) == \A i \in 1..Len(o) : o[i].expr \in Exprs

\* What SearchInv leaves open of the types: the bounds of the clock and of the
\* rows, and that only what was asked is stored.
SearchBounds ==
    /\ now <= MaxNow
    /\ \A s \in Searches : /\ search[s].pc # "idle" => search[s].words \in Queries
                           /\ \A b \in Books \cup {Unknown} : search[s].results[b] <= NoResult
    /\ \A s \in Searches, i \in Positions :
         worker[s][i].rows <= MaxRows /\ worker[s][i].expr \in Exprs \cup {NoExpr}
    /\ ExprsOf(order)

LEMMA ToFrontKeepsExprs ==
  ASSUME NEW o \in Seq(Entry), ExprsOf(o), NEW i \in 1..Len(o), NEW entry \in Entry, entry.expr \in Exprs
  PROVE  ExprsOf(<<entry>> \o RemoveAt(o, i))
  <1>1. PICK r, n : r = RemoveAt(o, i) /\ n = Len(o)
    OBVIOUS
  <1>2. /\ r \in Seq(Entry) /\ Len(r) = n - 1 /\ n \in Nat
        /\ \A j \in 1..(n - 1) : r[j] = IF j < i THEN o[j] ELSE o[j + 1]
    BY <1>1, RemoveAtFacts
  <1>3. PICK q : q = <<entry>> \o r
    OBVIOUS
  <1>4. /\ Len(q) = n /\ q[1] = entry /\ \A j \in 2..n : q[j] = r[j - 1]
    BY <1>2, <1>3, PushFacts
  <1>5. ASSUME NEW j \in 2..n PROVE q[j].expr \in Exprs
    <2>1. r[j - 1] = o[j - 1] \/ r[j - 1] = o[j]
      BY <1>2
    <2>2. o[j - 1].expr \in Exprs /\ o[j].expr \in Exprs
      BY <1>1, <1>2 DEF ExprsOf
    <2>3. QED
      BY <1>4, <2>1, <2>2
  <1>6. QED
    BY <1>1, <1>2, <1>3, <1>4, <1>5 DEF ExprsOf

LEMMA GetKeepsExprs ==
  ASSUME CacheOK(order, items), ExprsOf(order), NEW key, Get(key)
  PROVE  /\ ExprsOf(order)'
         /\ \A entry : Found(key) # {} /\ entry = (CHOOSE e \in Found(key) : TRUE) => entry.expr \in Exprs
  <1>1. order \in Seq(Entry) /\ Len(order) \in Nat
    BY DEF CacheOK
  <1>2. CASE key \notin items
    BY <1>2 DEF Get, ExprsOf, Found
  <1>3. CASE key \in items /\ Found(key) = {}
    <2>1. PICK i, r, n : i = EntryOf(key) /\ r = RemoveAt(order, i) /\ n = Len(order)
      OBVIOUS
    <2>2. i \in 1..n /\ order' = r
      BY <1>3, <2>1, EntryOfFacts DEF Get
    <2>3. Len(r) = n - 1 /\ \A j \in 1..(n - 1) : r[j] = IF j < i THEN order[j] ELSE order[j + 1]
      BY <1>1, <2>1, <2>2, RemoveAtFacts
    <2>4. \A j \in 1..(n - 1) : r[j].expr \in Exprs
      BY <1>1, <2>1, <2>3 DEF ExprsOf
    <2>5. QED
      BY <1>3, <2>2, <2>3, <2>4 DEF ExprsOf
  <1>4. CASE key \in items /\ Found(key) # {}
    <2>1. PICK i, entry : i = EntryOf(key) /\ entry = CHOOSE e \in Found(key) : TRUE
      OBVIOUS
    <2>2. i \in 1..Len(order)
      BY <1>4, <2>1, EntryOfFacts
    <2>3. entry = order[i] /\ entry \in Entry
      BY <1>4, <2>1, FoundFacts
    <2>4. entry.expr \in Exprs
      BY <2>2, <2>3 DEF ExprsOf
    <2>5. order' = <<entry>> \o RemoveAt(order, i)
      BY <1>4, <2>1 DEF Get, ToFront
    <2>6. ExprsOf(<<entry>> \o RemoveAt(order, i))
      BY <1>1, <2>2, <2>3, <2>4, ToFrontKeepsExprs
    <2>7. ExprsOf(order')
      BY <2>5, <2>6
    <2>8. QED
      BY <2>1, <2>4, <2>7 DEF ExprsOf
  <1>5. QED
    BY <1>2, <1>3, <1>4

LEMMA SetKeepsExprs ==
  ASSUME CacheOK(order, items), ExprsOf(order), now \in 0..MaxNow, NEW words \in Queries,
         Set(Key(words), [words |-> words, at |-> now])
  PROVE  ExprsOf(order)'
  <1>1. PICK key, entry : /\ key = Key(words)
                          /\ entry = [key |-> Key(words), expr |-> [words |-> words, at |-> now],
                                      expiresAt |-> now + TTL]
    OBVIOUS
  <1>2. entry \in Entry /\ entry.expr \in Exprs
    <2>1. now + TTL \in Nat /\ now \in Nat /\ words \in WordLists
      BY SearchAssumption DEF WordLists
    <2>2. QED
      BY <1>1, <2>1 DEF Entry, Exprs
  <1>3. order \in Seq(Entry) /\ Len(order) \in Nat
    BY DEF CacheOK
  <1>4. CASE key \in items
    <2>1. EntryOf(key) \in 1..Len(order)
      BY <1>4, EntryOfFacts
    <2>2. order' = <<entry>> \o RemoveAt(order, EntryOf(key))
      BY <1>1, <1>4 DEF Set, ToFront
    <2>3. ExprsOf(order')
      BY <1>2, <1>3, <2>1, <2>2, ToFrontKeepsExprs
    <2>4. QED
      BY <2>3 DEF ExprsOf
  <1>5. CASE key \notin items
    <2>1. PICK r : /\ r = (IF Len(order) >= Capacity THEN Front(order) ELSE order)
                   /\ order' = <<entry>> \o r
      BY <1>1, <1>5 DEF Set
    <2>2. r \in Seq(Entry) /\ Len(r) \in Nat /\ \A j \in 1..Len(r) : r[j].expr \in Exprs
      <3>1. CASE Len(order) >= Capacity
        <4>1. Len(order) > 0
          BY <1>3, <3>1, SearchAssumption
        <4>2. /\ Front(order) \in Seq(Entry) /\ Len(Front(order)) = Len(order) - 1
              /\ \A j \in 1..(Len(order) - 1) : Front(order)[j] = order[j]
          BY <1>3, <4>1, FrontFacts
        <4>3. r = Front(order)
          BY <2>1, <3>1
        <4>4. QED
          BY <1>3, <4>1, <4>2, <4>3 DEF ExprsOf
      <3>2. CASE ~(Len(order) >= Capacity)
        BY <1>3, <2>1, <3>2 DEF ExprsOf
      <3>3. QED
        BY <3>1, <3>2
    <2>3. PICK q : q = <<entry>> \o r
      OBVIOUS
    <2>4. Len(q) = Len(r) + 1 /\ q[1] = entry /\ \A j \in 2..(Len(r) + 1) : q[j] = r[j - 1]
      BY <1>2, <2>2, <2>3, PushFacts
    <2>5. ASSUME NEW j \in 1..Len(q) PROVE q[j].expr \in Exprs
      <3>1. CASE j = 1
        BY <1>2, <2>4, <3>1
      <3>2. CASE j # 1
        <4>1. j \in 2..(Len(r) + 1) /\ j - 1 \in 1..Len(r)
          BY <2>2, <2>4, <3>2
        <4>2. QED
          BY <2>2, <2>4, <4>1
      <3>3. QED
        BY <3>1, <3>2
    <2>6. QED
      BY <2>1, <2>3, <2>5 DEF ExprsOf
  <1>6. QED
    BY <1>4, <1>5

LEMMA SearchInitBounds == SearchInit => SearchBounds
  <1> SUFFICES ASSUME SearchInit PROVE SearchBounds
    OBVIOUS
  <1>1. now <= MaxNow /\ ExprsOf(order)
    BY SearchAssumption DEF SearchInit, ExprsOf
  <1>2. NoWorker.rows <= MaxRows /\ NoWorker.expr = NoExpr
    BY SearchAssumption DEF NoWorker
  <1>3. \A s \in Searches : /\ search[s].pc = "idle"
                            /\ \A b \in Books \cup {Unknown} : search[s].results[b] = NoResult
    BY DEF SearchInit
  <1>4. \A s \in Searches, i \in Positions : worker[s][i] = NoWorker
    BY DEF SearchInit
  <1>5. NoResult \in Nat
    BY SearchAssumption DEF NoResult
  <1>6. QED
    BY <1>1, <1>2, <1>3, <1>4, <1>5 DEF SearchBounds

\* What a step of a worker does to the workers.
LEMMA WorkerBounds ==
  ASSUME SearchInv, SearchBounds, NEW s \in Searches, NEW i \in Positions,
         NEW w \in Workers, w.rows <= MaxRows, w.expr \in Exprs \cup {NoExpr},
         worker' = [worker EXCEPT ![s] = [worker[s] EXCEPT ![i] = w]],
         UNCHANGED <<search, now>>, ExprsOf(order)'
  PROVE  SearchBounds'
  <1>1. worker \in [Searches -> [Positions -> Workers]]
    BY DEF SearchInv
  <1>2. /\ worker'[s][i] = w
        /\ \A t \in Searches, j \in Positions : t # s \/ j # i => worker'[t][j] = worker[t][j]
    BY <1>1
  <1>3. \A t \in Searches, j \in Positions :
          worker'[t][j].rows <= MaxRows /\ worker'[t][j].expr \in Exprs \cup {NoExpr}
    BY <1>2 DEF SearchBounds
  <1>4. QED
    BY <1>3 DEF SearchBounds

LEMMA DoneKeepsBounds ==
  ASSUME SearchInv, SearchBounds, NEW s \in Searches, NEW i \in Positions,
         NEW rows \in 0..MaxRows, NEW err \in BOOLEAN, Done(s, i, rows, err),
         UNCHANGED <<search, now>>, ExprsOf(order)'
  PROVE  SearchBounds'
  <1>1. PICK w : w = [NoWorker EXCEPT !.pc = "sent", !.rows = rows, !.err = err]
    OBVIOUS
  <1>2. w = [pc |-> "sent", expr |-> NoExpr, rows |-> rows, err |-> err]
    BY <1>1 DEF NoWorker
  <1>3. w \in Workers /\ w.rows <= MaxRows /\ w.expr \in Exprs \cup {NoExpr}
    <2>1. rows \in Nat /\ rows <= MaxRows
      BY SearchAssumption
    <2>2. QED
      BY <1>2, <2>1, FreshWorkers DEF Workers
  <1>4. worker' = [worker EXCEPT ![s] = [worker[s] EXCEPT ![i] = w]]
    BY <1>1 DEF Done
  <1>5. QED
    BY <1>3, <1>4, WorkerBounds

LEMMA GotoKeepsBounds ==
  ASSUME SearchInv, SearchBounds, NEW s \in Searches, NEW i \in Positions,
         NEW pc \in {"lookup", "cached", "build"}, NEW expr \in Exprs \cup {NoExpr}, Goto(s, i, pc, expr),
         UNCHANGED <<search, now>>, ExprsOf(order)'
  PROVE  SearchBounds'
  <1>1. PICK w, old : old = worker[s][i] /\ w = [old EXCEPT !.pc = pc, !.expr = expr]
    OBVIOUS
  <1>2. old \in Workers /\ old.rows <= MaxRows
    BY <1>1 DEF SearchInv, SearchBounds
  <1>3. expr \in [words : WordLists, at : Nat]
    BY SearchAssumption DEF Exprs, NoExpr, WordLists
  <1>4. w \in Workers /\ w.rows <= MaxRows /\ w.expr \in Exprs \cup {NoExpr}
    BY <1>1, <1>2, <1>3 DEF Workers
  <1>5. worker' = [worker EXCEPT ![s] = [worker[s] EXCEPT ![i] = w]]
    BY <1>1 DEF Goto
  <1>6. QED
    BY <1>4, <1>5, WorkerBounds

LEMMA ServeKeepsBounds ==
  ASSUME SearchInv, SearchBounds, NEW s \in Searches, NEW i \in Positions,
         Start(s, i) \/ Lookup(s, i) \/ RunCached(s, i) \/ Build(s, i)
  PROVE  SearchBounds'
  <1>1. /\ CacheOK(order, items) /\ ExprsOf(order) /\ now \in 0..MaxNow
        /\ UNCHANGED <<search, now>> /\ 0 \in 0..MaxRows /\ \A rows \in 1..MaxRows : rows \in 0..MaxRows
    <2>1. CacheOK(order, items) /\ ExprsOf(order) /\ now \in 0..MaxNow
      BY SearchAssumption DEF SearchInv, SearchBounds
    <2>2. UNCHANGED <<search, now>>
      BY DEF Start, Lookup, RunCached, Build
    <2>3. 0 \in 0..MaxRows /\ \A rows \in 1..MaxRows : rows \in 0..MaxRows
      BY SearchAssumption
    <2>4. QED
      BY <2>1, <2>2, <2>3
  <1>2. CASE Start(s, i)
    <2>1. ExprsOf(order)'
      BY <1>1, <1>2 DEF Start, ExprsOf
    <2>2. \/ \E rows \in 0..MaxRows, err \in BOOLEAN : Done(s, i, rows, err)
          \/ Goto(s, i, "lookup", NoExpr)
      BY <1>1, <1>2 DEF Start
    <2>3. QED
      BY <1>1, <2>1, <2>2, DoneKeepsBounds, GotoKeepsBounds
  <1>3. CASE Lookup(s, i)
    <2>1. PICK key : key = Key(search[s].words) /\ Get(key)
      BY <1>3 DEF Lookup
    <2>2. /\ ExprsOf(order)'
          /\ \A entry : Found(key) # {} /\ entry = (CHOOSE e \in Found(key) : TRUE) => entry.expr \in Exprs
      BY <1>1, <2>1, GetKeepsExprs
    <2>3. CASE Found(key) = {}
      BY <1>1, <1>3, <2>1, <2>2, <2>3, GotoKeepsBounds DEF Lookup
    <2>4. CASE Found(key) # {}
      <3>1. PICK entry : entry = CHOOSE e \in Found(key) : TRUE
        OBVIOUS
      <3>2. entry.expr \in Exprs /\ Goto(s, i, "cached", entry.expr)
        BY <1>3, <2>1, <2>2, <2>4, <3>1 DEF Lookup
      <3>3. QED
        BY <1>1, <2>2, <3>2, GotoKeepsBounds
    <2>5. QED
      BY <2>3, <2>4
  <1>4. CASE RunCached(s, i)
    <2>1. ExprsOf(order)'
      BY <1>1, <1>4 DEF RunCached, ExprsOf
    <2>2. \/ \E rows \in 0..MaxRows : Done(s, i, rows, FALSE)
          \/ Goto(s, i, "build", NoExpr)
      BY <1>1, <1>4 DEF RunCached
    <2>3. QED
      BY <1>1, <2>1, <2>2, DoneKeepsBounds, GotoKeepsBounds
  <1>5. CASE Build(s, i)
    <2>1. search[s].words \in Queries
      <3>1. FanOK(search[s], worker[s], channel[s]) /\ worker[s][i].pc = "build"
        BY <1>5 DEF SearchInv, Build, At
      <3>2. search[s].pc # "idle"
        BY <3>1 DEF FanOK
      <3>3. QED
        BY <3>2 DEF SearchBounds
    <2>2. ExprsOf(order)'
      <3>1. CASE Set(Key(search[s].words), [words |-> search[s].words, at |-> now])
        BY <1>1, <2>1, <3>1, SetKeepsExprs
      <3>2. CASE UNCHANGED <<order, items>>
        BY <1>1, <3>2 DEF ExprsOf
      <3>3. QED
        BY <1>5, <3>1, <3>2 DEF Build
    <2>3. QED
      BY <1>1, <1>5, <2>2, DoneKeepsBounds DEF Build
  <1>6. QED
    BY <1>2, <1>3, <1>4, <1>5

LEMMA SearchNextBounds == SearchInv /\ SearchBounds /\ [SearchNext]_searchVars => SearchBounds'
  <1> SUFFICES ASSUME SearchInv, SearchBounds, [SearchNext]_searchVars PROVE SearchBounds'
    OBVIOUS
  <1>1. /\ search \in [Searches -> Handlers] /\ worker \in [Searches -> [Positions -> Workers]]
        /\ channel \in [Searches -> Seq(Positions)] /\ now \in Nat
    BY DEF SearchInv
  <1>2. CASE Tick
    BY <1>1, <1>2, SearchAssumption DEF Tick, SearchBounds, ExprsOf
  <1>3. ASSUME NEW s \in Searches, Ask(s) PROVE SearchBounds'
    <2>1. PICK ask \in Asks[s] :
            search' = [search EXCEPT ![s] =
              [search[s] EXCEPT !.pc = "receive", !.all = ask.all,
                                !.words = ask.words, !.books = ask.books]]
      BY <1>3 DEF Ask
    <2>2. ask.words \in Queries
      BY DEF Queries, AllAsks
    <2>3. PICK at : at = [search[s] EXCEPT !.pc = "receive", !.all = ask.all,
                                           !.words = ask.words, !.books = ask.books]
      OBVIOUS
    <2>4. at.words = ask.words /\ at.results = search[s].results
      BY <1>1, <2>3 DEF Handlers
    <2>5. search'[s] = at /\ \A t \in Searches : t # s => search'[t] = search[t]
      BY <1>1, <2>1, <2>3
    <2>6. \A t \in Searches, i \in Positions :
            worker'[t][i].rows <= MaxRows /\ worker'[t][i].expr \in Exprs \cup {NoExpr}
      <3>1. \A i \in Positions : worker'[s][i] \in {NoWorker, [NoWorker EXCEPT !.pc = "start"]}
        BY <1>1, <1>3 DEF Ask
      <3>2. \A w \in {NoWorker, [NoWorker EXCEPT !.pc = "start"]} : w.rows <= MaxRows /\ w.expr = NoExpr
        BY SearchAssumption DEF NoWorker
      <3>3. \A t \in Searches : t # s => worker'[t] = worker[t]
        BY <1>3, AskKeepsInv
      <3>4. QED
        BY <3>1, <3>2, <3>3 DEF SearchBounds
    <2>7. UNCHANGED <<order, now>>
      BY <1>3 DEF Ask
    <2>8. QED
      BY <2>2, <2>4, <2>5, <2>6, <2>7 DEF SearchBounds, ExprsOf
  <1>4. ASSUME NEW s \in Searches, ReceiveResult(s) PROVE SearchBounds'
    <2>1. PICK at, one, book, last :
            /\ at = search[s] /\ one = worker[s][Head(channel[s])]
            /\ book = at.books[Head(channel[s])]
            /\ last = (Received(s) + 1 = Len(at.books))
      OBVIOUS
    <2>2. channel[s] # <<>> /\ channel[s] \in Seq(Positions)
      BY <1>1, <1>4 DEF ReceiveResult
    <2>3. Head(channel[s]) \in Positions
      BY <2>2
    <2>4. at \in Handlers /\ one \in Workers /\ one.rows <= MaxRows
      BY <1>1, <2>1, <2>3 DEF SearchBounds
    <2>5. PICK pc, results, total :
            /\ pc = (IF one.err /\ ~at.all THEN "failed" ELSE IF last THEN "answered" ELSE at.pc)
            /\ results = [at.results EXCEPT ![book] = IF one.err THEN 0 ELSE one.rows]
            /\ total = (IF one.err THEN at.total ELSE AddTo(at.total, one.rows))
      OBVIOUS
    <2>6. PICK at2 : at2 = [at EXCEPT !.pc = pc, !.results = results, !.total = total]
      OBVIOUS
    <2>7. at2.words = at.words /\ at2.results = results
      BY <2>4, <2>6 DEF Handlers
    <2>8. search'[s] = at2 /\ \A t \in Searches : t # s => search'[t] = search[t]
      <3>1. search' = [search EXCEPT ![s] = at2]
        BY <1>4, <2>1, <2>5, <2>6 DEF ReceiveResult
      <3>2. QED
        BY <1>1, <3>1
    <2>9. \A b \in Books \cup {Unknown} : results[b] <= NoResult
      <3>1. \A b \in Books \cup {Unknown} : at.results[b] <= NoResult
        BY <2>1 DEF SearchBounds
      <3>2. one.rows <= NoResult /\ 0 <= NoResult
        BY <2>4, SearchAssumption DEF NoResult, Workers
      <3>3. at.results \in [Books \cup {Unknown} -> Nat]
        BY <2>4 DEF Handlers
      <3>4. QED
        BY <2>5, <3>1, <3>2, <3>3
    <2>10. at.words \in Queries
      BY <1>4, <2>1 DEF SearchBounds, ReceiveResult
    <2>11. UNCHANGED <<worker, order, now>>
      BY <1>4 DEF ReceiveResult
    <2>12. QED
      BY <2>7, <2>8, <2>9, <2>10, <2>11 DEF SearchBounds, ExprsOf
  <1>5. CASE UNCHANGED searchVars
    BY <1>5 DEF searchVars, SearchBounds, ExprsOf
  <1>6. QED
    BY <1>2, <1>3, <1>4, <1>5, ServeKeepsBounds DEF SearchNext, Serve

LEMMA SearchTyped == SearchInv /\ SearchBounds => SearchTypeOK
  <1> SUFFICES ASSUME SearchInv, SearchBounds PROVE SearchTypeOK
    OBVIOUS
  <1>1. /\ search \in [Searches -> Handlers] /\ worker \in [Searches -> [Positions -> Workers]]
        /\ channel \in [Searches -> Seq(Positions)] /\ now \in 0..MaxNow /\ CacheOK(order, items)
    BY SearchAssumption DEF SearchInv, SearchBounds
  <1>2. search \in [Searches -> [pc : {"idle", "receive", "answered", "failed"},
                                 all : BOOLEAN, books : {ask.books : ask \in AllAsks} \cup {<<>>},
                                 words : Queries \cup {<<>>},
                                 results : [Books \cup {Unknown} -> 0..NoResult],
                                 total : Nat]]
    <2>1. ASSUME NEW s \in Searches
          PROVE  search[s].results \in [Books \cup {Unknown} -> 0..NoResult]
      <3>1. search[s].results \in [Books \cup {Unknown} -> Nat]
        BY <1>1 DEF Handlers
      <3>2. NoResult \in Nat
        BY SearchAssumption DEF NoResult
      <3>3. QED
        BY <3>1, <3>2 DEF SearchBounds
    <2>2. {ask.all : ask \in AllAsks} \cup {FALSE} \subseteq BOOLEAN
      BY SearchAssumption
    <2>3. QED
      BY <1>1, <2>1, <2>2 DEF Handlers, WordLists
  <1>3. worker \in [Searches -> [Positions ->
                     [pc : {"none", "start", "lookup", "cached", "build", "sent"},
                      expr : Exprs \cup {NoExpr}, rows : 0..MaxRows, err : BOOLEAN]]]
    BY <1>1, SearchAssumption DEF SearchBounds, Workers
  <1>4. ASSUME NEW i \in 1..Len(order)
        PROVE  /\ order[i].expr \in Exprs /\ order[i].expiresAt \in 0..(MaxNow + TTL)
               /\ order[i].key \in {Key(words) : words \in Queries}
    <2>1. order[i].expr \in Exprs
      BY DEF SearchBounds, ExprsOf
    <2>2. Fresh(order[i])
      BY <1>1 DEF CacheOK
    <2>3. order[i].expr.words \in Queries /\ order[i].expr.at \in 0..MaxNow
      BY <2>1 DEF Exprs
    <2>4. QED
      BY <2>1, <2>2, <2>3, SearchAssumption DEF Fresh
  <1>5. items \subseteq {Key(words) : words \in Queries}
    BY <1>1, <1>4 DEF CacheOK
  <1>6. QED
    BY <1>1, <1>2, <1>3, <1>4, <1>5 DEF SearchTypeOK

\* The variables of the searches and of the cache keep their types, so that
\* only what a search asked for is in the cache, from a time that was.
THEOREM SearchTypes == SearchSpec => []SearchTypeOK
  BY SearchInitInv, SearchNextInv, SearchInitBounds, SearchNextBounds, SearchTyped, PTL DEF SearchSpec
=============================================================================
