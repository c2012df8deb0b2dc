------------------------------ MODULE FullText ------------------------------
(***************************************************************************)
(* shared/utils/kbbi.go and fts_utils.go: the full-text expression of a    *)
(* list of keywords.  The dictionary gives every keyword a batch of        *)
(* variants; a keyword with an empty batch is left out, which moves the    *)
(* ones after it to a lower index.  The expression is one alternative for  *)
(* every combination of indices, the words of which must be near each      *)
(* other.  A keyword is its position; its variants are left out, for they  *)
(* are alternatives of one word.                                           *)
(***************************************************************************)
EXTENDS Naturals, Sequences, FiniteSets

CONSTANT MaxKeywords    \* keywords of a request, at most

ASSUME FullTextAssumption == MaxKeywords \in Nat \ {0, 1}

VARIABLE query      \* the number of keywords, those without variants and the
                    \* expression that is built from them

NoQuery == [keywords |-> 0, lost |-> {}, expression |-> {}]

Digits(n) == 0..n - 1       \* the combinations are strings of digits in Go

\* All ways to drop some digits, the dropped ones taken in ascending order.
generateDrops(n, toDrop) ==
    LET drops[left \in 0..3] == [start \in 0..n |-> [dropped \in SUBSET Digits(n) |->
          IF left = 0
          THEN {Digits(n) \ dropped}
          ELSE UNION {drops[left - 1][i + 1][dropped \cup {i}] : i \in start..n - 1}]]
    IN drops[toDrop][0][{}]

\* Variant with a bug: six words are never asked for together.
HasCompleteBelow(n) == n < 6

HasComplete(n) == n <= 6

generateCombos(n) ==
    (IF HasComplete(n) THEN {Digits(n)} ELSE {}) \cup UNION {generateDrops(n, drop) : drop \in 1..3}

\* The combinations written out in the code, and the generated ones.
QueryCombination(n) ==
    CASE n = 1 -> {{0}}
      [] n = 2 -> {{0, 1}}
      [] n = 3 -> {{0, 1, 2}, {0, 1}, {0, 2}, {1, 2}}
      [] n = 4 -> {{0, 1, 2, 3}, {0, 1, 2}, {0, 1, 3}, {0, 2, 3}, {1, 2, 3}}
      [] n = 5 -> {{0, 1, 2, 3, 4},
                   {0, 1, 2, 4}, {0, 1, 3, 4}, {0, 2, 3, 4}, {1, 2, 3, 4}, {0, 1, 2, 3},
                   {0, 1, 2}, {0, 1, 3}, {0, 2, 3}, {1, 2, 3}}
      [] OTHER -> generateCombos(n)

\* CombineValue: how far apart the words of an alternative may be.
Distance(words) == IF words <= 3 THEN 10 ELSE 4

\* ExtractWordVariants: the k-th word is the k-th keyword that has a batch.
Words(kept) ==
    {[index |-> Cardinality({j \in kept : j < i}), keyword |-> i] : i \in kept}

\* The words that a combination selects; an index past the last is skipped.
Selected(combo, kept) == {w.keyword : w \in {v \in Words(kept) : v.index \in combo}}

\* Variant with a bug: every keyword is used.
UsedAll(keywords) == keywords

Used(keywords) == IF keywords > 7 THEN 7 ELSE keywords

\* indonesiaFTSearch: at most seven keywords, an alternative for every
\* combination that selects two words or more.
Expression(keywords, lost) ==
    LET n == Used(keywords)
        kept == Digits(n) \ lost
    IN {[words |-> ws, distance |-> Distance(Cardinality(ws))] :
          ws \in {us \in {Selected(combo, kept) : combo \in QueryCombination(n)} :
                    Cardinality(us) >= 2}}

FullTextTypeOK ==
    /\ query.keywords \in 0..MaxKeywords
    /\ query.lost \subseteq Digits(MaxKeywords)
    /\ \A alternative \in query.expression :
         alternative.words \subseteq Digits(7) /\ alternative.distance \in {4, 10}

FullTextInit == query = NoQuery

BuildExpression ==
    /\ query = NoQuery
    /\ \E n \in 2..MaxKeywords, lost \in SUBSET Digits(MaxKeywords) :
         /\ lost \subseteq Digits(n)
         /\ query' = [keywords |-> n, lost |-> lost, expression |-> Expression(n, lost)]

FullTextNext == BuildExpression

FullTextSpec == FullTextInit /\ [][FullTextNext]_query

-----------------------------------------------------------------------------
\* The keywords that the search is about: the first seven with variants.
Kept == {i \in Digits(query.keywords) : i < 7} \ query.lost

AllButOne == {Kept \ {i} : i \in Kept}

\* The sets of words that must be looked for: all of them, and all but one
\* (of three or more).
Wanted == {Kept} \cup (IF Cardinality(Kept) >= 3 THEN AllButOne ELSE {})

\* Whichever keywords are left out, the expression asks for all that remain
\* and for all but any one of them, although the combinations are chosen by
\* the number of keywords before some were left out; the exception is seven
\* keywords that all remain, which are never asked for together.  The
\* expression is empty only when fewer than two remain, and an alternative
\* never asks for fewer than two words.
AllWordsTried ==
    LET asked == {alternative.words : alternative \in query.expression} IN
    query # NoQuery =>
      /\ query.expression = {} <=> Cardinality(Kept) < 2
      /\ Cardinality(Kept) \in 2..6 => Wanted \subseteq asked
      /\ Cardinality(Kept) = 7 => AllButOne = {ws \in asked : Cardinality(ws) >= 6}
      /\ \A ws \in asked : ws \subseteq Kept /\ Cardinality(ws) >= 2
=============================================================================
