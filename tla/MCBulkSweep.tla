----------------------------- MODULE MCBulkSweep -----------------------------
(* The requests, the kitabs and the pairs of sweeps of the checked instance. *)
EXTENDS BulkSweep

Bulk(tables, limit, max) ==
    [tables |-> tables, each |-> FALSE, limit |-> limit, all |-> TRUE, max |-> max]

\* TranslateHadiths: one batch, an AI call per row.
Single == [Bulk(<<"hadith">>, 1, 0) EXCEPT !.each = TRUE, !.all = FALSE]

\* TranslateHadithsBulk and SummarizeHadiths with ?all=1.
Translate == Bulk(<<"hadith">>, 2, 0)
Summarize == [Bulk(<<"summary">>, 2, 0) EXCEPT !.each = TRUE]

\* Sweeps of several batches; TranslateHadithsBulk with ?maxBatches= and
\* TranslateTitlesBulk with ?all=1 among them.
InBatches ==
    {Single, Bulk(<<"hadith">>, 1, 1), Bulk(<<"hadith">>, 1, 0), Bulk(<<"kitab", "bab">>, 1, 0)}

SweepCalls == InBatches \cup {Translate, Summarize}

\* A kitab has hadiths and no titles, or untranslated titles and, at first, no
\* hadiths, so that sweeps of hadiths and of titles never meet.
NoTitles == \A i \in Ids : cell["kitab", i] = "absent" /\ cell["bab", i] = "absent"

OnlyTitles ==
    \A i \in Ids : /\ cell["hadith", i] = "absent"
                   /\ cell["kitab", i] = "empty" /\ cell["bab", i] = "empty"

First == CHOOSE s \in Sweeps : TRUE

Running == {s \in Sweeps : run[s].pc # "idle"}

\* Where there are no titles, the first sweep translates and the second one
\* translates or summarizes, side by side; the second hadith is never deleted,
\* and an AI call is tried again only in batches.
SideBySide ==
    /\ deleted \subseteq {1}
    /\ \A s \in Running :
         /\ run[s].call = Translate \/ (s # First /\ run[s].call = Summarize)
         /\ run[s].tries = 1

\* Where there are, and hadiths that come later, one sweep works in batches.
OneInBatches == \A s \in Running : s = First /\ run[s].call \in InBatches

SweepsInit == Init /\ (NoTitles \/ OnlyTitles)

SweepsNext == Next /\ (IF NoTitles THEN SideBySide ELSE OneInBatches)'

SweepsSpec == SweepsInit /\ [][SweepsNext]_vars /\ Fairness
=============================================================================
