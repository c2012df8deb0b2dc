----------------------------- MODULE MCReaders -----------------------------
(***************************************************************************)
(* The components that only read the tables, for TLC.  They share no       *)
(* state, so a behaviour is one of one component, chosen at the start.     *)
(***************************************************************************)
EXTENDS LoadRow, Search, FullText, AttemptCounter, AiCall, TLC

CONSTANTS l1, s1, s2, c1, c2, c3, bukhari, unknown

MCLoads == {l1}
MCSearches == {s1, s2}
MCCounts == {c1, c2, c3}
MCBooks == {bukhari}

\* Q2 has the letters of Q1, and so its key.
Q1 == << <<"a", "b">>, <<"c">> >>
Q2 == << <<"a">>, <<"b", "c">> >>
Q3 == << <<"a">>, <<"d">> >>

\* A search of one book beside one of a list with a book twice or with a name
\* that is no book.
MCAsks ==
    s1 :> [all : {FALSE}, books : {<<bukhari>>}, words : {Q1, Q2, Q3}]
      @@ s2 :> [all : {TRUE}, books : {<<bukhari, bukhari>>, <<unknown, bukhari>>}, words : {Q1, Q3}]

MCKeywords == {"x", "y"}

VARIABLE scenario   \* the component that runs

vars == <<scenario, loadVars, searchVars, query, counterVars, callVars>>

Scenarios == {"load", "search", "expression", "counter", "call"}

TypeOK ==
    /\ scenario \in Scenarios
    /\ LoadTypeOK /\ SearchTypeOK /\ FullTextTypeOK /\ CounterTypeOK /\ AiCallTypeOK

Init ==
    /\ scenario \in Scenarios
    /\ LoadInit /\ SearchInit /\ FullTextInit /\ CounterInit /\ AiCallInit

Loading == scenario = "load" /\ UNCHANGED <<scenario, searchVars, query, counterVars, callVars>>
Searching == scenario = "search" /\ UNCHANGED <<scenario, loadVars, query, counterVars, callVars>>
Expressing == scenario = "expression" /\ UNCHANGED <<scenario, loadVars, searchVars, counterVars, callVars>>
CountingAttempts == scenario = "counter" /\ UNCHANGED <<scenario, loadVars, searchVars, query, callVars>>
Calling == scenario = "call" /\ UNCHANGED <<scenario, loadVars, searchVars, query, counterVars>>

Next ==
    \/ Loading /\ LoadNext
    \/ Searching /\ SearchNext
    \/ Expressing /\ FullTextNext
    \/ CountingAttempts /\ CounterNext
    \/ Calling /\ AiCallNext

\* Goroutines, children and queries go on, in any order.  (Every step brings
\* its request nearer to its end, so this suffices and no one needs his own.)
Work ==
    \/ Loading /\ \E l \in Loads : LoadStep(l)
    \/ Searching /\ \E s \in Searches : Serve(s)
    \/ Calling /\ Proceed

Fairness == WF_vars(Work)

Spec == Init /\ [][Next]_vars /\ Fairness

\* Every request of these components is answered: a load whichever helper
\* fails, a search whichever book fails, a call of the provider unless its
\* child may hang.
AllAnswered == LoadsEnd /\ SearchesEnd /\ CallEnds
=============================================================================
