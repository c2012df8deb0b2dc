----------------------------- MODULE MCPersonal -----------------------------
(***************************************************************************)
(* The gate, what a user keeps behind it, and the connection pool, for     *)
(* TLC.  They have no variable in common, so a behaviour is one of one     *)
(* component, chosen at the start.                                         *)
(***************************************************************************)
EXTENDS AccessGate, Notes, Bookmarks, Preferences, ConnPool

VARIABLE scenario   \* the component that runs

vars == <<scenario, gateVars, noteVars, markVars, prefVars, poolVars>>

Scenarios == {"gate", "notes", "bookmarks", "preferences", "pool"}

TypeOK ==
    /\ scenario \in Scenarios
    /\ GateTypeOK /\ NotesTypeOK /\ BookmarksTypeOK /\ PreferencesTypeOK /\ PoolTypeOK

Init ==
    /\ scenario \in Scenarios
    /\ GateInit /\ NotesInit /\ BookmarksInit /\ PreferencesInit /\ PoolInit

AtGate == scenario = "gate" /\ UNCHANGED <<scenario, noteVars, markVars, prefVars, poolVars>>
OnNotes == scenario = "notes" /\ UNCHANGED <<scenario, gateVars, markVars, prefVars, poolVars>>
OnBookmarks == scenario = "bookmarks" /\ UNCHANGED <<scenario, gateVars, noteVars, prefVars, poolVars>>
OnPreferences == scenario = "preferences" /\ UNCHANGED <<scenario, gateVars, noteVars, markVars, poolVars>>
InPool == scenario = "pool" /\ UNCHANGED <<scenario, gateVars, noteVars, markVars, prefVars>>

Next ==
    \/ AtGate /\ GateNext
    \/ OnNotes /\ NotesNext
    \/ OnBookmarks /\ BookmarksNext
    \/ OnPreferences /\ PreferencesNext
    \/ InPool /\ PoolNext

\* PoolFairness, for the behaviours of the pool.
Fairness ==
    \A h \in Handlers : SF_vars(InPool /\ Acquire(h)) /\ WF_vars(InPool /\ Release(h))

Spec == Init /\ [][Next]_vars /\ Fairness
=============================================================================
