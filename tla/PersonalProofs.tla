--------------------------- MODULE PersonalProofs ---------------------------
(***************************************************************************)
(* Proofs about AccessGate, Notes and ConnPool, for any number of          *)
(* requests, tokens, users and connections, and about MCPersonal: each of  *)
(* its components behaves as its own specification says.                   *)
(***************************************************************************)
EXTENDS MCPersonal, StorageProofs

(* The gate. *)

\* The reasons that a request has passed the check of.
Excluded(pc) ==
    CASE pc \in {"active"} -> {"dead token"}
      [] pc \in {"deleted", "expel"} -> {"dead token", "inactive"}
      [] pc = "admin" -> {"dead token", "inactive", "deleted"}
      [] pc = "inside" -> Reasons
      [] OTHER -> {}

\* The inductive invariant: a token that was called dead is in the blacklist,
\* a reason that has held all along holds now, and no check that was passed
\* was for such a reason.
GateInv ==
    /\ GateTypeOK
    /\ dead \subseteq blacklist
    /\ \A r \in Requests :
         /\ gate[r].pc = "activity" => gate[r].token \in blacklist
         /\ gate[r].pc = "admin" => gate[r].route = "admin"
         /\ bars[r] \subseteq Held(r)
         /\ bars[r] \cap Excluded(gate[r].pc) = {}

LEMMA GateInitInv == GateInit => GateInv
  BY GateAssumption DEF GateInit, GateInv, GateTypeOK, Idle, Routes, Excluded

\* A step of the gate: one request moves, and the others are where they were.
LEMMA GateStepGate ==
    ASSUME GateInv, NEW r \in Requests, GateStep(r), Track
    PROVE  /\ UNCHANGED user
           /\ gate' \in [Requests ->
                [pc : {"idle", "token", "active", "deleted", "expel", "admin", "inside", "activity"},
                 token : Tokens, route : Routes]]
           /\ \A q \in Requests : q # r => gate'[q] = gate[q]
           /\ gate'[r].pc \notin {"idle", "token"} =>
                gate'[r].route = gate[r].route /\ gate'[r].token = gate[r].token /\ gate[r].pc # "idle"
           /\ blacklist \subseteq blacklist' /\ blacklist' \subseteq Tokens
           /\ dead' \subseteq blacklist'
           /\ gate'[r].pc = "activity" => gate'[r].token \in blacklist'
  <1>1. /\ gate \in [Requests ->
             [pc : {"idle", "token", "active", "deleted", "expel", "admin", "inside", "activity"},
              token : Tokens, route : Routes]]
        /\ blacklist \subseteq Tokens /\ dead \subseteq blacklist
    BY DEF GateInv, GateTypeOK
  <1>2. Idle \in [pc : {"idle"}, token : Tokens, route : Routes]
    BY GateAssumption DEF Idle, Routes
  <1> HIDE DEF Idle
  <1>3. CASE Arrive(r)
    BY <1>1, <1>3 DEF Arrive
  <1>4. CASE CheckToken(r)
    BY <1>1, <1>2, <1>4 DEF CheckToken, Goto, Done
  <1>5. CASE CheckActive(r)
    BY <1>1, <1>2, <1>5 DEF CheckActive, Goto, Done
  <1>6. CASE CheckDeleted(r)
    BY <1>1, <1>2, <1>6 DEF CheckDeleted, Goto, Done
  <1>7. CASE Expel(r)
    BY <1>1, <1>2, <1>7 DEF Expel, Done
  <1>8. CASE CheckAdmin(r)
    BY <1>1, <1>2, <1>8 DEF CheckAdmin, Goto, Done
  <1>9. CASE Answer(r)
    BY <1>1, <1>2, <1>9 DEF Answer, Done
  <1>10. CASE Logout(r)
    BY <1>1, <1>2, <1>10 DEF Logout, Goto, Done
  <1>11. CASE LogoutActivity(r)
    <2>1. gate[r].token \in blacklist /\ gate[r].token \in Tokens
      BY <1>1, <1>11 DEF LogoutActivity, GateInv
    <2>2. QED
      BY <1>1, <1>2, <1>11, <2>1 DEF LogoutActivity, Done
  <1>12. QED
    BY <1>3, <1>4, <1>5, <1>6, <1>7, <1>8, <1>9, <1>10, <1>11 DEF GateStep

\* A reason that has held all along holds after the step.
LEMMA TrackKeeps ==
    ASSUME GateInv, Track, NEW q \in Requests
    PROVE  /\ bars'[q] \subseteq Held(q)'
           /\ bars'[q] \subseteq Reasons
           /\ gate[q].pc # "idle" => bars'[q] \subseteq bars[q]
  BY DEF Track, Held, GateInv, GateTypeOK

\* The request that moves passes a check only if there is no reason for it.
LEMMA CheckExcludes ==
    ASSUME GateInv, NEW r \in Requests, GateStep(r), Track
    PROVE  bars'[r] \cap Excluded(gate'[r].pc) = {}
  <1>1. /\ bars'[r] \subseteq Held(r)' /\ bars'[r] \subseteq Reasons
        /\ gate[r].pc # "idle" => bars'[r] \subseteq bars[r]
    BY TrackKeeps
  <1>2. /\ gate'[r].pc \notin {"idle", "token"} =>
             gate'[r].route = gate[r].route /\ gate'[r].token = gate[r].token /\ gate[r].pc # "idle"
        /\ UNCHANGED user
    BY GateStepGate
  <1>3. /\ gate \in [Requests ->
             [pc : {"idle", "token", "active", "deleted", "expel", "admin", "inside", "activity"},
              token : Tokens, route : Routes]]
        /\ dead \subseteq blacklist
        /\ bars[r] \cap Excluded(gate[r].pc) = {}
        /\ gate[r].pc = "admin" => gate[r].route = "admin"
    BY DEF GateInv, GateTypeOK
  <1>4. ASSUME gate'[r].pc \in {"idle", "token", "activity"} PROVE bars'[r] \cap Excluded(gate'[r].pc) = {}
    BY <1>4 DEF Excluded
  <1>5. ASSUME Done(r) PROVE gate'[r].pc = "idle"
    BY <1>3, <1>5 DEF Done, Idle
  <1>6. ASSUME NEW pc, Goto(r, pc) PROVE gate'[r].pc = pc
    BY <1>3, <1>6 DEF Goto
  <1>7. CASE Arrive(r)
    <2>1. gate'[r].pc = "token"
      BY <1>3, <1>7 DEF Arrive
    <2>2. QED
      BY <1>4, <2>1
  <1>8. CASE CheckToken(r) /\ ~Done(r)
    <2>1. gate[r].pc = "token" /\ gate'[r].pc = "active" /\ gate[r].token \notin dead /\ dead' = dead
      BY <1>3, <1>6, <1>8 DEF CheckToken, Listed
    <2>2. "dead token" \notin Held(r)'
      BY <1>2, <2>1 DEF Held
    <2>3. QED
      BY <1>1, <2>1, <2>2 DEF Excluded
  <1>9. CASE CheckActive(r) /\ ~Done(r)
    <2>1. gate[r].pc = "active" /\ gate'[r].pc = "deleted" /\ user.active
      BY <1>6, <1>9 DEF CheckActive
    <2>2. "inactive" \notin Held(r)' /\ "dead token" \notin bars[r]
      BY <1>2, <1>3, <2>1 DEF Held, Excluded
    <2>3. QED
      BY <1>1, <2>1, <2>2 DEF Excluded
  <1>10. CASE CheckDeleted(r) /\ ~Done(r)
    <2>1. gate[r].pc = "deleted" /\ "dead token" \notin bars[r] /\ "inactive" \notin bars[r]
      BY <1>3, <1>10 DEF CheckDeleted, Excluded
    <2>2. CASE gate'[r].pc = "expel"
      BY <1>1, <2>1, <2>2 DEF Excluded
    <2>3. CASE gate'[r].pc # "expel"
      <3>1. ~user.deleted /\ gate'[r].pc = (IF gate[r].route = "admin" THEN "admin" ELSE "inside")
        BY <1>6, <1>10, <2>3 DEF CheckDeleted
      <3>2. "deleted" \notin Held(r)'
        BY <1>2, <3>1 DEF Held
      <3>3. gate'[r].pc = "inside" => "no admin" \notin Held(r)'
        BY <1>2, <3>1 DEF Held
      <3>4. QED
        BY <1>1, <2>1, <3>1, <3>2, <3>3 DEF Excluded, Reasons
    <2>4. QED
      BY <2>2, <2>3
  <1>11. CASE CheckAdmin(r) /\ ~Done(r)
    <2>1. gate[r].pc = "admin" /\ gate'[r].pc = "inside" /\ user.admin
      BY <1>6, <1>11 DEF CheckAdmin
    <2>2. bars[r] \cap {"dead token", "inactive", "deleted"} = {}
      BY <1>3, <2>1 DEF Excluded
    <2>3. "no admin" \notin Held(r)'
      BY <1>2, <2>1 DEF Held
    <2>4. QED
      BY <1>1, <2>1, <2>2, <2>3 DEF Excluded, Reasons
  <1>12. CASE Logout(r) /\ ~Done(r)
    BY <1>4, <1>6, <1>12 DEF Logout
  <1>13. CASE Done(r)
    BY <1>4, <1>5, <1>13
  <1>14. QED
    BY <1>7, <1>8, <1>9, <1>10, <1>11, <1>12, <1>13 DEF GateStep, Expel, Answer, LogoutActivity

LEMMA GateNextInv == GateInv /\ [GateNext]_gateVars => GateInv'
  <1> SUFFICES ASSUME GateInv, [GateNext]_gateVars PROVE GateInv'
    OBVIOUS
  <1>1. /\ GateTypeOK /\ dead \subseteq blacklist
        /\ \A q \in Requests :
             /\ gate[q].pc = "activity" => gate[q].token \in blacklist
             /\ gate[q].pc = "admin" => gate[q].route = "admin"
             /\ bars[q] \subseteq Held(q)
             /\ bars[q] \cap Excluded(gate[q].pc) = {}
    BY DEF GateInv
  <1>2. CASE UNCHANGED gateVars
    BY <1>1, <1>2 DEF gateVars, GateInv, GateTypeOK, Held
  <1>3. ASSUME Track, NEW q \in Requests PROVE bars'[q] \subseteq Held(q)' /\ bars'[q] \subseteq Reasons
    BY <1>3, TrackKeeps
  <1>4. ASSUME Track PROVE bars' \in [Requests -> SUBSET Reasons]
    <2>1. bars' = [q \in Requests |-> bars'[q]]
      BY <1>4 DEF Track
    <2>2. QED
      BY <1>3, <1>4, <2>1
  \* Who did not move, has passed no further check.
  <1>5. ASSUME Track, NEW q \in Requests, gate'[q] = gate[q]
        PROVE  bars'[q] \cap Excluded(gate'[q].pc) = {}
    <2>1. CASE gate[q].pc = "idle"
      BY <1>5, <2>1 DEF Excluded
    <2>2. CASE gate[q].pc # "idle"
      BY <1>1, <1>5, <2>2, TrackKeeps
    <2>3. QED
      BY <2>1, <2>2
  <1>6. CASE Administrate /\ Track
    <2>1. user' \in [active : BOOLEAN, deleted : BOOLEAN, admin : BOOLEAN]
      BY <1>1, <1>6 DEF Administrate, GateTypeOK
    <2>2. QED
      BY <1>1, <1>3, <1>4, <1>5, <1>6, <2>1 DEF Administrate, GateInv, GateTypeOK
  <1>7. ASSUME NEW r \in Requests, GateStep(r), Track PROVE GateInv'
    <2>1. /\ UNCHANGED user
          /\ gate' \in [Requests ->
               [pc : {"idle", "token", "active", "deleted", "expel", "admin", "inside", "activity"},
                token : Tokens, route : Routes]]
          /\ \A q \in Requests : q # r => gate'[q] = gate[q]
          /\ blacklist \subseteq blacklist' /\ blacklist' \subseteq Tokens
          /\ dead' \subseteq blacklist'
          /\ gate'[r].pc = "activity" => gate'[r].token \in blacklist'
      BY <1>7, GateStepGate
    <2>2. GateTypeOK'
      BY <1>1, <1>4, <1>7, <2>1 DEF GateTypeOK
    <2>3. gate'[r].pc = "admin" => gate'[r].route = "admin"
      BY <1>1, <1>7, GateAssumption DEF GateStep, Arrive, CheckToken, CheckActive, CheckDeleted, Expel, CheckAdmin,
         Answer, Logout, LogoutActivity, Goto, Done, Idle, GateTypeOK
    <2>4. bars'[r] \cap Excluded(gate'[r].pc) = {}
      BY <1>7, CheckExcludes
    <2>5. ASSUME NEW q \in Requests
          PROVE  /\ gate'[q].pc = "activity" => gate'[q].token \in blacklist'
                 /\ gate'[q].pc = "admin" => gate'[q].route = "admin"
                 /\ bars'[q] \subseteq Held(q)'
                 /\ bars'[q] \cap Excluded(gate'[q].pc) = {}
      <3>1. CASE q = r
        BY <1>3, <1>7, <2>1, <2>3, <2>4, <3>1
      <3>2. CASE q # r
        BY <1>1, <1>3, <1>5, <1>7, <2>1, <3>2
      <3>3. QED
        BY <3>1, <3>2
    <2>6. QED
      BY <2>1, <2>2, <2>5 DEF GateInv
  <1>8. QED
    BY <1>2, <1>6, <1>7 DEF GateNext

LEMMA GateInvariance == GateSpec => []GateInv
  BY GateInitInv, GateNextInv, PTL DEF GateSpec

\* However the checks of the gate interleave with administrators and with
\* logouts, no handler runs for a request that one and the same reason stood
\* against since it arrived.
THEOREM NoBarredRequestEnters == GateSpec => []NoBarredEntry
  <1>1. GateInv => NoBarredEntry
    BY DEF GateInv, GateTypeOK, NoBarredEntry, Excluded
  <1>2. QED
    BY <1>1, GateInvariance, PTL

-----------------------------------------------------------------------------
(* The notes. *)

NoteSteps == {"idle", "validate", "insert", "find", "update", "delete", "answered", "refused"}

NoteRequest == [pc : NoteSteps, op : {"create", "update", "delete"}, user : NoteUsers, id : Nat]

\* An update has found a note of its user, and no note changes its user.
UpdatesOwn ==
    \A r \in NoteRequests :
      noteReq[r].pc = "update" \/ (noteReq[r].pc = "validate" /\ noteReq[r].op = "update") =>
        noteReq[r].id \in Ids /\ notes[noteReq[r].id].user = noteReq[r].user

\* Undisturbed, the only request under way has its user in the context, and
\* inserts a note for a user that has none.
Alone ==
    /\ \A q, r \in UnderWay : q = r
    /\ \A r \in UnderWay : noteReq[r].user = context
    /\ \A r \in NoteRequests : noteReq[r].pc = "insert" => LiveNotes(noteReq[r].user) = {}
    /\ \A u \in NoteUsers : \A i, j \in LiveNotes(u) : i = j

\* The inductive invariant.
NotesInv ==
    /\ noteReq \in [NoteRequests -> NoteRequest]
    /\ notes \in Seq(NoteRow)
    /\ context \in NoteUsers
    /\ disturbed \in BOOLEAN
    /\ UpdatesOwn
    /\ ~disturbed => Alone

LEMMA NotesInitInv == NotesInit => NotesInv
  <1> SUFFICES ASSUME NotesInit PROVE NotesInv
    OBVIOUS
  <1>1. SomeUser \in NoteUsers
    BY NotesAssumption DEF SomeUser
  <1>2. /\ noteReq \in [NoteRequests -> NoteRequest]
        /\ \A r \in NoteRequests : noteReq[r].pc = "idle"
        /\ context \in NoteUsers /\ disturbed \in BOOLEAN /\ notes = <<>>
    BY <1>1 DEF NotesInit, NoteRequest, NoteSteps
  <1>3. notes \in Seq(NoteRow) /\ Ids = {}
    BY <1>2 DEF Ids
  <1>4. UpdatesOwn
    BY <1>2 DEF UpdatesOwn
  <1>5. Alone
    BY <1>2, <1>3 DEF Alone, UnderWay, LiveNotes
  <1>6. QED
    BY <1>2, <1>3, <1>4, <1>5 DEF NotesInv

\* A request goes on to a step, and leaves notes, context and whether somebody
\* was disturbed alone.
LEMMA NoteGotoKeeps ==
    ASSUME NotesInv, NEW r \in NoteRequests, NEW pc \in NoteSteps, NoteGoto(r, pc), UNCHANGED notes,
           noteReq[r].pc \notin {"idle", "answered", "refused"},
           pc = "insert" => disturbed \/ LiveNotes(noteReq[r].user) = {},
           pc = "validate" \/ pc = "update" =>
             noteReq[r].id \in Ids /\ notes[noteReq[r].id].user = noteReq[r].user
    PROVE  NotesInv'
  <1>1. /\ noteReq' \in [NoteRequests -> NoteRequest]
        /\ \A q \in NoteRequests : q # r => noteReq'[q] = noteReq[q]
        /\ noteReq'[r].pc = pc /\ noteReq'[r].user = noteReq[r].user /\ noteReq'[r].id = noteReq[r].id
        /\ context' = context /\ disturbed' = disturbed
    BY DEF NoteGoto, NotesInv, NoteRequest
  <1>2. UnderWay' \subseteq UnderWay
    BY <1>1 DEF UnderWay
  <1>4. UpdatesOwn'
    BY <1>1 DEF UpdatesOwn, NotesInv, Ids
  <1>5. ~disturbed => Alone'
    <2>1. SUFFICES ASSUME ~disturbed PROVE Alone'
      OBVIOUS
    <2>2. Alone
      BY <2>1 DEF NotesInv
    <2>3. \A q \in UnderWay' : noteReq'[q].user = context'
      BY <1>1, <1>2, <2>2 DEF Alone, UnderWay
    <2>4. \A q \in NoteRequests : noteReq'[q].pc = "insert" => LiveNotes(noteReq[q].user)' = {}
      BY <1>1, <2>1, <2>2 DEF Alone, LiveNotes, Ids
    <2>5. QED
      BY <1>2, <2>2, <2>3, <2>4 DEF Alone, LiveNotes, Ids
  <1>6. QED
    BY <1>1, <1>4, <1>5 DEF NotesInv

LEMMA NotesNextInv == NotesInv /\ [NotesNext]_noteVars => NotesInv'
  <1> SUFFICES ASSUME NotesInv, [NotesNext]_noteVars PROVE NotesInv'
    OBVIOUS
  <1>1. /\ noteReq \in [NoteRequests -> NoteRequest] /\ notes \in Seq(NoteRow)
        /\ context \in NoteUsers /\ disturbed \in BOOLEAN /\ UpdatesOwn
        /\ ~disturbed => Alone
    BY DEF NotesInv
  <1>2. CASE UNCHANGED noteVars
    BY <1>1, <1>2 DEF noteVars, NotesInv, UpdatesOwn, Alone, UnderWay, LiveNotes, Ids
  <1>3. ASSUME NEW r \in NoteRequests, BeginNote(r) PROVE NotesInv'
    <2>1. PICK u \in NoteUsers, op \in {"create", "update", "delete"} :
            /\ noteReq' = [noteReq EXCEPT ![r] =
                 [pc |-> CASE op = "create" -> "validate" [] op = "update" -> "find" [] OTHER -> "delete",
                  op |-> op, user |-> u, id |-> 0]]
            /\ context' = u
      BY <1>3 DEF BeginNote
    <2>2. PICK pc \in NoteSteps :
            /\ noteReq' = [noteReq EXCEPT ![r] = [pc |-> pc, op |-> op, user |-> u, id |-> 0]]
            /\ pc \in {"validate", "find", "delete"} /\ (pc = "validate" => op = "create")
      <3>1. CASE op = "create"
        BY <2>1, <3>1 DEF NoteSteps
      <3>2. CASE op = "update"
        BY <2>1, <3>2 DEF NoteSteps
      <3>3. CASE op = "delete"
        BY <2>1, <3>3 DEF NoteSteps
      <3>4. QED
        BY <3>1, <3>2, <3>3
    <2>3. /\ noteReq' \in [NoteRequests -> NoteRequest]
          /\ noteReq'[r] = [pc |-> pc, op |-> op, user |-> u, id |-> 0]
          /\ \A q \in NoteRequests : q # r => noteReq'[q] = noteReq[q]
      BY <1>1, <2>2 DEF NoteRequest
    <2>4. UNCHANGED notes /\ disturbed' = (disturbed \/ UnderWay # {})
      BY <1>3 DEF BeginNote
    <2>5. UpdatesOwn'
      BY <1>1, <2>2, <2>3, <2>4 DEF UpdatesOwn, Ids
    <2>6. ASSUME ~disturbed' PROVE Alone'
      <3>1. Alone /\ UnderWay = {}
        BY <1>1, <2>4, <2>6
      <3>2. UnderWay' \subseteq {r}
        BY <2>3, <3>1 DEF UnderWay
      <3>3. \A v : LiveNotes(v)' = LiveNotes(v)
        BY <2>4 DEF LiveNotes, Ids
      <3>4. \A q \in NoteRequests : noteReq'[q].pc # "insert"
        BY <2>2, <2>3, <3>1 DEF UnderWay
      <3>5. QED
        BY <2>1, <2>3, <3>1, <3>2, <3>3, <3>4 DEF Alone
    <2>7. QED
      BY <1>1, <2>1, <2>3, <2>4, <2>5, <2>6 DEF NotesInv
  <1>4. ASSUME NEW r \in NoteRequests, ValidateCreate(r) PROVE NotesInv'
    <2>1. noteReq[r].pc = "validate" /\ UNCHANGED notes
      BY <1>4 DEF ValidateCreate
    <2>2. CASE CreateAllowed /\ NoteGoto(r, "insert")
      <3>1. LiveNotes(context) = {}
        BY <2>2 DEF CreateAllowed, ExistsForContext, LiveNotes
      <3>2. disturbed \/ noteReq[r].user = context
        BY <1>1, <2>1 DEF Alone, UnderWay
      <3>3. QED
        BY <2>1, <2>2, <3>1, <3>2, NoteGotoKeeps DEF NoteSteps
    <2>3. CASE NoteGoto(r, "refused")
      BY <2>1, <2>3, NoteGotoKeeps DEF NoteSteps
    <2>4. CASE noteReq' = [noteReq EXCEPT ![r].pc = "insert"] /\ disturbed' = TRUE /\ UNCHANGED context
      <3>1. noteReq' \in [NoteRequests -> NoteRequest]
        BY <1>1, <2>4 DEF NoteRequest, NoteSteps
      <3>2. UpdatesOwn'
        BY <1>1, <2>1, <2>4 DEF UpdatesOwn, Ids, NoteRequest
      <3>3. QED
        BY <1>1, <2>1, <2>4, <3>1, <3>2 DEF NotesInv
    <2>5. QED
      BY <1>4, <2>2, <2>3, <2>4 DEF ValidateCreate
  \* A request that writes is answered.
  <1>5. ASSUME NEW r \in NoteRequests, NoteGoto(r, "answered"), noteReq[r].pc \in {"insert", "update", "delete"}
        PROVE  /\ noteReq' \in [NoteRequests -> NoteRequest]
               /\ noteReq'[r].pc = "answered"
               /\ \A q \in NoteRequests : q # r => noteReq'[q] = noteReq[q]
               /\ context' = context /\ disturbed' = disturbed
               /\ UnderWay' \subseteq UnderWay /\ r \in UnderWay
               /\ ~disturbed => \A q \in NoteRequests : noteReq'[q].pc \in {"idle", "answered", "refused"}
    <2>1. /\ noteReq' \in [NoteRequests -> NoteRequest]
          /\ noteReq'[r].pc = "answered"
          /\ \A q \in NoteRequests : q # r => noteReq'[q] = noteReq[q]
          /\ context' = context /\ disturbed' = disturbed
      BY <1>1, <1>5 DEF NoteGoto, NoteRequest, NoteSteps
    <2>2. UnderWay' \subseteq UnderWay /\ r \in UnderWay
      BY <1>5, <2>1 DEF UnderWay
    <2>3. ~disturbed => \A q \in NoteRequests : noteReq'[q].pc \in {"idle", "answered", "refused"}
      BY <1>1, <2>1, <2>2 DEF Alone, UnderWay
    <2>4. QED
      BY <2>1, <2>2, <2>3
  \* A write that leaves the users of the notes alone, and no user two.
  <1>6. ASSUME NEW r \in NoteRequests, NoteGoto(r, "answered"), noteReq[r].pc \in {"insert", "update", "delete"},
               notes' \in Seq(NoteRow), Len(notes) <= Len(notes'),
               \A id \in Ids : notes'[id].user = notes[id].user,
               ~disturbed => \A u \in NoteUsers : \A i, j \in LiveNotes(u)' : i = j
        PROVE  NotesInv'
    <2>1. UpdatesOwn'
      BY <1>1, <1>5, <1>6 DEF UpdatesOwn, Ids
    <2>2. ~disturbed => Alone'
      <3>1. ~disturbed => UnderWay' = {} 
        BY <1>5, <1>6 DEF UnderWay
      <3>2. ~disturbed => \A q \in NoteRequests : noteReq'[q].pc # "insert"
        BY <1>5, <1>6
      <3>3. QED
        BY <1>6, <3>1, <3>2 DEF Alone
    <2>3. QED
      BY <1>1, <1>5, <1>6, <2>1, <2>2 DEF NotesInv
  <1>7. ASSUME NEW r \in NoteRequests, noteReq[r].pc \in {"insert", "update", "delete", "find", "validate"},
               NoteGoto(r, "refused"), UNCHANGED notes
        PROVE  NotesInv'
    BY <1>7, NoteGotoKeeps DEF NoteSteps
  <1>8. ASSUME NEW r \in NoteRequests, InsertNote(r) PROVE NotesInv'
    <2>1. CASE NoteGoto(r, "refused") /\ UNCHANGED notes
      BY <1>7, <1>8, <2>1 DEF InsertNote
    <2>2. CASE /\ notes' = Append(notes, [user |-> noteReq[r].user, text |-> r, deleted |-> FALSE])
               /\ NoteGoto(r, "answered")
      <3> DEFINE note == [user |-> noteReq[r].user, text |-> r, deleted |-> FALSE]
      <3>1. noteReq[r].user \in NoteUsers /\ noteReq[r].pc = "insert"
        BY <1>1, <1>8 DEF InsertNote, NoteRequest
      <3>2. note \in NoteRow
        BY <3>1 DEF NoteRow
      <3>3. /\ notes' \in Seq(NoteRow) /\ Len(notes') = Len(notes) + 1
            /\ \A id \in Ids : notes'[id] = notes[id]
            /\ notes'[Len(notes) + 1] = note
        BY <1>1, <2>2, <3>2 DEF Ids
      <3>4. ~disturbed => \A u \in NoteUsers : \A i, j \in LiveNotes(u)' : i = j
        <4>1. SUFFICES ASSUME ~disturbed, NEW u \in NoteUsers, NEW i \in LiveNotes(u)', NEW j \in LiveNotes(u)'
                       PROVE  i = j
          OBVIOUS
        <4>2. Alone /\ LiveNotes(noteReq[r].user) = {}
          BY <1>1, <3>1, <4>1 DEF Alone
        <4>3. Len(notes) \in Nat
          BY <1>1
        <4>4. \A k \in LiveNotes(u)' : k \in LiveNotes(u) \/ (k = Len(notes) + 1 /\ u = noteReq[r].user)
          BY <3>3, <4>3 DEF LiveNotes, Ids
        <4>5. QED
          BY <4>2, <4>4 DEF Alone
      <3>5. QED
        BY <1>6, <2>2, <3>1, <3>3, <3>4 DEF Ids
    <2>3. QED
      BY <1>8, <2>1, <2>2 DEF InsertNote
  <1>9. ASSUME NEW r \in NoteRequests, FindNoteID(r) PROVE NotesInv'
    <2>1. CASE NoteGoto(r, "refused")
      BY <1>7, <1>9, <2>1 DEF FindNoteID
    <2>2. CASE \E id \in FoundNotes(noteReq[r].user) :
                 /\ noteReq' = [noteReq EXCEPT ![r].pc = "validate", ![r].id = id]
                 /\ UNCHANGED <<context, disturbed>>
      <3>1. PICK id \in FoundNotes(noteReq[r].user) :
                 /\ noteReq' = [noteReq EXCEPT ![r].pc = "validate", ![r].id = id]
                 /\ UNCHANGED <<context, disturbed>>
        BY <2>2
      <3>2. UNCHANGED notes /\ noteReq[r].pc = "find"
        BY <1>9 DEF FindNoteID
      <3>3. id \in Ids /\ notes[id].user = noteReq[r].user /\ id \in Nat
        BY <1>1 DEF FoundNotes, LiveNotes, Ids
      <3>4. /\ noteReq' \in [NoteRequests -> NoteRequest]
            /\ noteReq'[r].pc = "validate" /\ noteReq'[r].id = id /\ noteReq'[r].user = noteReq[r].user
            /\ \A q \in NoteRequests : q # r => noteReq'[q] = noteReq[q]
        BY <1>1, <3>1, <3>3 DEF NoteRequest, NoteSteps
      <3>5. UpdatesOwn'
        BY <1>1, <3>2, <3>3, <3>4 DEF UpdatesOwn, Ids
      <3>6. UnderWay' = UnderWay
        BY <3>2, <3>4 DEF UnderWay
      <3>8. ~disturbed => Alone'
        <4>1. SUFFICES ASSUME Alone PROVE Alone'
          BY <1>1
        <4>2. \A q \in UnderWay' : noteReq'[q].user = context'
          BY <3>1, <3>4, <3>6, <4>1 DEF Alone, UnderWay
        <4>3. \A q \in NoteRequests : noteReq'[q].pc = "insert" => LiveNotes(noteReq[q].user)' = {}
          BY <3>2, <3>4, <4>1 DEF Alone, LiveNotes, Ids
        <4>4. QED
          BY <3>2, <3>6, <4>1, <4>2, <4>3 DEF Alone, LiveNotes, Ids
      <3>9. QED
        BY <1>1, <3>1, <3>2, <3>4, <3>5, <3>8 DEF NotesInv
    <2>3. QED
      BY <1>9, <2>1, <2>2 DEF FindNoteID
  <1>10. ASSUME NEW r \in NoteRequests, ValidateUpdate(r) PROVE NotesInv'
    <2>1. noteReq[r].pc = "validate" /\ noteReq[r].op = "update" /\ UNCHANGED notes
      BY <1>10 DEF ValidateUpdate
    <2>2. noteReq[r].id \in Ids /\ notes[noteReq[r].id].user = noteReq[r].user
      BY <1>1, <2>1 DEF UpdatesOwn
    <2>3. QED
      BY <1>10, <2>1, <2>2, NoteGotoKeeps DEF ValidateUpdate, NoteSteps
  <1>11. ASSUME NEW r \in NoteRequests, UpdateNote(r) PROVE NotesInv'
    <2>1. CASE NoteGoto(r, "refused") /\ UNCHANGED notes
      BY <1>7, <1>11, <2>1 DEF UpdateNote
    <2>2. CASE notes' = [notes EXCEPT ![noteReq[r].id].text = r] /\ NoteGoto(r, "answered")
      <3>1. noteReq[r].pc = "update"
        BY <1>11 DEF UpdateNote
      <3>2. noteReq[r].id \in 1..Len(notes)
        BY <1>1, <3>1 DEF UpdatesOwn, Ids
      <3>3. [notes[noteReq[r].id] EXCEPT !.text = r] \in NoteRow
        <4>1. notes[noteReq[r].id] \in NoteRow
          BY <1>1, <3>2
        <4>2. QED
          BY <4>1 DEF NoteRow
      <3>4. /\ notes' \in Seq(NoteRow) /\ Len(notes') = Len(notes)
            /\ \A id \in Ids : notes'[id].user = notes[id].user /\ notes'[id].deleted = notes[id].deleted
        BY <1>1, <2>2, <3>2, <3>3 DEF Ids, NoteRow
      <3>5. \A u : LiveNotes(u)' = LiveNotes(u)
        BY <3>4 DEF LiveNotes, Ids
      <3>6. QED
        BY <1>1, <1>6, <2>2, <3>1, <3>4, <3>5 DEF Alone
    <2>3. QED
      BY <1>11, <2>1, <2>2 DEF UpdateNote
  <1>12. ASSUME NEW r \in NoteRequests, DeleteNotes(r) PROVE NotesInv'
    <2>1. CASE NoteGoto(r, "refused") /\ UNCHANGED notes
      BY <1>7, <1>12, <2>1 DEF DeleteNotes
    <2>2. CASE /\ notes' = [id \in Ids |-> IF id \in LiveNotes(noteReq[r].user)
                                          THEN [notes[id] EXCEPT !.deleted = TRUE] ELSE notes[id]]
               /\ NoteGoto(r, "answered")
      <3>1. noteReq[r].pc = "delete"
        BY <1>12 DEF DeleteNotes
      <3>2. \A id \in Ids : /\ notes[id] \in NoteRow /\ notes'[id] \in NoteRow
                            /\ notes'[id].user = notes[id].user
                            /\ notes[id].deleted => notes'[id].deleted
        <4>1. SUFFICES ASSUME NEW id \in Ids
                       PROVE  /\ notes[id] \in NoteRow /\ notes'[id] \in NoteRow
                              /\ notes'[id].user = notes[id].user
                              /\ notes[id].deleted => notes'[id].deleted
          OBVIOUS
        <4>2. notes[id] \in NoteRow
          BY <1>1 DEF Ids
        <4>3. notes'[id] = notes[id] \/ notes'[id] = [notes[id] EXCEPT !.deleted = TRUE]
          BY <2>2
        <4>4. QED
          BY <4>2, <4>3 DEF NoteRow
      <3>3. notes' \in Seq(NoteRow) /\ Len(notes') = Len(notes)
        <4>1. Len(notes) \in Nat
          BY <1>1
        <4>2. notes' \in [1..Len(notes) -> NoteRow]
          BY <2>2, <3>2 DEF Ids
        <4>3. QED
          BY <4>1, <4>2
      <3>4. ASSUME NEW u \in NoteUsers PROVE LiveNotes(u)' \subseteq LiveNotes(u)
        BY <3>2, <3>3 DEF LiveNotes, Ids
      <3>5. ~disturbed => \A u \in NoteUsers : \A i, j \in LiveNotes(u)' : i = j
        BY <1>1, <3>4 DEF Alone
      <3>6. Len(notes) <= Len(notes')
        BY <1>1, <3>3
      <3>7. QED
        BY <1>6, <2>2, <3>1, <3>2, <3>3, <3>5, <3>6
    <2>3. QED
      BY <1>12, <2>1, <2>2 DEF DeleteNotes
  <1>13. QED
    BY <1>2, <1>3, <1>4, <1>8, <1>9, <1>10, <1>11, <1>12 DEF NotesNext

LEMMA NotesInvariance == NotesSpec => []NotesInv
  BY NotesInitInv, NotesNextInv, PTL DEF NotesSpec

\* One request after the other, and with validations whose queries succeed,
\* no user gets a second note on the hadith.
THEOREM AloneGetsOneNote == NotesSpec => []OneNoteIfAlone
  <1>1. NotesInv => OneNoteIfAlone
    <2>1. SUFFICES ASSUME Alone, NEW u \in NoteUsers PROVE Cardinality(LiveNotes(u)) <= 1
      BY DEF NotesInv, OneNoteIfAlone
    <2>2. CASE LiveNotes(u) = {}
      BY <2>2, FS_EmptySet
    <2>3. CASE LiveNotes(u) # {}
      <3>1. PICK id : LiveNotes(u) = {id}
        BY <2>1, <2>3 DEF Alone
      <3>2. QED
        BY <3>1, FS_Singleton
    <2>4. QED
      BY <2>2, <2>3
  <1>2. QED
    BY <1>1, NotesInvariance, PTL

\* Whoever is in the context of the process, no request changes a note of
\* another user.
THEOREM NotesOfOthersStay == NotesSpec => OwnNotesOnly
  <1> DEFINE Own == \A id \in Ids : notes'[id] # notes[id] =>
                      \E r \in NoteRequests : noteReq'[r].pc # noteReq[r].pc /\ noteReq[r].user = notes[id].user
  <1>1. ASSUME NotesInv, [NotesNext]_noteVars PROVE [Own]_noteVars
    <2>1. noteReq \in [NoteRequests -> NoteRequest] /\ notes \in Seq(NoteRow) /\ UpdatesOwn
      BY <1>1 DEF NotesInv
    <2>2. CASE UNCHANGED notes
      BY <2>2
    <2>3. ASSUME NEW r \in NoteRequests, NoteGoto(r, "answered"), noteReq[r].pc # "answered"
          PROVE  noteReq'[r].pc # noteReq[r].pc
      BY <2>1, <2>3 DEF NoteGoto, NoteRequest
    <2>4. ASSUME NEW r \in NoteRequests, InsertNote(r), ~UNCHANGED notes PROVE Own
      <3>1. \A id \in Ids : notes'[id] = notes[id]
        BY <2>1, <2>4 DEF InsertNote, Ids
      <3>2. QED
        BY <3>1
    <2>5. ASSUME NEW r \in NoteRequests, UpdateNote(r), ~UNCHANGED notes PROVE Own
      <3>1. noteReq[r].id \in Ids /\ notes[noteReq[r].id].user = noteReq[r].user
        BY <2>1, <2>5 DEF UpdateNote, UpdatesOwn
      <3>2. \A id \in Ids : id # noteReq[r].id => notes'[id] = notes[id]
        BY <2>1, <2>5 DEF UpdateNote, Ids
      <3>3. noteReq'[r].pc # noteReq[r].pc
        BY <2>3, <2>5 DEF UpdateNote
      <3>4. QED
        BY <3>1, <3>2, <3>3
    <2>6. ASSUME NEW r \in NoteRequests, DeleteNotes(r), ~UNCHANGED notes PROVE Own
      <3>1. \A id \in Ids : notes'[id] # notes[id] => notes[id].user = noteReq[r].user
        BY <2>1, <2>6 DEF DeleteNotes, LiveNotes
      <3>2. noteReq'[r].pc # noteReq[r].pc
        BY <2>3, <2>6 DEF DeleteNotes
      <3>3. QED
        BY <3>1, <3>2
    <2>7. QED
      BY <1>1, <2>2, <2>4, <2>5, <2>6
         DEF NotesNext, BeginNote, ValidateCreate, FindNoteID, ValidateUpdate, noteVars
  <1>2. QED
    BY <1>1, NotesInvariance, PTL DEF NotesSpec, OwnNotesOnly

\* The requests that have created a note.
Creators == {r \in NoteRequests : noteReq[r].op = "create" /\ noteReq[r].pc = "answered"}

\* A note is created by a request that has ended, and no request looks for a
\* note that is not there.
NotesCounted ==
    /\ \A r \in NoteRequests : noteReq[r].pc = "insert" => noteReq[r].op = "create"
    /\ \A r \in NoteRequests : noteReq[r].id <= Len(notes)
    /\ Len(notes) <= Cardinality(Creators)

LEMMA NotesInitCounted == NotesInit => NotesCounted
  <1> SUFFICES ASSUME NotesInit PROVE NotesCounted
    OBVIOUS
  <1>1. notes = <<>> /\ \A r \in NoteRequests : noteReq[r].pc = "idle" /\ noteReq[r].id = 0
    BY DEF NotesInit
  <1>2. Creators = {}
    BY <1>1 DEF Creators
  <1>3. QED
    BY <1>1, <1>2, FS_EmptySet DEF NotesCounted

LEMMA NotesNextCounted ==
    ASSUME IsFiniteSet(NoteRequests), NotesInv, NotesCounted, [NotesNext]_noteVars
    PROVE  NotesCounted'
  <1>1. /\ noteReq \in [NoteRequests -> NoteRequest] /\ notes \in Seq(NoteRow)
        /\ Len(notes) \in Nat
        /\ \A r \in NoteRequests : noteReq[r].pc = "insert" => noteReq[r].op = "create"
        /\ \A r \in NoteRequests : noteReq[r].id \in Nat /\ noteReq[r].id <= Len(notes)
        /\ Len(notes) <= Cardinality(Creators)
    BY DEF NotesInv, NotesCounted, NoteRequest
  <1>2. IsFiniteSet(Creators) /\ IsFiniteSet(Creators')
    BY FS_Subset DEF Creators
  \* One request moves, and the table grows only by one that ends a create.
  <1>3. ASSUME NEW r \in NoteRequests, NEW request \in NoteRequest,
               noteReq' = [noteReq EXCEPT ![r] = request],
               noteReq[r].pc # "answered",
               request.pc = "insert" => request.op = "create",
               request.id <= Len(notes), Len(notes') \in Nat,
               \/ Len(notes') = Len(notes)
               \/ Len(notes') = Len(notes) + 1 /\ request.pc = "answered" /\ request.op = "create"
        PROVE  NotesCounted'
    <2>1. noteReq'[r] = request /\ \A q \in NoteRequests : q # r => noteReq'[q] = noteReq[q]
      BY <1>1, <1>3
    <2>2. /\ \A q \in NoteRequests : noteReq'[q].pc = "insert" => noteReq'[q].op = "create"
          /\ \A q \in NoteRequests : noteReq'[q].id <= Len(notes')
      <3>1. \A q \in NoteRequests : noteReq'[q].id \in Nat /\ noteReq'[q].id <= Len(notes)
        BY <1>1, <1>3, <2>1 DEF NoteRequest
      <3>2. QED
        BY <1>1, <1>3, <2>1, <3>1
    <2>3. r \notin Creators /\ Creators \subseteq Creators'
      BY <1>3, <2>1 DEF Creators
    <2>4. Cardinality(Creators) \in Nat /\ Cardinality(Creators') \in Nat
      BY <1>2, FS_CardinalityType
    <2>5. Len(notes') <= Cardinality(Creators')
      <3>1. CASE Len(notes') = Len(notes)
        BY <1>1, <1>2, <2>3, <2>4, <3>1, FS_Subset
      <3>2. CASE Len(notes') = Len(notes) + 1 /\ request.pc = "answered" /\ request.op = "create"
        <4>1. Creators' = Creators \cup {r}
          BY <2>1, <3>2 DEF Creators
        <4>2. Cardinality(Creators') = Cardinality(Creators) + 1
          BY <1>2, <2>3, <4>1, FS_AddElement
        <4>3. QED
          BY <1>1, <2>4, <3>2, <4>2
      <3>3. QED
        BY <1>3, <3>1, <3>2
    <2>6. QED
      BY <2>2, <2>5 DEF NotesCounted
  \* A request goes on without a new note.
  <1>4. ASSUME NEW r \in NoteRequests, NEW pc \in NoteSteps, NoteGoto(r, pc),
               noteReq[r].pc # "answered", pc = "insert" => noteReq[r].op = "create",
               Len(notes') = Len(notes)
        PROVE  NotesCounted'
    <2>1. PICK request : request = [noteReq[r] EXCEPT !.pc = pc]
      OBVIOUS
    <2>2. /\ request \in NoteRequest /\ request.pc = pc /\ request.op = noteReq[r].op
          /\ request.id = noteReq[r].id
      BY <1>1, <2>1 DEF NoteRequest
    <2>3. noteReq' = [noteReq EXCEPT ![r] = request]
      BY <1>4, <2>1 DEF NoteGoto
    <2>4. QED
      BY <1>1, <1>3, <1>4, <2>2, <2>3
  <1>5. ASSUME NEW r \in NoteRequests, BeginNote(r) PROVE NotesCounted'
    <2>1. PICK u \in NoteUsers, op \in {"create", "update", "delete"} :
            noteReq' = [noteReq EXCEPT ![r] =
              [pc |-> CASE op = "create" -> "validate" [] op = "update" -> "find" [] OTHER -> "delete",
               op |-> op, user |-> u, id |-> 0]]
      BY <1>5 DEF BeginNote
    <2>2. PICK pc \in {"validate", "find", "delete"} :
            noteReq' = [noteReq EXCEPT ![r] = [pc |-> pc, op |-> op, user |-> u, id |-> 0]]
      <3>1. CASE op = "create"
        BY <2>1, <3>1
      <3>2. CASE op = "update"
        BY <2>1, <3>2
      <3>3. CASE op = "delete"
        BY <2>1, <3>3
      <3>4. QED
        BY <3>1, <3>2, <3>3
    <2>3. PICK request : request = [pc |-> pc, op |-> op, user |-> u, id |-> 0]
      OBVIOUS
    <2>4. request \in NoteRequest /\ request.pc # "insert" /\ request.id <= Len(notes)
      BY <1>1, <2>3 DEF NoteRequest, NoteSteps
    <2>5. noteReq[r].pc # "answered" /\ Len(notes') = Len(notes) /\ Len(notes') \in Nat
      BY <1>1, <1>5 DEF BeginNote
    <2>6. noteReq' = [noteReq EXCEPT ![r] = request]
      BY <2>2, <2>3
    <2>7. QED
      BY <1>3, <2>4, <2>5, <2>6
  <1>6. ASSUME NEW r \in NoteRequests, ValidateCreate(r) PROVE NotesCounted'
    <2>1. noteReq[r].pc = "validate" /\ noteReq[r].op = "create" /\ notes' = notes
      BY <1>6 DEF ValidateCreate
    <2>2. CASE NoteGoto(r, "insert") \/ NoteGoto(r, "refused")
      BY <1>4, <2>1, <2>2 DEF NoteSteps
    <2>3. CASE noteReq' = [noteReq EXCEPT ![r].pc = "insert"]
      <3>1. PICK request : request = [noteReq[r] EXCEPT !.pc = "insert"]
        OBVIOUS
      <3>2. /\ request \in NoteRequest /\ request.pc = "insert" /\ request.op = "create"
            /\ request.id = noteReq[r].id
        BY <1>1, <2>1, <3>1 DEF NoteRequest, NoteSteps
      <3>3. noteReq' = [noteReq EXCEPT ![r] = request]
        BY <2>3, <3>1
      <3>4. QED
        BY <1>1, <1>3, <2>1, <3>2, <3>3
    <2>4. QED
      BY <1>6, <2>2, <2>3 DEF ValidateCreate
  <1>7. ASSUME NEW r \in NoteRequests, InsertNote(r) PROVE NotesCounted'
    <2>1. noteReq[r].pc = "insert" /\ noteReq[r].op = "create"
      BY <1>1, <1>7 DEF InsertNote
    <2>2. CASE NoteGoto(r, "refused") /\ UNCHANGED notes
      BY <1>4, <2>1, <2>2 DEF NoteSteps
    <2>3. CASE /\ notes' = Append(notes, [user |-> noteReq[r].user, text |-> r, deleted |-> FALSE])
               /\ NoteGoto(r, "answered")
      <3>1. Len(notes') = Len(notes) + 1
        BY <1>1, <2>3
      <3>2. PICK request : request = [noteReq[r] EXCEPT !.pc = "answered"]
        OBVIOUS
      <3>3. /\ request \in NoteRequest /\ request.pc = "answered" /\ request.op = "create"
            /\ request.id = noteReq[r].id
        BY <1>1, <2>1, <3>2 DEF NoteRequest, NoteSteps
      <3>4. noteReq' = [noteReq EXCEPT ![r] = request]
        BY <2>3, <3>2 DEF NoteGoto
      <3>5. Len(notes') \in Nat /\ request.id <= Len(notes) /\ noteReq[r].pc # "answered"
        BY <1>1, <2>1, <3>1, <3>3
      <3>6. QED
        BY <1>3, <3>1, <3>3, <3>4, <3>5
    <2>4. QED
      BY <1>7, <2>2, <2>3 DEF InsertNote
  <1>8. ASSUME NEW r \in NoteRequests, FindNoteID(r) PROVE NotesCounted'
    <2>1. noteReq[r].pc = "find" /\ notes' = notes
      BY <1>8 DEF FindNoteID
    <2>2. CASE NoteGoto(r, "refused")
      BY <1>4, <2>1, <2>2 DEF NoteSteps
    <2>3. CASE ~NoteGoto(r, "refused")
      <3>1. PICK id \in FoundNotes(noteReq[r].user) :
              noteReq' = [noteReq EXCEPT ![r].pc = "validate", ![r].id = id]
        BY <1>8, <2>3 DEF FindNoteID
      <3>2. id \in Nat /\ id <= Len(notes)
        BY <1>1 DEF FoundNotes, LiveNotes, Ids
      <3>3. PICK request : request = [noteReq[r] EXCEPT !.pc = "validate", !.id = id]
        OBVIOUS
      <3>4. request \in NoteRequest /\ request.pc = "validate" /\ request.id = id
        BY <1>1, <3>2, <3>3 DEF NoteRequest, NoteSteps
      <3>5. noteReq' = [noteReq EXCEPT ![r] = request]
        BY <3>1, <3>3
      <3>6. QED
        BY <1>1, <1>3, <2>1, <3>2, <3>4, <3>5
    <2>4. QED
      BY <2>2, <2>3
  <1>9. ASSUME NEW r \in NoteRequests, ValidateUpdate(r) \/ UpdateNote(r) \/ DeleteNotes(r)
        PROVE  NotesCounted'
    <2>1. /\ noteReq[r].pc # "answered"
          /\ \E pc \in {"update", "refused", "answered"} : NoteGoto(r, pc)
      BY <1>9 DEF ValidateUpdate, UpdateNote, DeleteNotes
    <2>2. Len(notes') = Len(notes)
      <3>1. CASE UNCHANGED notes
        BY <3>1
      <3>2. CASE UpdateNote(r)
        BY <1>1, <3>2 DEF UpdateNote
      <3>3. CASE DeleteNotes(r)
        <4>1. CASE ~UNCHANGED notes
          BY <1>1, <3>3, <4>1 DEF DeleteNotes, Ids
        <4>2. QED
          BY <4>1
      <3>4. QED
        BY <1>9, <3>1, <3>2, <3>3 DEF ValidateUpdate
    <2>3. QED
      BY <1>4, <2>1, <2>2 DEF NoteSteps
  <1>10. CASE UNCHANGED noteVars
    BY <1>10 DEF noteVars, NotesCounted, Creators
  <1>11. QED
    BY <1>5, <1>6, <1>7, <1>8, <1>9, <1>10 DEF NotesNext

LEMMA NotesTyped == IsFiniteSet(NoteRequests) /\ NotesInv /\ NotesCounted => NotesTypeOK
  <1> SUFFICES ASSUME IsFiniteSet(NoteRequests), NotesInv, NotesCounted PROVE NotesTypeOK
    OBVIOUS
  <1>1. /\ noteReq \in [NoteRequests -> NoteRequest] /\ notes \in Seq(NoteRow)
        /\ context \in NoteUsers /\ disturbed \in BOOLEAN /\ Len(notes) \in Nat
        /\ \A r \in NoteRequests : noteReq[r].id <= Len(notes)
        /\ Len(notes) <= Cardinality(Creators)
    BY DEF NotesInv, NotesCounted
  <1>2. /\ Cardinality(Creators) \in Nat /\ Cardinality(NoteRequests) \in Nat
        /\ Cardinality(Creators) <= Cardinality(NoteRequests)
    BY FS_Subset, FS_CardinalityType DEF Creators
  <1>3. Len(notes) <= Cardinality(NoteRequests)
    BY <1>1, <1>2
  <1>4. \A r \in NoteRequests : noteReq[r].id \in 0..Cardinality(NoteRequests)
    BY <1>1, <1>2 DEF NoteRequest
  <1>5. QED
    BY <1>1, <1>3, <1>4 DEF NotesTypeOK, NoteRequest, NoteSteps

-----------------------------------------------------------------------------
(* The connection pool. *)

\* A request holds as many connections as its place in the handler says.
HeldAt(pc) == CASE pc = "outer" -> 1 [] pc = "inner" -> 2 [] OTHER -> 0

Holding == {h \in Handlers : held[h] > 0}

HoldingTwo == {h \in Handlers : held[h] > 1}

\* The inductive invariant: nothing leaks, and the pool gives out no more
\* than it has.
PoolInv ==
    /\ PoolTypeOK
    /\ \A h \in Handlers : held[h] = HeldAt(handler[h].pc)
    /\ InUse <= Pool

\* Sets of requests are finite, so that their sizes are numbers.
LEMMA HandlersFinite ==
    ASSUME NEW S \in SUBSET Handlers
    PROVE  IsFiniteSet(S) /\ Cardinality(S) \in Nat
  <1>1. IsFiniteSet(S)
    BY FS_Subset, PoolAssumption
  <1>2. QED
    BY <1>1, FS_CardinalityType

LEMMA PoolInitInv == PoolInit => PoolInv
  <1> SUFFICES ASSUME PoolInit PROVE PoolInv
    OBVIOUS
  <1>1. PoolTypeOK /\ \A h \in Handlers : held[h] = 0 /\ handler[h].pc = "idle"
    BY DEF PoolInit, PoolTypeOK, PoolKinds
  <1>2. \A h \in Handlers : held[h] = HeldAt(handler[h].pc)
    BY <1>1 DEF HeldAt
  <1>3. Holding = {} /\ HoldingTwo = {}
    BY <1>1 DEF Holding, HoldingTwo
  <1>4. InUse = 0
    BY <1>3, FS_EmptySet DEF InUse, Holding, HoldingTwo
  <1>5. QED
    BY <1>1, <1>2, <1>4, PoolAssumption DEF PoolInv

\* What a request takes or returns, the pool has more or less.
LEMMA InUseChanges ==
    ASSUME PoolInv, NEW h \in Handlers, NEW n \in 0..2, held' = [held EXCEPT ![h] = n]
    PROVE  InUse \in Nat /\ InUse' = InUse + n - held[h]
  <1>1. held \in [Handlers -> 0..2]
    BY DEF PoolInv, PoolTypeOK
  <1>2. InUse = Cardinality(Holding) + Cardinality(HoldingTwo)
    BY DEF InUse, Holding, HoldingTwo
  <1>3. InUse' = Cardinality(Holding') + Cardinality(HoldingTwo')
    BY DEF InUse, Holding, HoldingTwo
  <1>4. /\ IsFiniteSet(Holding) /\ Cardinality(Holding) \in Nat
        /\ IsFiniteSet(HoldingTwo) /\ Cardinality(HoldingTwo) \in Nat
    BY HandlersFinite DEF Holding, HoldingTwo
  <1>5. /\ Cardinality(Holding \cup {h}) = IF h \in Holding THEN Cardinality(Holding) ELSE Cardinality(Holding) + 1
        /\ Cardinality(Holding \ {h}) = IF h \in Holding THEN Cardinality(Holding) - 1 ELSE Cardinality(Holding)
    BY <1>4, FS_AddElement, FS_RemoveElement
  <1>6. /\ Cardinality(HoldingTwo \cup {h}) =
             IF h \in HoldingTwo THEN Cardinality(HoldingTwo) ELSE Cardinality(HoldingTwo) + 1
        /\ Cardinality(HoldingTwo \ {h}) =
             IF h \in HoldingTwo THEN Cardinality(HoldingTwo) - 1 ELSE Cardinality(HoldingTwo)
    BY <1>4, FS_AddElement, FS_RemoveElement
  <1>7. /\ Holding' = IF n > 0 THEN Holding \cup {h} ELSE Holding \ {h}
        /\ HoldingTwo' = IF n > 1 THEN HoldingTwo \cup {h} ELSE HoldingTwo \ {h}
    BY <1>1 DEF Holding, HoldingTwo
  <1>8. /\ h \in Holding <=> held[h] > 0
        /\ h \in HoldingTwo <=> held[h] > 1
        /\ held[h] \in 0..2
    BY <1>1 DEF Holding, HoldingTwo
  <1>9. QED
    BY <1>2, <1>3, <1>4, <1>5, <1>6, <1>7, <1>8

\* One request moves to a place in its handler where it holds n connections.
Moves(h, request, n) ==
    /\ handler' = [handler EXCEPT ![h] = request]
    /\ held' = [held EXCEPT ![h] = n]

LEMMA PoolNextInv == PoolInv /\ [PoolNext]_poolVars => PoolInv'
  <1> SUFFICES ASSUME PoolInv, [PoolNext]_poolVars PROVE PoolInv'
    OBVIOUS
  <1>1. /\ PoolTypeOK /\ InUse <= Pool
        /\ \A h \in Handlers : held[h] = HeldAt(handler[h].pc)
    BY DEF PoolInv
  <1> DEFINE Places == {"idle", "begin", "outer", "inner"}
             InHandler == [pc : Places, kind : PoolKinds, left : 0..2]
  <1>2. handler \in [Handlers -> InHandler] /\ held \in [Handlers -> 0..2]
    BY <1>1 DEF PoolTypeOK
  \* One request moves, and no more is taken than is free.
  <1>3. ASSUME NEW h \in Handlers, NEW request \in InHandler, NEW n \in 0..2, n = HeldAt(request.pc),
               Moves(h, request, n),
               n <= held[h] \/ (n = held[h] + 1 /\ Free)
        PROVE  PoolInv'
    <2>1. held[h] \in 0..2
      BY <1>2
    <2>2. InUse \in Nat /\ InUse' = InUse + n - held[h]
      BY <1>3, InUseChanges DEF Moves
    <2>3. InUse' <= Pool
      BY <1>1, <1>3, <2>1, <2>2, PoolAssumption DEF Free
    <2>4. PoolTypeOK' /\ handler'[h] = request /\ held'[h] = n
      BY <1>2, <1>3 DEF PoolTypeOK, Moves
    <2>5. \A g \in Handlers : held'[g] = HeldAt(handler'[g].pc)
      BY <1>1, <1>2, <1>3, <2>4 DEF Moves
    <2>6. QED
      BY <2>3, <2>4, <2>5 DEF PoolInv
  <1>4. ASSUME NEW h \in Handlers, Enter(h) PROVE PoolInv'
    <2>1. PICK kind \in PoolKinds :
            handler' = [handler EXCEPT ![h] = [pc |-> "begin", kind |-> kind, left |-> Nested(kind)]]
      BY <1>4 DEF Enter
    <2> DEFINE request == [pc |-> "begin", kind |-> kind, left |-> Nested(kind)]
    <2>2. request \in InHandler /\ HeldAt(request.pc) = 0 /\ held[h] = 0
      BY <1>1, <1>4 DEF Nested, Enter, At, HeldAt
    <2>3. held' = [held EXCEPT ![h] = 0]
      BY <1>2, <1>4, <2>2 DEF Enter
    <2>4. Moves(h, request, 0)
      BY <2>1, <2>3 DEF Moves
    <2> HIDE DEF request, InHandler
    <2>5. QED
      BY <1>3, <2>2, <2>4
  <1>5. ASSUME NEW h \in Handlers, Begin(h) PROVE PoolInv'
    <2> DEFINE request == [handler[h] EXCEPT !.pc = "outer"]
    <2>1. request \in InHandler /\ HeldAt(request.pc) = 1
      BY <1>2 DEF HeldAt
    <2>2. Moves(h, request, 1)
      BY <1>2, <1>5 DEF Begin, Moves
    <2>3. held[h] = 0
      BY <1>1, <1>5 DEF HeldAt, Begin, At
    <2> HIDE DEF request, InHandler
    <2>4. QED
      BY <1>3, <1>5, <2>1, <2>2, <2>3 DEF Begin
  <1>6. ASSUME NEW h \in Handlers, AcquireInner(h) PROVE PoolInv'
    <2> DEFINE request == [handler[h] EXCEPT !.pc = "inner", !.left = @ - 1]
    <2>1. request \in InHandler /\ HeldAt(request.pc) = 2
      BY <1>2, <1>6 DEF AcquireInner, HeldAt
    <2>2. Moves(h, request, 2)
      BY <1>2, <1>6 DEF AcquireInner, Moves
    <2>3. held[h] = 1
      BY <1>1, <1>6 DEF HeldAt, AcquireInner, At
    <2> HIDE DEF request, InHandler
    <2>4. QED
      BY <1>3, <1>6, <2>1, <2>2, <2>3 DEF AcquireInner
  <1>7. ASSUME NEW h \in Handlers, ReleaseInner(h) PROVE PoolInv'
    <2>1. PICK left \in {0, handler[h].left} :
            handler' = [handler EXCEPT ![h].pc = "outer", ![h].left = left]
      BY <1>7 DEF ReleaseInner
    <2> DEFINE request == [handler[h] EXCEPT !.pc = "outer", !.left = left]
    <2>2. request \in InHandler /\ HeldAt(request.pc) = 1
      <3>1. left \in 0..2
        BY <1>2
      <3>2. QED
        BY <1>2, <3>1 DEF HeldAt
    <2>3. Moves(h, request, 1)
      BY <1>2, <1>7, <2>1 DEF ReleaseInner, Moves
    <2>4. held[h] = 2
      BY <1>1, <1>7 DEF HeldAt, ReleaseInner, At
    <2> HIDE DEF request, InHandler
    <2>5. QED
      BY <1>3, <1>7, <2>2, <2>3, <2>4 DEF ReleaseInner
  <1>8. ASSUME NEW h \in Handlers, Finish(h) PROVE PoolInv'
    <2> DEFINE request == [pc |-> "idle", kind |-> "plain", left |-> 0]
    <2>1. request \in InHandler /\ HeldAt(request.pc) = 0
      BY DEF PoolKinds, HeldAt
    <2>2. Moves(h, request, 0)
      BY <1>8 DEF Finish, HeldAfter, Moves
    <2>3. held[h] \in 0..2
      BY <1>2
    <2> HIDE DEF request, InHandler
    <2>4. QED
      BY <1>3, <2>1, <2>2, <2>3
  <1>9. CASE UNCHANGED poolVars
    BY <1>1, <1>9 DEF poolVars, PoolInv, PoolTypeOK, InUse
  <1>10. QED
    BY <1>4, <1>5, <1>6, <1>7, <1>8, <1>9 DEF PoolNext, Acquire, Release

\* No handler holds more than two connections at once and none holds one
\* while it is idle or waits for its first, and the pool never gives out more
\* than it has.
THEOREM NothingLeaks == PoolSpec => []PoolInv
  BY PoolInitInv, PoolNextInv, PTL DEF PoolSpec

\* Who holds a connection that is not about to be given back waits for a second
\* one: the invariant rules out the other holders, a leaked connection and a
\* handler that holds one before its first statement.
LEMMA HoldersWait ==
    ASSUME PoolInv, \A h \in Handlers : ~CanGoOn(h)
    PROVE  Holding = WaitsWithOne /\ HoldingTwo = {}
  <1>1. /\ handler \in [Handlers -> [pc : {"idle", "begin", "outer", "inner"}, kind : PoolKinds, left : 0..2]]
        /\ held \in [Handlers -> 0..2]
        /\ \A h \in Handlers : held[h] = HeldAt(handler[h].pc)
    BY DEF PoolInv, PoolTypeOK
  <1>2. \A h \in Handlers : At(h, "outer") => held[h] = 1
    BY <1>1 DEF HeldAt, At
  <1>3. \A h \in Handlers : At(h, "idle") \/ At(h, "begin") => held[h] = 0
    BY <1>1 DEF HeldAt, At
  <1>4. \A h \in Handlers : ~At(h, "inner") /\ (At(h, "outer") => handler[h].left # 0)
    BY DEF CanGoOn
  <1>5. \A h \in Handlers :
          /\ At(h, "idle") \/ At(h, "begin") \/ At(h, "outer") \/ At(h, "inner")
          /\ handler[h].left \in 0..2
    BY <1>1 DEF At
  <1>6. \A h \in Handlers : At(h, "outer") => handler[h].left > 0
    BY <1>4, <1>5
  <1>7. Holding = WaitsWithOne
    BY <1>2, <1>3, <1>4, <1>5, <1>6 DEF Holding, WaitsWithOne
  <1>8. HoldingTwo = {}
    BY <1>2, <1>3, <1>4, <1>5 DEF HoldingTwo
  <1>9. QED
    BY <1>7, <1>8

LEMMA PoolInvStuck == PoolInv => StuckOnlyWhenAllNested
  <1>1. SUFFICES ASSUME PoolInv, Stuck PROVE Cardinality(WaitsWithOne) = Pool
    BY DEF StuckOnlyWhenAllNested
  <1>2. \A h \in Handlers : ~CanGoOn(h)
    BY <1>1 DEF Stuck
  <1>3. Holding = WaitsWithOne /\ HoldingTwo = {}
    BY <1>1, <1>2, HoldersWait
  <1>4. ~Free
    BY <1>1, <1>2 DEF Stuck, CanGoOn
  <1>5. InUse = Cardinality(WaitsWithOne)
    <2>1. InUse = Cardinality(Holding) + Cardinality(HoldingTwo)
      BY DEF InUse, Holding, HoldingTwo
    <2>2. Cardinality(Holding) \in Nat /\ Cardinality(HoldingTwo) = 0
      BY <1>3, HandlersFinite, FS_EmptySet DEF Holding
    <2>3. QED
      BY <1>3, <2>1, <2>2
  <1>6. InUse = Pool
    <2>1. InUse \in Nat
      BY <1>5, HandlersFinite DEF WaitsWithOne
    <2>2. InUse <= Pool
      BY <1>1 DEF PoolInv
    <2>3. QED
      BY <1>4, <2>1, <2>2, PoolAssumption DEF Free
  <1>7. QED
    BY <1>5, <1>6

\* If requests are under way and none of them can go on, each connection of the
\* pool is held by another handler that waits for a second one: whoever needs one
\* connection at a time only waits, and no connection was lost on the way.
THEOREM StuckByNestingOnly == PoolSpec => []StuckOnlyWhenAllNested
  BY PoolInvStuck, NothingLeaks, PTL

-----------------------------------------------------------------------------
(* The components together. *)

\* The components' specifications.  Of the pool's, without its fairness, which
\* is promised only to the behaviours of the pool.
Parts == GateSpec /\ NotesSpec /\ BookmarksSpec /\ PreferencesSpec /\ PoolInit /\ [][PoolNext]_poolVars

\* Each component's own specification holds of the behaviours that the run
\* Personal checks, so that whatever is proved of one holds in all of them.
THEOREM PersonalSteps == Spec => Parts
  <1>1. Init => GateInit /\ NotesInit /\ BookmarksInit /\ PreferencesInit /\ PoolInit
    BY DEF Init
  <1>2. [Next]_vars => /\ [GateNext]_gateVars /\ [NotesNext]_noteVars /\ [BookmarksNext]_markVars
                       /\ [PreferencesNext]_prefVars /\ [PoolNext]_poolVars
    BY DEF Next, vars, AtGate, OnNotes, OnBookmarks, OnPreferences, InPool
  <1>3. QED
    BY <1>1, <1>2, PTL DEF Spec, Parts, GateSpec, NotesSpec, BookmarksSpec, PreferencesSpec

\* The variables of all components keep their types: among others, there are no
\* more notes than requests to create one, and no request has the id of a note
\* that is not in the table.
THEOREM PersonalTypes == ASSUME IsFiniteSet(NoteRequests) PROVE Spec => []TypeOK
  <1>1. Init => NotesCounted /\ scenario \in Scenarios
    BY NotesInitCounted DEF Init
  <1>2. NotesInv /\ NotesCounted /\ [NotesNext]_noteVars => NotesCounted'
    BY NotesNextCounted
  <1>3. scenario \in Scenarios /\ [Next]_vars => (scenario \in Scenarios)'
    BY DEF Next, vars, AtGate, OnNotes, OnBookmarks, OnPreferences, InPool
  <1>4. GateInv => GateTypeOK
    BY DEF GateInv
  <1>5. NotesInv /\ NotesCounted => NotesTypeOK
    BY NotesTyped
  <1>6. MarksInv => BookmarksTypeOK
    BY DEF MarksInv
  <1>7. PrefInv => PreferencesTypeOK
    BY DEF PrefInv
  <1>8. PoolInv => PoolTypeOK
    BY DEF PoolInv
  <1>9. scenario \in Scenarios /\ GateTypeOK /\ NotesTypeOK /\ BookmarksTypeOK /\ PreferencesTypeOK /\ PoolTypeOK
          => TypeOK
    BY DEF TypeOK
  <1>10. Spec => []GateInv /\ []NotesInv /\ []MarksInv /\ []PrefInv
    BY PersonalSteps, GateInvariance, NotesInvariance, MarksInvariance, PrefInvariance, PTL DEF Parts
  <1>11. Spec => []PoolInv
    BY PersonalSteps, PoolInitInv, PoolNextInv, PTL DEF Parts
  <1>12. Spec => []NotesCounted
    BY <1>1, <1>2, <1>10, PersonalSteps, PTL DEF Parts, NotesSpec, Spec
  <1>13. Spec => [](scenario \in Scenarios)
    BY <1>1, <1>3, PTL DEF Spec
  <1>14. QED
    BY <1>4, <1>5, <1>6, <1>7, <1>8, <1>9, <1>10, <1>11, <1>12, <1>13, PTL

\* The safety properties of the run Personal, of its specification.
THEOREM PersonalKeeps ==
    Spec => /\ [](NoBarredEntry /\ OneNoteIfAlone /\ AddedItemsVisible /\ EachDeleteCounts)
            /\ [](NothingLostInPreferences /\ StuckOnlyWhenAllNested)
            /\ OwnNotesOnly
  <1>1. Spec => [](NoBarredEntry /\ OneNoteIfAlone /\ AddedItemsVisible /\ EachDeleteCounts)
    BY PersonalSteps, NoBarredRequestEnters, AloneGetsOneNote, ItemsAreShown, DeletionsCount, PTL DEF Parts
  <1>2. Spec => []NothingLostInPreferences /\ OwnNotesOnly
    BY PersonalSteps, NoPutIsLost, NotesOfOthersStay, PTL DEF Parts
  <1>3. Spec => []StuckOnlyWhenAllNested
    BY PersonalSteps, PoolInitInv, PoolNextInv, PoolInvStuck, PTL DEF Parts
  <1>4. QED
    BY <1>1, <1>2, <1>3, PTL
=============================================================================
