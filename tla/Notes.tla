------------------------------- MODULE Notes -------------------------------
(***************************************************************************)
(* internal/note: the notes of the users on one hadith.  The handlers      *)
(* validate, look up and write in separate statements, and the validator   *)
(* filters by the user in the context of database.DB, which is the one of  *)
(* the request that came last (Protected calls SetContext).                *)
(***************************************************************************)
EXTENDS Naturals, Sequences, FiniteSets

CONSTANTS
    NoteRequests,   \* requests
    NoteUsers       \* users

ASSUME NotesAssumption == NoteUsers # {}

VARIABLES
    noteReq,    \* the requests
    notes,      \* the rows of the table, by id
    context,    \* the user of the process-wide context
    disturbed   \* two requests were under way at once, or the query that
                \* looks for a note before another is created failed

noteVars == <<noteReq, notes, context, disturbed>>

NoteRow == [user : NoteUsers, text : NoteRequests, deleted : BOOLEAN]

NotesTypeOK ==
    /\ noteReq \in [NoteRequests ->
          [pc : {"idle", "validate", "insert", "find", "update", "delete",
                 "answered", "refused"},
           op : {"create", "update", "delete"}, user : NoteUsers,
           id : 0..Cardinality(NoteRequests)]]
    /\ notes \in Seq(NoteRow) /\ Len(notes) <= Cardinality(NoteRequests)
    /\ context \in NoteUsers
    /\ disturbed \in BOOLEAN

SomeUser == CHOOSE u \in NoteUsers : TRUE

NotesInit ==
    /\ noteReq = [r \in NoteRequests |-> [pc |-> "idle", op |-> "create", user |-> SomeUser, id |-> 0]]
    /\ context = SomeUser
    /\ notes = <<>>
    /\ disturbed = FALSE

-----------------------------------------------------------------------------
Ids == 1..Len(notes)

\* The live notes of a user.
LiveNotes(u) == {id \in Ids : notes[id].user = u /\ ~notes[id].deleted}

UnderWay == {r \in NoteRequests : noteReq[r].pc \notin {"idle", "answered", "refused"}}

NoteGoto(r, pc) ==
    /\ noteReq' = [noteReq EXCEPT ![r].pc = pc]
    /\ UNCHANGED <<context, disturbed>>

\* The gate puts the user into the context of the process.
BeginNote(r) ==
    /\ noteReq[r].pc = "idle"
    /\ \E u \in NoteUsers, op \in {"create", "update", "delete"} :
         /\ noteReq' = [noteReq EXCEPT ![r] =
              [pc |-> CASE op = "create" -> "validate" [] op = "update" -> "find" [] OTHER -> "delete",
               op |-> op, user |-> u, id |-> 0]]
         /\ context' = u
    /\ disturbed' = (disturbed \/ UnderWay # {})
    /\ UNCHANGED notes

\* isExistsDBDynamicTableForNote: a live note of the user in the context, any
\* or one with an id.  (Of a create, the id stands for the hadith.)
ExistsForContext(ids) == LiveNotes(context) \cap ids # {}

\* Variant with a bug: the new note is not compared with the others.
CreateAllowedAlways == TRUE

CreateAllowed == ~ExistsForContext(Ids)

\* Create: not valid while there is a note; the rule is the negation of the
\* other, so an error of its query counts as no note ...
ValidateCreate(r) ==
    /\ noteReq[r].pc = "validate" /\ noteReq[r].op = "create"
    /\ \/ CreateAllowed /\ NoteGoto(r, "insert")
       \/ NoteGoto(r, "refused")
       \/ /\ noteReq' = [noteReq EXCEPT ![r].pc = "insert"]
          /\ disturbed' = TRUE
          /\ UNCHANGED context
    /\ UNCHANGED notes

\* ... and then inserted with its activity, or the transaction fails.
InsertNote(r) ==
    /\ noteReq[r].pc = "insert"
    /\ \/ /\ notes' = Append(notes, [user |-> noteReq[r].user, text |-> r, deleted |-> FALSE])
          /\ NoteGoto(r, "answered")
       \/ NoteGoto(r, "refused") /\ UNCHANGED notes

\* Variant with a bug: the note of the hadith is looked up for anyone.
FoundOfAnyone(u) == UNION {LiveNotes(v) : v \in NoteUsers}

FoundNotes(u) == LiveNotes(u)

\* Update: the id of the note, none of which fails the validation for the
\* required field ...
FindNoteID(r) ==
    /\ noteReq[r].pc = "find"
    /\ \/ \E id \in FoundNotes(noteReq[r].user) :
            /\ noteReq' = [noteReq EXCEPT ![r].pc = "validate", ![r].id = id]
            /\ UNCHANGED <<context, disturbed>>
       \/ NoteGoto(r, "refused")
    /\ UNCHANGED notes

\* ... the validation that it exists ...
ValidateUpdate(r) ==
    /\ noteReq[r].pc = "validate" /\ noteReq[r].op = "update"
    /\ \/ ExistsForContext({noteReq[r].id}) /\ NoteGoto(r, "update")
       \/ NoteGoto(r, "refused")
    /\ UNCHANGED notes

\* ... and the row with that id is written, whether or not it was deleted.
UpdateNote(r) ==
    /\ noteReq[r].pc = "update"
    /\ \/ notes' = [notes EXCEPT ![noteReq[r].id].text = r] /\ NoteGoto(r, "answered")
       \/ NoteGoto(r, "refused") /\ UNCHANGED notes

\* DeleteOne: every live note of the user on the hadith, at once.
DeleteNotes(r) ==
    /\ noteReq[r].pc = "delete"
    /\ \/ /\ notes' = [id \in Ids |-> IF id \in LiveNotes(noteReq[r].user)
                                      THEN [notes[id] EXCEPT !.deleted = TRUE] ELSE notes[id]]
          /\ NoteGoto(r, "answered")
       \/ NoteGoto(r, "refused") /\ UNCHANGED notes

NotesNext ==
    \E r \in NoteRequests :
      \/ BeginNote(r) \/ ValidateCreate(r) \/ InsertNote(r) \/ FindNoteID(r)
      \/ ValidateUpdate(r) \/ UpdateNote(r) \/ DeleteNotes(r)

NotesSpec == NotesInit /\ [][NotesNext]_noteVars

-----------------------------------------------------------------------------
\* Whoever is in the context: a note changes only by a request of its user.
OwnNotesOnly ==
    [][\A id \in Ids :
         notes'[id] # notes[id] =>
           \E r \in NoteRequests :
             noteReq'[r].pc # noteReq[r].pc /\ noteReq[r].user = notes[id].user]_noteVars

\* Requests one after the other leave a user one note at most, unless the query
\* of a validation failed.  Requests that overlap do not, be they another
\* user's: they change the context that the validation of a new note looks at.
OneNoteIfAlone == ~disturbed => \A u \in NoteUsers : Cardinality(LiveNotes(u)) <= 1
=============================================================================
