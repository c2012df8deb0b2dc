CONSTANTS
    Requests = {r1, r2}
    Tokens = {t1}
    NoteRequests = {n1, n2, n3}
    NoteUsers = {u1, u2}
    MarkRequests = {m1, m2, m3}
    Numbers = {1, 2}
    Puts = {p1, p2, p3}
    PrefTables = {"Font", "Theme", "LastRead"}
    Default = none
    Handlers = {h1, h2, h3}
    Pool = 2
SPECIFICATION Spec
CHECK_DEADLOCK FALSE
INVARIANTS TypeOK NoBarredEntry OneNoteIfAlone AddedItemsVisible EachDeleteCounts NothingLostInPreferences StuckOnlyWhenAllNested
PROPERTIES OwnNotesOnly PoolAnswers
