--------------------------- MODULE RefreshTokens ---------------------------
(***************************************************************************)
(* The refresh tokens of internal/auth: login and admin login issue one,   *)
(* refresh exchanges one for the next, presenting a used one revokes all   *)
(* the tokens of its user.                                                 *)
(*                                                                         *)
(* The handlers run no transaction, so every SQL statement is a step and   *)
(* the requests of several clients (and of several Prefork processes that  *)
(* share the SQLite file) interleave between them.  What a request keeps   *)
(* in its local variables between two statements is pc, tok and uid.       *)
(***************************************************************************)
CONSTANTS
    Users,          \* accounts
    Admins,         \* those an admin login finds active and admin
    TokenIds,       \* refresh tokens that can be generated; bounds the table
    Requests,       \* HTTP requests being served at the same time
    NoToken,        \* no token: the parent of one issued by a login
    NoUser,         \* no user: a request that has not read one
    StatementsMayFail   \* TRUE: a statement may return an error (SQLITE_BUSY, disk full)

ASSUME ConstantsAssumption ==
    /\ Admins \subseteq Users
    /\ NoToken \notin TokenIds
    /\ NoUser \notin Users
    /\ StatementsMayFail \in BOOLEAN

VARIABLES
    rows,           \* the RefreshToken table: token |-> its row
    deleted,        \* users that are soft-deleted
    held,           \* tokens returned to a client by a 200 answer
    pc, tok, uid,   \* a request's next statement, its token, the user it read
    detected        \* history: sessions for which reuse was answered

vars == <<rows, deleted, held, pc, tok, uid, detected>>

\* session and parent are not columns of the table: they record the login a
\* token descends from and the token it was exchanged for.
Row == [user: Users, used: BOOLEAN, expired: BOOLEAN,
        session: TokenIds, parent: TokenIds \cup {NoToken}]

Steps == {"idle", "revoke", "expire", "mark", "user", "mint", "insert", "activity"}

Issued == DOMAIN rows
TokensOf(u) == {t \in Issued : rows[t].user = u}
TokensIn(s) == {t \in Issued : rows[t].session = s}
Spent(t) == rows[t].used \/ rows[t].expired

TypeOK ==
    /\ Issued \subseteq TokenIds
    /\ rows \in [Issued -> Row]
    /\ deleted \subseteq Users
    /\ held \subseteq Issued
    /\ pc \in [Requests -> Steps]
    /\ tok \in [Requests -> TokenIds \cup {NoToken}]
    /\ uid \in [Requests -> Users \cup {NoUser}]
    /\ detected \subseteq TokenIds

Init ==
    /\ rows = [t \in {} |-> NoToken]
    /\ deleted = {}
    /\ held = {}
    /\ pc = [r \in Requests |-> "idle"]
    /\ tok = [r \in Requests |-> NoToken]
    /\ uid = [r \in Requests |-> NoUser]
    /\ detected = {}

-----------------------------------------------------------------------------
(* Statements on the table. *)

\* UPDATE RefreshToken SET is_used = true, on the rows of the tokens in T.
SetUsed(T) ==
    rows' = [t \in Issued |-> IF t \in T THEN [rows[t] EXCEPT !.used = TRUE]
                                         ELSE rows[t]]

\* INSERT INTO RefreshToken: is_used false, seven days to live.
InsertRow(t, u, s, p) ==
    rows' = [x \in Issued \cup {t} |->
               IF x = t THEN [user |-> u, used |-> FALSE, expired |-> FALSE,
                              session |-> s, parent |-> p]
               ELSE rows[x]]

\* Variants with a bug: revoking by DELETE, and with the filter inverted.
RevokeByDelete(u) ==
    rows' = [t \in {x \in Issued : rows[x].used \/ rows[x].user # u} |-> rows[t]]

RevokeOnlyUsed(u) == SetUsed({t \in TokensOf(u) : rows[t].used})

RevokeAllRefreshTokens(u) == SetUsed({t \in TokensOf(u) : ~rows[t].used})

\* The request answers and its slot is free again.
Answer(r) ==
    /\ pc' = [pc EXCEPT ![r] = "idle"]
    /\ tok' = [tok EXCEPT ![r] = NoToken]
    /\ uid' = [uid EXCEPT ![r] = NoUser]

-----------------------------------------------------------------------------
(* Login and admin login. *)

\* The user row is read (soft-deleted rows are not found) and the password
\* matches; a login that fails here changes nothing.
LoginAs(r, u) ==
    /\ pc[r] = "idle"
    /\ u \notin deleted
    /\ pc' = [pc EXCEPT ![r] = "insert"]
    /\ uid' = [uid EXCEPT ![r] = u]
    /\ UNCHANGED <<rows, deleted, held, tok, detected>>

Login(r, u) == LoginAs(r, u)

AdminLogin(r, u) == u \in Admins /\ LoginAs(r, u)

\* The token of a login starts a session of its own.
CreateLoginToken(r) ==
    /\ pc[r] = "insert"
    /\ \E t \in TokenIds \ Issued :
         /\ InsertRow(t, uid[r], t, NoToken)
         /\ tok' = [tok EXCEPT ![r] = t]
    /\ pc' = [pc EXCEPT ![r] = "activity"]
    /\ UNCHANGED <<deleted, held, uid, detected>>

\* The activity row is a second statement: when it fails the client gets a
\* 500 and never learns the token, which stays in the table.
LogLogin(r) ==
    /\ pc[r] = "activity"
    /\ \/ held' = held \cup {tok[r]}
       \/ StatementsMayFail /\ UNCHANGED held
    /\ Answer(r)
    /\ UNCHANGED <<rows, deleted, detected>>

CreateFails(r) ==
    /\ StatementsMayFail
    /\ pc[r] \in {"insert", "mint"}
    /\ Answer(r)
    /\ UNCHANGED <<rows, deleted, held, detected>>

-----------------------------------------------------------------------------
(* Refresh. *)

\* Variants with a bug: the checks without is_used, and without ExpiresAt.
FindIgnoringUse(r, t) ==
    /\ pc[r] = "idle"
    /\ t \in held
    /\ tok' = [tok EXCEPT ![r] = t]
    /\ pc' = [pc EXCEPT ![r] = IF rows[t].expired THEN "expire" ELSE "mark"]
    /\ UNCHANGED <<rows, deleted, held, uid, detected>>

FindIgnoringExpiry(r, t) ==
    /\ pc[r] = "idle"
    /\ t \in held
    /\ tok' = [tok EXCEPT ![r] = t]
    /\ pc' = [pc EXCEPT ![r] = IF rows[t].used THEN "revoke" ELSE "mark"]
    /\ UNCHANGED <<rows, deleted, held, uid, detected>>

\* SELECT by hash: everything the handler decides on is what this read saw.
FindRefreshToken(r, t) ==
    /\ pc[r] = "idle"
    /\ t \in held
    /\ tok' = [tok EXCEPT ![r] = t]
    /\ pc' = [pc EXCEPT ![r] = IF rows[t].used THEN "revoke"
                               ELSE IF rows[t].expired THEN "expire"
                               ELSE "mark"]
    /\ UNCHANGED <<rows, deleted, held, uid, detected>>

\* Reuse.  The error of the update is ignored: the answer is "reuse
\* detected, all tokens revoked" whether or not it ran.
AnswerReuse(r) ==
    LET u == rows[tok[r]].user IN
    /\ pc[r] = "revoke"
    /\ \/ RevokeAllRefreshTokens(u)
       \/ StatementsMayFail /\ UNCHANGED rows
    /\ detected' = detected \cup {rows[t].session : t \in TokensOf(u)}
    /\ Answer(r)
    /\ UNCHANGED <<deleted, held>>

AnswerExpired(r) ==
    /\ pc[r] = "expire"
    /\ \/ SetUsed({tok[r]})
       \/ StatementsMayFail /\ UNCHANGED rows
    /\ Answer(r)
    /\ UNCHANGED <<deleted, held, detected>>

\* Variant with a bug: the presented token is not consumed.
SkipMarking(r) ==
    /\ pc[r] = "mark"
    /\ pc' = [pc EXCEPT ![r] = "user"]
    /\ UNCHANGED <<rows, deleted, held, tok, uid, detected>>

\* UPDATE by primary key, without "AND is_used = false"; its error is ignored.
ExpireRefreshToken(r) ==
    /\ pc[r] = "mark"
    /\ \/ SetUsed({tok[r]})
       \/ StatementsMayFail /\ UNCHANGED rows
    /\ pc' = [pc EXCEPT ![r] = "user"]
    /\ UNCHANGED <<deleted, held, tok, uid, detected>>

\* Variants with a bug: the read without its WHERE, and Unscoped.
ReadAnyUser(r) ==
    /\ pc[r] = "user"
    /\ \E u \in Users \ deleted : uid' = [uid EXCEPT ![r] = u]
    /\ pc' = [pc EXCEPT ![r] = "mint"]
    /\ UNCHANGED <<rows, deleted, held, tok, detected>>

ReadUserUnscoped(r) ==
    /\ pc[r] = "user"
    /\ pc' = [pc EXCEPT ![r] = "mint"]
    /\ uid' = [uid EXCEPT ![r] = rows[tok[r]].user]
    /\ UNCHANGED <<rows, deleted, held, tok, detected>>

GetUserFromRefreshToken(r) ==
    LET u == rows[tok[r]].user IN
    /\ pc[r] = "user"
    /\ u \notin deleted
    /\ pc' = [pc EXCEPT ![r] = "mint"]
    /\ uid' = [uid EXCEPT ![r] = u]
    /\ UNCHANGED <<rows, deleted, held, tok, detected>>

\* "user not found", or the read failed: the token is already consumed.
AnswerNoUser(r) ==
    /\ pc[r] = "user"
    /\ rows[tok[r]].user \in deleted \/ StatementsMayFail
    /\ Answer(r)
    /\ UNCHANGED <<rows, deleted, held, detected>>

\* The next token of the session goes out with the 200 answer, which the
\* client may never receive.
CreateRefreshToken(r) ==
    /\ pc[r] = "mint"
    /\ \E t \in TokenIds \ Issued :
         /\ InsertRow(t, uid[r], rows[tok[r]].session, tok[r])
         /\ held' \in {held, held \cup {t}}
    /\ Answer(r)
    /\ UNCHANGED <<deleted, detected>>

-----------------------------------------------------------------------------
(* Around the handlers. *)

\* ExpiresAt passes.
Lapse(t) ==
    /\ t \in Issued
    /\ ~rows[t].expired
    /\ rows' = [rows EXCEPT ![t].expired = TRUE]
    /\ UNCHANGED <<deleted, held, pc, tok, uid, detected>>

\* The user service soft-deletes the account; the tokens stay.
DeleteUser(u) ==
    /\ u \notin deleted
    /\ deleted' = deleted \cup {u}
    /\ UNCHANGED <<rows, held, pc, tok, uid, detected>>

\* A whole-row Save of an account deleted meanwhile inserts it again.
RestoreUser(u) ==
    /\ u \in deleted
    /\ deleted' = deleted \ {u}
    /\ UNCHANGED <<rows, held, pc, tok, uid, detected>>

RequestStep(r) ==
    \/ \E u \in Users : Login(r, u) \/ AdminLogin(r, u)
    \/ \E t \in held : FindRefreshToken(r, t)
    \/ CreateLoginToken(r)
    \/ LogLogin(r)
    \/ CreateFails(r)
    \/ AnswerReuse(r)
    \/ AnswerExpired(r)
    \/ ExpireRefreshToken(r)
    \/ GetUserFromRefreshToken(r)
    \/ AnswerNoUser(r)
    \/ CreateRefreshToken(r)

Next ==
    \/ \E r \in Requests : RequestStep(r)
    \/ \E t \in TokenIds : Lapse(t)
    \/ \E u \in Users : DeleteUser(u) \/ RestoreUser(u)

Spec == Init /\ [][Next]_vars

-----------------------------------------------------------------------------
(* What the sessions promise. *)

\* Every token of a session belongs to the user who logged in: an exchange
\* never moves a session to another account (Refresh mints for the user it
\* read from the presented row, across two reads of two tables).
SessionOwner ==
    \A t \in Issued :
        /\ rows[t].session \in Issued
        /\ rows[t].user = rows[rows[t].session].user
        /\ rows[t].parent # NoToken =>
             rows[t].parent \in Issued /\ rows[rows[t].parent].session = rows[t].session

\* A refresh of session s has passed the is_used and expiry checks of lines
\* 140-148 and may still mint a token.
Exchanging(s) ==
    \E r \in Requests : /\ pc[r] \in {"mark", "user", "mint"}
                        /\ rows[tok[r]].session = s

\* No token of the session can be exchanged and no exchange is under way.
Closed(s) ==
    /\ s \in Issued
    /\ \A t \in TokensIn(s) : Spent(t)
    /\ ~Exchanging(s)

\* Once all the tokens of a session are used or expired and no refresh is in
\* flight, the session never comes back to life: no order of refreshes,
\* reuses, failed writes or logins of the user gives it a usable token.
ClosedStaysClosed == [][\A s \in TokenIds : Closed(s) => Closed(s)']_vars

\* u is deleted and every request that read the account before has answered.
Barred(u) ==
    /\ u \in deleted
    /\ \A r \in Requests : pc[r] \in {"mint", "insert"} => uid[r] # u

\* From then on, for as long as the account stays deleted, no token is
\* issued for it, although its old tokens are never revoked.
DeletionIsFinal ==
    [][\A u \in Users : Barred(u) /\ u \in deleted' =>
                          Barred(u)' /\ TokensOf(u)' = TokensOf(u)]_vars

\* README "Rotation": a token is exchanged for one new token, once (the
\* second presentation is answered 401).
ExchangedOnce ==
    \A a, b \in Issued :
        rows[a].parent = rows[b].parent /\ rows[a].parent # NoToken => a = b

\* README "Reuse detection": presenting an already-used token revokes all of
\* the user's tokens, so nothing usable is left of the sessions the user had
\* when a client was told so.
DetectedSessionsAreDead ==
    \A t \in Issued : rows[t].session \in detected => Spent(t)

Sessions == {rows[t].session : t \in Issued}

\* The tokens of a session that the README would call usable: a refresh that
\* has accepted a token (step "mark") has consumed it.
Usable(s) == {t \in TokensIn(s) : ~Spent(t) /\ \A r \in Requests : <<pc[r], tok[r]>> # <<"mark", t>>}

UsableTokens == [s \in Sessions |-> Usable(s)]

SessionOwners == [s \in Sessions |-> rows[s].user]

SessionsExchanging ==
    {rows[tok[r]].session : r \in {q \in Requests : pc[q] \in {"mark", "user", "mint"}}}

\* The README's promise as an abstract machine, which the handlers implement
\* as long as requests are served one at a time and writes do not fail.
Rotation == INSTANCE RotationPolicy WITH
    Tokens <- TokenIds,
    Owners <- Users,
    live <- UsableTokens,
    owner <- SessionOwners,
    exchanging <- SessionsExchanging,
    issued <- Issued

\* Every behaviour of the handlers is one the README's rotation allows.
ImplementsRotation == Rotation!PolicySpec
=============================================================================
