------------------------ MODULE RefreshTokensProofs ------------------------
(***************************************************************************)
(* Proofs about RefreshTokens for any number of users, tokens and          *)
(* requests: first with concurrent requests and failing writes, then what  *)
(* holds only of requests that are served one at a time.                   *)
(***************************************************************************)
EXTENDS RefreshTokens, Naturals, FiniteSetTheorems, TLAPS

\* What a request remembers between two statements is consistent with the
\* table: its token is a row of it, and the user it read owns that token.
RequestsOK ==
    \A r \in Requests :
        /\ pc[r] \in {"revoke", "expire", "mark", "user", "mint", "activity"} => tok[r] \in Issued
        /\ pc[r] = "mint" => uid[r] = rows[tok[r]].user
        /\ pc[r] = "insert" => uid[r] \in Users

\* The inductive invariant.
IInv == TypeOK /\ SessionOwner /\ RequestsOK

\* SetUsed keeps every row and changes no column but is_used, upwards.
LEMMA SetUsedRows ==
    ASSUME TypeOK, NEW T, SetUsed(T)
    PROVE  /\ Issued' = Issued
           /\ rows' \in [Issued -> Row]
           /\ \A t \in Issued : /\ rows'[t].user = rows[t].user
                                /\ rows'[t].session = rows[t].session
                                /\ rows'[t].parent = rows[t].parent
                                /\ rows'[t].expired = rows[t].expired
                                /\ rows[t].used => rows'[t].used
  <1>1. rows \in [Issued -> Row]
    BY DEF TypeOK
  <1>2. ASSUME NEW t \in Issued, NEW new, new = [rows[t] EXCEPT !.used = TRUE]
        PROVE  /\ new \in Row /\ new.used /\ new.user = rows[t].user
               /\ new.session = rows[t].session /\ new.parent = rows[t].parent
               /\ new.expired = rows[t].expired
    <2>1. rows[t] \in Row
      BY <1>1
    <2>2. QED
      BY <1>2, <2>1 DEF Row
  <1>3. DOMAIN rows' = Issued
        /\ \A t \in Issued : rows'[t] = IF t \in T THEN [rows[t] EXCEPT !.used = TRUE] ELSE rows[t]
    BY DEF SetUsed
  <1>4. Issued' = Issued
    BY <1>3 DEF Issued
  <1>5. \A t \in Issued :
          /\ rows'[t] \in Row
          /\ rows'[t].user = rows[t].user /\ rows'[t].session = rows[t].session
          /\ rows'[t].parent = rows[t].parent /\ rows'[t].expired = rows[t].expired
          /\ rows[t].used => rows'[t].used
    <2> SUFFICES ASSUME NEW t \in Issued
                 PROVE  /\ rows'[t] \in Row
                        /\ rows'[t].user = rows[t].user /\ rows'[t].session = rows[t].session
                        /\ rows'[t].parent = rows[t].parent /\ rows'[t].expired = rows[t].expired
                        /\ rows[t].used => rows'[t].used
      OBVIOUS
    <2>1. CASE t \in T
      BY <1>2, <1>3, <2>1
    <2>2. CASE t \notin T
      BY <1>1, <1>3, <2>2
    <2>3. QED
      BY <2>1, <2>2
  <1>6. rows' \in [Issued -> Row]
    BY <1>5 DEF SetUsed
  <1>7. QED
    BY <1>4, <1>5, <1>6

\* InsertRow adds one unspent row and keeps the others.
LEMMA InsertRowRows ==
    ASSUME TypeOK, NEW t \in TokenIds \ Issued, NEW u \in Users, NEW s \in TokenIds,
           NEW p \in TokenIds \cup {NoToken}, InsertRow(t, u, s, p)
    PROVE  /\ Issued' = Issued \cup {t}
           /\ rows' \in [Issued' -> Row]
           /\ \A x \in Issued : rows'[x] = rows[x]
           /\ rows'[t].user = u
           /\ rows'[t].session = s
           /\ rows'[t].parent = p
           /\ ~rows'[t].used /\ ~rows'[t].expired
  <1>1. Issued' = Issued \cup {t}
    BY DEF InsertRow, Issued
  <1>2. rows'[t] = [user |-> u, used |-> FALSE, expired |-> FALSE, session |-> s, parent |-> p]
    BY DEF InsertRow
  <1>3. \A x \in Issued : rows'[x] = rows[x]
    BY DEF InsertRow
  <1>4. rows' \in [Issued' -> Row]
    BY <1>1, <1>2, <1>3 DEF InsertRow, TypeOK, Row, Issued
  <1>5. QED
    BY <1>1, <1>2, <1>3, <1>4

LEMMA InitIInv == Init => IInv
  BY DEF Init, IInv, TypeOK, SessionOwner, RequestsOK, Issued, Row, Steps

\* Every statement keeps the inductive invariant.
LEMMA NextIInv == IInv /\ [Next]_vars => IInv'
  <1> SUFFICES ASSUME IInv, [Next]_vars PROVE IInv'
    OBVIOUS
  <1> USE DEF IInv
  <1>1. ASSUME NEW r \in Requests, NEW u \in Users, LoginAs(r, u) PROVE IInv'
    BY <1>1 DEF LoginAs, TypeOK, SessionOwner, RequestsOK, Issued, Steps
  <1>2. ASSUME NEW r \in Requests, CreateLoginToken(r) PROVE IInv'
    <2>1. PICK t \in TokenIds \ Issued : InsertRow(t, uid[r], t, NoToken) /\ tok' = [tok EXCEPT ![r] = t]
      BY <1>2 DEF CreateLoginToken
    <2>2. uid[r] \in Users
      BY <1>2 DEF CreateLoginToken, RequestsOK
    <2>3. /\ Issued' = Issued \cup {t}
          /\ rows' \in [Issued' -> Row]
          /\ \A x \in Issued : rows'[x] = rows[x]
          /\ rows'[t].user = uid[r]
          /\ rows'[t].session = t
          /\ rows'[t].parent = NoToken
      BY <2>1, <2>2, InsertRowRows
    <2>4. TypeOK'
      BY <1>2, <2>1, <2>3 DEF CreateLoginToken, TypeOK, Steps
    <2>5. SessionOwner'
      BY <2>3 DEF SessionOwner
    <2>6. RequestsOK'
      BY <1>2, <2>1, <2>3 DEF CreateLoginToken, RequestsOK, TypeOK
    <2>7. QED
      BY <2>4, <2>5, <2>6
  <1>3. ASSUME NEW r \in Requests, LogLogin(r) PROVE IInv'
    BY <1>3 DEF LogLogin, Answer, TypeOK, SessionOwner, RequestsOK, Issued, Steps
  <1>4. ASSUME NEW r \in Requests, CreateFails(r) PROVE IInv'
    BY <1>4 DEF CreateFails, Answer, TypeOK, SessionOwner, RequestsOK, Issued, Steps
  <1>5. ASSUME NEW r \in Requests, NEW t \in held, FindRefreshToken(r, t) PROVE IInv'
    BY <1>5 DEF FindRefreshToken, TypeOK, SessionOwner, RequestsOK, Issued, Steps
  <1>6. ASSUME NEW T, SetUsed(T) \/ UNCHANGED rows
        PROVE  /\ Issued' = Issued
               /\ rows' \in [Issued' -> Row]
               /\ SessionOwner'
               /\ \A t \in Issued : rows'[t].user = rows[t].user
    <2>1. /\ Issued' = Issued
          /\ rows' \in [Issued -> Row]
          /\ \A t \in Issued : /\ rows'[t].user = rows[t].user
                               /\ rows'[t].session = rows[t].session
                               /\ rows'[t].parent = rows[t].parent
      <3>1. CASE SetUsed(T)
        BY <3>1, SetUsedRows
      <3>2. CASE UNCHANGED rows
        BY <3>2 DEF TypeOK, Issued
      <3>3. QED
        BY <1>6, <3>1, <3>2
    <2>2. QED
      BY <2>1 DEF SessionOwner
  <1>7. ASSUME NEW r \in Requests, AnswerReuse(r) PROVE IInv'
    <2>1. /\ Issued' = Issued
          /\ rows' \in [Issued' -> Row]
          /\ SessionOwner'
          /\ \A t \in Issued : rows'[t].user = rows[t].user
      BY <1>6, <1>7 DEF AnswerReuse, RevokeAllRefreshTokens
    <2>2. \A t \in Issued : rows[t].session \in TokenIds
      BY DEF TypeOK, Row
    <2>3. TypeOK'
      BY <1>7, <2>1, <2>2 DEF AnswerReuse, Answer, TypeOK, Steps, TokensOf
    <2>4. QED
      BY <1>7, <2>1, <2>3 DEF AnswerReuse, Answer, RequestsOK, TypeOK
  <1>8. ASSUME NEW r \in Requests, AnswerExpired(r) PROVE IInv'
    <2>1. /\ Issued' = Issued
          /\ rows' \in [Issued' -> Row]
          /\ SessionOwner'
          /\ \A t \in Issued : rows'[t].user = rows[t].user
      BY <1>6, <1>8 DEF AnswerExpired
    <2>2. QED
      BY <1>8, <2>1 DEF AnswerExpired, Answer, RequestsOK, TypeOK, Steps
  <1>9. ASSUME NEW r \in Requests, ExpireRefreshToken(r) PROVE IInv'
    <2>1. /\ Issued' = Issued
          /\ rows' \in [Issued' -> Row]
          /\ SessionOwner'
          /\ \A t \in Issued : rows'[t].user = rows[t].user
      BY <1>6, <1>9 DEF ExpireRefreshToken
    <2>2. QED
      BY <1>9, <2>1 DEF ExpireRefreshToken, RequestsOK, TypeOK, Steps
  <1>10. ASSUME NEW r \in Requests, GetUserFromRefreshToken(r) PROVE IInv'
    <2>1. tok[r] \in Issued /\ rows[tok[r]].user \in Users
      BY <1>10 DEF GetUserFromRefreshToken, RequestsOK, TypeOK, Row
    <2>2. QED
      BY <1>10, <2>1 DEF GetUserFromRefreshToken, TypeOK, SessionOwner, RequestsOK, Issued, Steps
  <1>11. ASSUME NEW r \in Requests, AnswerNoUser(r) PROVE IInv'
    BY <1>11 DEF AnswerNoUser, Answer, TypeOK, SessionOwner, RequestsOK, Issued, Steps
  <1>12. ASSUME NEW r \in Requests, CreateRefreshToken(r) PROVE IInv'
    <2>1. PICK t \in TokenIds \ Issued :
            /\ InsertRow(t, uid[r], rows[tok[r]].session, tok[r])
            /\ held' \in {held, held \cup {t}}
      BY <1>12 DEF CreateRefreshToken
    <2>2. tok[r] \in Issued /\ uid[r] = rows[tok[r]].user /\ uid[r] \in Users
      BY <1>12 DEF CreateRefreshToken, RequestsOK, TypeOK, Row
    <2>3. rows[tok[r]].session \in TokenIds /\ tok[r] \in TokenIds
      BY <2>2 DEF TypeOK, Row
    <2>4. /\ Issued' = Issued \cup {t}
          /\ rows' \in [Issued' -> Row]
          /\ \A x \in Issued : rows'[x] = rows[x]
          /\ rows'[t].user = uid[r]
          /\ rows'[t].session = rows[tok[r]].session
          /\ rows'[t].parent = tok[r]
      BY <2>1, <2>2, <2>3, InsertRowRows
    <2>5. TypeOK'
      BY <1>12, <2>1, <2>4 DEF CreateRefreshToken, Answer, TypeOK, Steps
    <2>6. SessionOwner'
      BY <2>2, <2>4 DEF SessionOwner
    <2>7. RequestsOK'
      BY <1>12, <2>4 DEF CreateRefreshToken, Answer, RequestsOK, TypeOK
    <2>8. QED
      BY <2>5, <2>6, <2>7
  <1>13. ASSUME NEW t \in TokenIds, Lapse(t) PROVE IInv'
    <2>1. /\ Issued' = Issued
          /\ rows' \in [Issued' -> Row]
          /\ \A x \in Issued : /\ rows'[x].user = rows[x].user
                               /\ rows'[x].session = rows[x].session
                               /\ rows'[x].parent = rows[x].parent
      <3>1. t \in Issued /\ rows[t] \in Row /\ rows \in [Issued -> Row]
        BY <1>13 DEF Lapse, TypeOK
      <3>2. PICK row : row = [rows[t] EXCEPT !.expired = TRUE]
        OBVIOUS
      <3>3. /\ row \in Row /\ row.user = rows[t].user
            /\ row.session = rows[t].session /\ row.parent = rows[t].parent
        BY <3>1, <3>2 DEF Row
      <3>4. rows' = [rows EXCEPT ![t] = row]
        BY <1>13, <3>2 DEF Lapse
      <3>5. Issued' = Issued
        BY <3>1, <3>4 DEF Issued
      <3>6. QED
        BY <3>1, <3>3, <3>4, <3>5
    <2>2. TypeOK'
      BY <1>13, <2>1 DEF Lapse, TypeOK
    <2>3. SessionOwner'
      BY <2>1 DEF SessionOwner
    <2>4. RequestsOK'
      BY <1>13, <2>1 DEF Lapse, RequestsOK
    <2>5. QED
      BY <2>2, <2>3, <2>4
  <1>14. ASSUME NEW u \in Users, DeleteUser(u) \/ RestoreUser(u) PROVE IInv'
    BY <1>14 DEF DeleteUser, RestoreUser, TypeOK, SessionOwner, RequestsOK, Issued, Steps
  <1>15. CASE UNCHANGED vars
    BY <1>15 DEF vars, TypeOK, SessionOwner, RequestsOK, Issued, Steps
  <1>16. QED
    BY <1>1, <1>2, <1>3, <1>4, <1>5, <1>7, <1>8, <1>9, <1>10, <1>11, <1>12, <1>13, <1>14, <1>15
       DEF Next, RequestStep, Login, AdminLogin

LEMMA Invariance == Spec => []IInv
  BY InitIInv, NextIInv, PTL DEF Spec

\* The variables keep their types (the table holds only rows of issued tokens).
THEOREM TypeCorrect == Spec => []TypeOK
  BY Invariance, PTL DEF IInv

\* A session never changes hands: every token descends from a login of its
\* own user, whatever the interleaving (internal/auth/service.go Refresh).
THEOREM SessionsKeepTheirOwner == Spec => []SessionOwner
  BY Invariance, PTL DEF IInv

-----------------------------------------------------------------------------

\* No step reopens a closed session.
LEMMA ClosedStep ==
    ASSUME IInv, [Next]_vars, NEW s \in TokenIds, Closed(s)
    PROVE  Closed(s)'
  <1> USE DEF IInv
  <1>1. /\ s \in Issued
        /\ \A t \in Issued : rows[t].session = s => rows[t].used \/ rows[t].expired
        /\ \A r \in Requests : pc[r] \in {"mark", "user", "mint"} => rows[tok[r]].session # s
    BY DEF Closed, TokensIn, Spent, Exchanging
  <1>2. ASSUME s \in Issued',
               \A t \in Issued' : rows'[t].session = s => rows'[t].used \/ rows'[t].expired,
               \A r \in Requests : pc'[r] \in {"mark", "user", "mint"} => rows'[tok'[r]].session # s
        PROVE  Closed(s)'
    BY <1>2 DEF Closed, TokensIn, Spent, Exchanging
  <1>3. \A r \in Requests : pc[r] \in {"mark", "user", "mint"} => tok[r] \in Issued
    BY DEF RequestsOK
  \* Statements that insert nothing and start no exchange.
  <1>4. ASSUME Issued' = Issued,
               \A t \in Issued : /\ rows'[t].session = rows[t].session
                                 /\ rows[t].used => rows'[t].used
                                 /\ rows[t].expired => rows'[t].expired,
               \A r \in Requests : pc'[r] \in {"mark", "user", "mint"} =>
                    pc[r] \in {"mark", "user", "mint"} /\ tok'[r] = tok[r]
        PROVE  Closed(s)'
    BY <1>1, <1>2, <1>3, <1>4
  <1>5. ASSUME NEW T, SetUsed(T) \/ UNCHANGED rows
        PROVE  /\ Issued' = Issued
               /\ \A t \in Issued : /\ rows'[t].session = rows[t].session
                                    /\ rows[t].used => rows'[t].used
                                    /\ rows[t].expired => rows'[t].expired
    <2>1. CASE SetUsed(T)
      BY <2>1, SetUsedRows
    <2>2. CASE UNCHANGED rows
      BY <2>2 DEF Issued
    <2>3. QED
      BY <1>5, <2>1, <2>2
  <1>6. ASSUME NEW r \in Requests, NEW u \in Users, LoginAs(r, u) PROVE Closed(s)'
    BY <1>4, <1>6 DEF LoginAs, TypeOK, Issued
  <1>7. ASSUME NEW r \in Requests, CreateLoginToken(r) PROVE Closed(s)'
    <2>1. PICK t \in TokenIds \ Issued : InsertRow(t, uid[r], t, NoToken) /\ tok' = [tok EXCEPT ![r] = t]
      BY <1>7 DEF CreateLoginToken
    <2>2. uid[r] \in Users
      BY <1>7 DEF CreateLoginToken, RequestsOK
    <2>3. /\ Issued' = Issued \cup {t}
          /\ \A x \in Issued : rows'[x] = rows[x]
          /\ rows'[t].session = t
      BY <2>1, <2>2, InsertRowRows
    <2>4. \A q \in Requests : pc'[q] \in {"mark", "user", "mint"} => pc'[q] = pc[q] /\ tok'[q] = tok[q]
      BY <1>7, <2>1 DEF CreateLoginToken, TypeOK
    <2>5. QED
      BY <1>1, <1>2, <1>3, <2>3, <2>4
  <1>8. ASSUME NEW r \in Requests, LogLogin(r) \/ CreateFails(r) \/ AnswerNoUser(r) PROVE Closed(s)'
    BY <1>4, <1>8 DEF LogLogin, CreateFails, AnswerNoUser, Answer, TypeOK, Issued
  <1>9. ASSUME NEW r \in Requests, NEW t \in held, FindRefreshToken(r, t) PROVE Closed(s)'
    <2>1. t \in Issued
      BY DEF TypeOK
    <2>2. pc'[r] \in {"mark", "user", "mint"} => rows[t].session # s
      BY <1>1, <1>9, <2>1 DEF FindRefreshToken, TypeOK
    <2>3. QED
      BY <1>1, <1>2, <1>9, <2>2 DEF FindRefreshToken, TypeOK, Issued
  <1>10. ASSUME NEW r \in Requests, AnswerReuse(r) PROVE Closed(s)'
    <2>1. /\ Issued' = Issued
          /\ \A t \in Issued : /\ rows'[t].session = rows[t].session
                               /\ rows[t].used => rows'[t].used
                               /\ rows[t].expired => rows'[t].expired
      BY <1>5, <1>10 DEF AnswerReuse, RevokeAllRefreshTokens
    <2>2. QED
      BY <1>4, <1>10, <2>1 DEF AnswerReuse, Answer, TypeOK
  <1>11. ASSUME NEW r \in Requests, AnswerExpired(r) PROVE Closed(s)'
    <2>1. /\ Issued' = Issued
          /\ \A t \in Issued : /\ rows'[t].session = rows[t].session
                               /\ rows[t].used => rows'[t].used
                               /\ rows[t].expired => rows'[t].expired
      BY <1>5, <1>11 DEF AnswerExpired
    <2>2. QED
      BY <1>4, <1>11, <2>1 DEF AnswerExpired, Answer, TypeOK
  <1>12. ASSUME NEW r \in Requests, ExpireRefreshToken(r) PROVE Closed(s)'
    <2>1. /\ Issued' = Issued
          /\ \A t \in Issued : /\ rows'[t].session = rows[t].session
                               /\ rows[t].used => rows'[t].used
                               /\ rows[t].expired => rows'[t].expired
      BY <1>5, <1>12 DEF ExpireRefreshToken
    <2>2. QED
      BY <1>4, <1>12, <2>1 DEF ExpireRefreshToken, TypeOK
  <1>13. ASSUME NEW r \in Requests, GetUserFromRefreshToken(r) PROVE Closed(s)'
    BY <1>4, <1>13 DEF GetUserFromRefreshToken, TypeOK, Issued
  <1>14. ASSUME NEW r \in Requests, CreateRefreshToken(r) PROVE Closed(s)'
    <2>1. PICK t \in TokenIds \ Issued : InsertRow(t, uid[r], rows[tok[r]].session, tok[r])
      BY <1>14 DEF CreateRefreshToken
    <2>2. tok[r] \in Issued /\ uid[r] \in Users /\ rows[tok[r]].session # s
      BY <1>1, <1>14 DEF CreateRefreshToken, RequestsOK, TypeOK, Row
    <2>3. rows[tok[r]].session \in TokenIds /\ tok[r] \in TokenIds
      BY <2>2 DEF TypeOK, Row
    <2>4. /\ Issued' = Issued \cup {t}
          /\ \A x \in Issued : rows'[x] = rows[x]
          /\ rows'[t].session = rows[tok[r]].session
      BY <2>1, <2>2, <2>3, InsertRowRows
    <2>5. \A q \in Requests : pc'[q] \in {"mark", "user", "mint"} => pc'[q] = pc[q] /\ tok'[q] = tok[q]
      BY <1>14 DEF CreateRefreshToken, Answer, TypeOK
    <2>6. QED
      BY <1>1, <1>2, <1>3, <2>2, <2>4, <2>5
  <1>15. ASSUME NEW t \in TokenIds, Lapse(t) PROVE Closed(s)'
    <2>1. /\ Issued' = Issued
          /\ \A x \in Issued : /\ rows'[x].session = rows[x].session
                               /\ rows[x].used => rows'[x].used
                               /\ rows[x].expired => rows'[x].expired
      BY <1>15 DEF Lapse, TypeOK, Row, Issued
    <2>2. QED
      BY <1>4, <1>15, <2>1 DEF Lapse
  <1>16. ASSUME NEW u \in Users, DeleteUser(u) \/ RestoreUser(u) PROVE Closed(s)'
    BY <1>4, <1>16 DEF DeleteUser, RestoreUser, Issued
  <1>17. CASE UNCHANGED vars
    BY <1>4, <1>17 DEF vars, Issued
  <1>18. QED
    BY <1>6, <1>7, <1>8, <1>9, <1>10, <1>11, <1>12, <1>13, <1>14, <1>15, <1>16, <1>17
       DEF Next, RequestStep, Login, AdminLogin

\* A session whose tokens are all used or expired and that no refresh is
\* exchanging stays closed for ever (service.go 129-182 with concurrent
\* requests and ignored write errors).
THEOREM SessionsStayClosed == Spec => ClosedStaysClosed
  <1>1. IInv /\ [Next]_vars => [\A s \in TokenIds : Closed(s) => Closed(s)']_vars
    BY ClosedStep
  <1>2. QED
    BY <1>1, Invariance, PTL DEF Spec, ClosedStaysClosed

-----------------------------------------------------------------------------

\* No step issues a token to a deleted user nobody has read before.
LEMMA BarredStep ==
    ASSUME IInv, [Next]_vars, NEW u \in Users, Barred(u), u \in deleted'
    PROVE  Barred(u)' /\ TokensOf(u)' = TokensOf(u)
  <1> USE DEF IInv
  <1>1. u \in deleted /\ \A r \in Requests : pc[r] \in {"mint", "insert"} => uid[r] # u
    BY DEF Barred
  \* Statements that insert nothing and read no user row.
  <1>2. ASSUME Issued' = Issued,
               \A t \in Issued : rows'[t].user = rows[t].user,
               \A r \in Requests : pc'[r] \in {"mint", "insert"} =>
                    pc'[r] = pc[r] /\ uid'[r] = uid[r]
        PROVE  Barred(u)' /\ TokensOf(u)' = TokensOf(u)
    BY <1>1, <1>2 DEF Barred, TokensOf
  \* An insertion for another user.
  <1>3. ASSUME NEW t \in TokenIds \ Issued, NEW v \in Users \ {u}, NEW s \in TokenIds,
               NEW p \in TokenIds \cup {NoToken}, InsertRow(t, v, s, p),
               \A r \in Requests : pc'[r] \in {"mint", "insert"} =>
                    pc'[r] = pc[r] /\ uid'[r] = uid[r]
        PROVE  Barred(u)' /\ TokensOf(u)' = TokensOf(u)
    <2>1. /\ Issued' = Issued \cup {t}
          /\ \A x \in Issued : rows'[x] = rows[x]
          /\ rows'[t].user = v
      BY <1>3, InsertRowRows
    <2>2. QED
      BY <1>1, <1>3, <2>1 DEF Barred, TokensOf
  <1>4. ASSUME NEW T, SetUsed(T) \/ UNCHANGED rows
        PROVE  Issued' = Issued /\ \A t \in Issued : rows'[t].user = rows[t].user
    <2>1. CASE SetUsed(T)
      BY <2>1, SetUsedRows
    <2>2. CASE UNCHANGED rows
      BY <2>2 DEF Issued
    <2>3. QED
      BY <1>4, <2>1, <2>2
  <1> DEFINE Goal == Barred(u)' /\ TokensOf(u)' = TokensOf(u)
  <1>5. ASSUME NEW r \in Requests, NEW v \in Users, LoginAs(r, v) PROVE Goal
    BY <1>1, <1>5 DEF LoginAs, Barred, TokensOf, TypeOK, Issued
  <1>6. ASSUME NEW r \in Requests, CreateLoginToken(r) PROVE Goal
    <2>1. PICK t \in TokenIds \ Issued : InsertRow(t, uid[r], t, NoToken)
      BY <1>6 DEF CreateLoginToken
    <2>2. uid[r] \in Users \ {u}
      BY <1>1, <1>6 DEF CreateLoginToken, RequestsOK
    <2>3. \A q \in Requests : pc'[q] \in {"mint", "insert"} => pc'[q] = pc[q] /\ uid'[q] = uid[q]
      BY <1>6 DEF CreateLoginToken, TypeOK
    <2>4. QED
      BY <1>3, <2>1, <2>2, <2>3
  <1>7. ASSUME NEW r \in Requests, LogLogin(r) \/ CreateFails(r) \/ AnswerNoUser(r) PROVE Goal
    BY <1>2, <1>7 DEF LogLogin, CreateFails, AnswerNoUser, Answer, TypeOK, Issued
  <1>8. ASSUME NEW r \in Requests, NEW t \in held, FindRefreshToken(r, t) PROVE Goal
    BY <1>2, <1>8 DEF FindRefreshToken, TypeOK, Issued
  <1>9. ASSUME NEW r \in Requests, AnswerReuse(r) PROVE Goal
    BY <1>2, <1>4, <1>9 DEF AnswerReuse, RevokeAllRefreshTokens, Answer, TypeOK
  <1>10. ASSUME NEW r \in Requests, AnswerExpired(r) PROVE Goal
    BY <1>2, <1>4, <1>10 DEF AnswerExpired, Answer, TypeOK
  <1>11. ASSUME NEW r \in Requests, ExpireRefreshToken(r) PROVE Goal
    BY <1>2, <1>4, <1>11 DEF ExpireRefreshToken, TypeOK
  <1>12. ASSUME NEW r \in Requests, GetUserFromRefreshToken(r) PROVE Goal
    BY <1>1, <1>12 DEF GetUserFromRefreshToken, Barred, TokensOf, TypeOK, Issued
  <1>13. ASSUME NEW r \in Requests, CreateRefreshToken(r) PROVE Goal
    <2>1. PICK t \in TokenIds \ Issued : InsertRow(t, uid[r], rows[tok[r]].session, tok[r])
      BY <1>13 DEF CreateRefreshToken
    <2>2. tok[r] \in Issued /\ uid[r] \in Users \ {u}
      BY <1>1, <1>13 DEF CreateRefreshToken, RequestsOK, TypeOK, Row
    <2>3. rows[tok[r]].session \in TokenIds /\ tok[r] \in TokenIds
      BY <2>2 DEF TypeOK, Row
    <2>4. \A q \in Requests : pc'[q] \in {"mint", "insert"} => pc'[q] = pc[q] /\ uid'[q] = uid[q]
      BY <1>13 DEF CreateRefreshToken, Answer, TypeOK
    <2>5. QED
      BY <1>3, <2>1, <2>2, <2>3, <2>4
  <1>14. ASSUME NEW t \in TokenIds, Lapse(t) PROVE Goal
    <2>1. Issued' = Issued /\ \A x \in Issued : rows'[x].user = rows[x].user
      BY <1>14 DEF Lapse, TypeOK, Row, Issued
    <2>2. QED
      BY <1>2, <1>14, <2>1 DEF Lapse
  <1>15. ASSUME NEW v \in Users, DeleteUser(v) \/ RestoreUser(v) PROVE Goal
    BY <1>2, <1>15 DEF DeleteUser, RestoreUser, Issued
  <1>16. CASE UNCHANGED vars
    BY <1>2, <1>16 DEF vars, Issued
  <1>17. QED
    BY <1>5, <1>6, <1>7, <1>8, <1>9, <1>10, <1>11, <1>12, <1>13, <1>14, <1>15, <1>16
       DEF Next, RequestStep, Login, AdminLogin

\* As long as an account stays deleted and nobody had read it before, it gets
\* no token, although deleting it revokes none (service.go 23-27, 152-155).
THEOREM DeletedUsersGetNoToken == Spec => DeletionIsFinal
  <1>1. IInv /\ [Next]_vars =>
          [\A u \in Users : Barred(u) /\ u \in deleted' =>
                               Barred(u)' /\ TokensOf(u)' = TokensOf(u)]_vars
    BY BarredStep
  <1>2. QED
    BY <1>1, Invariance, PTL DEF Spec, DeletionIsFinal

-----------------------------------------------------------------------------
(* What remains of rotation and reuse detection when requests overlap. *)

\* The tokens issued for t, and the requests that may still issue one.
Exchanges(t) == {a \in Issued : rows[a].parent = t}
Accepting(t) == {r \in Requests : pc[r] \in {"mark", "user", "mint"} /\ tok[r] = t}

\* What remains of "exchanged once" when requests overlap: as the mark is not
\* conditional, every request that read the token before the first mark gets a
\* token.  When those requests have answered, the token is never exchanged
\* again, whatever fails.
Retired(t) == t \in Issued /\ Spent(t) /\ Accepting(t) = {}

RetiredStaysRetired ==
    [][\A t \in TokenIds : Retired(t) => Retired(t)' /\ Exchanges(t)' = Exchanges(t)]_vars

Accepted == {"mark", "user", "mint"}

\* A token is never consumed twice over, nor moved to another session.
RowsKept ==
    /\ Issued' = Issued
    /\ \A t \in Issued : /\ rows'[t].parent = rows[t].parent
                         /\ rows[t].used => rows'[t].used
                         /\ rows[t].expired => rows'[t].expired

\* The four kinds of steps: none begins an exchange and issues nothing; one
\* accepts a token; one issues the token of a login; one that of a refresh.
Quiet ==
    /\ RowsKept
    /\ \A q \in Requests : pc'[q] \in Accepted =>
         /\ pc[q] \in Accepted /\ tok'[q] = tok[q]
         /\ pc[q] = "mark" /\ pc'[q] # "mark" /\ ~StatementsMayFail => rows'[tok[q]].used

Accepts(r, t) ==
    /\ t \in Issued /\ ~Spent(t) /\ Issued' = Issued /\ rows' = rows
    /\ pc[r] = "idle" /\ pc'[r] = "mark" /\ tok'[r] = t
    /\ \A q \in Requests : q # r => pc'[q] = pc[q] /\ tok'[q] = tok[q]

Issues(r, t, parent) ==
    /\ t \in TokenIds \ Issued /\ Issued' = Issued \cup {t}
    /\ \A x \in Issued : rows'[x] = rows[x]
    /\ rows'[t].parent = parent
    /\ pc'[r] \notin Accepted
    /\ \A q \in Requests : q # r => pc'[q] = pc[q] /\ tok'[q] = tok[q]

LEMMA StepKinds ==
    ASSUME IInv, [Next]_vars
    PROVE  \/ Quiet
           \/ \E r \in Requests, t \in TokenIds : Accepts(r, t)
           \/ \E r \in Requests, t \in TokenIds : pc[r] = "insert" /\ Issues(r, t, NoToken)
           \/ \E r \in Requests, t \in TokenIds : pc[r] = "mint" /\ Issues(r, t, tok[r])
  <1> USE DEF IInv
  <1>1. ASSUME NEW T, SetUsed(T) \/ UNCHANGED rows
        PROVE  RowsKept
    BY <1>1, SetUsedRows DEF RowsKept, Issued
  <1>2. ASSUME NEW r \in Requests, RowsKept, pc'[r] \notin Accepted,
               \A q \in Requests : q # r => pc'[q] = pc[q] /\ tok'[q] = tok[q]
        PROVE  Quiet
    BY <1>2 DEF Quiet
  <1>3. ASSUME RowsKept, UNCHANGED <<pc, tok>> PROVE Quiet
    BY <1>3 DEF Quiet
  <1>4. ASSUME NEW r \in Requests, NEW u \in Users, LoginAs(r, u) PROVE Quiet
    <2>1. RowsKept
      BY <1>1, <1>4 DEF LoginAs
    <2>2. QED
      BY <1>2, <1>4, <2>1 DEF LoginAs, TypeOK, Accepted
  <1>5. ASSUME NEW r \in Requests, CreateLoginToken(r)
        PROVE  \E t \in TokenIds : pc[r] = "insert" /\ Issues(r, t, NoToken)
    <2>1. PICK t \in TokenIds \ Issued : InsertRow(t, uid[r], t, NoToken) /\ tok' = [tok EXCEPT ![r] = t]
      BY <1>5 DEF CreateLoginToken
    <2>2. uid[r] \in Users /\ pc[r] = "insert"
      BY <1>5 DEF CreateLoginToken, RequestsOK
    <2>3. /\ Issued' = Issued \cup {t}
          /\ \A x \in Issued : rows'[x] = rows[x]
          /\ rows'[t].parent = NoToken
      BY <2>1, <2>2, InsertRowRows
    <2>4. /\ pc'[r] = "activity"
          /\ \A q \in Requests : q # r => pc'[q] = pc[q] /\ tok'[q] = tok[q]
      BY <1>5, <2>1 DEF CreateLoginToken, TypeOK
    <2>5. QED
      BY <2>2, <2>3, <2>4 DEF Issues, Accepted
  <1>6. ASSUME NEW r \in Requests, LogLogin(r) \/ CreateFails(r) \/ AnswerNoUser(r) PROVE Quiet
    <2>1. RowsKept
      BY <1>1, <1>6 DEF LogLogin, CreateFails, AnswerNoUser
    <2>2. QED
      BY <1>2, <1>6, <2>1 DEF LogLogin, CreateFails, AnswerNoUser, Answer, TypeOK, Accepted
  <1>7. ASSUME NEW r \in Requests, NEW t \in held, FindRefreshToken(r, t)
        PROVE  Quiet \/ \E x \in TokenIds : Accepts(r, x)
    <2>1. t \in Issued /\ t \in TokenIds /\ rows' = rows /\ Issued' = Issued
      BY <1>7 DEF FindRefreshToken, TypeOK, Issued
    <2>2. /\ pc[r] = "idle" /\ tok'[r] = t
          /\ pc'[r] = IF rows[t].used THEN "revoke" ELSE IF rows[t].expired THEN "expire" ELSE "mark"
          /\ \A q \in Requests : q # r => pc'[q] = pc[q] /\ tok'[q] = tok[q]
      BY <1>7 DEF FindRefreshToken, TypeOK
    <2>3. CASE Spent(t)
      BY <1>1, <1>2, <2>1, <2>2, <2>3 DEF Spent, Accepted
    <2>4. CASE ~Spent(t)
      BY <2>1, <2>2, <2>4 DEF Spent, Accepts
    <2>5. QED
      BY <2>3, <2>4
  <1>8. ASSUME NEW r \in Requests, AnswerReuse(r) \/ AnswerExpired(r) PROVE Quiet
    <2>1. RowsKept
      BY <1>1, <1>8 DEF AnswerReuse, AnswerExpired, RevokeAllRefreshTokens
    <2>2. QED
      BY <1>2, <1>8, <2>1 DEF AnswerReuse, AnswerExpired, Answer, TypeOK, Accepted
  <1>9. ASSUME NEW r \in Requests, ExpireRefreshToken(r) PROVE Quiet
    <2>1. RowsKept
      BY <1>1, <1>9 DEF ExpireRefreshToken
    <2>2. /\ pc[r] = "mark" /\ pc'[r] = "user" /\ tok' = tok
          /\ \A q \in Requests : q # r => pc'[q] = pc[q]
      BY <1>9 DEF ExpireRefreshToken, TypeOK
    <2>3. tok[r] \in Issued
      BY <2>2 DEF RequestsOK
    <2>4. ~StatementsMayFail => rows'[tok[r]].used
      BY <1>9, <2>3 DEF ExpireRefreshToken, SetUsed, TypeOK, Row
    <2>5. QED
      BY <2>1, <2>2, <2>4 DEF Quiet, Accepted
  <1>10. ASSUME NEW r \in Requests, GetUserFromRefreshToken(r) PROVE Quiet
    <2>1. RowsKept
      BY <1>1, <1>10 DEF GetUserFromRefreshToken
    <2>2. /\ pc[r] = "user" /\ pc'[r] = "mint" /\ tok' = tok
          /\ \A q \in Requests : q # r => pc'[q] = pc[q]
      BY <1>10 DEF GetUserFromRefreshToken, TypeOK
    <2>3. QED
      BY <2>1, <2>2 DEF Quiet, Accepted
  <1>11. ASSUME NEW r \in Requests, CreateRefreshToken(r)
         PROVE  \E t \in TokenIds : pc[r] = "mint" /\ Issues(r, t, tok[r])
    <2>1. PICK t \in TokenIds \ Issued : InsertRow(t, uid[r], rows[tok[r]].session, tok[r])
      BY <1>11 DEF CreateRefreshToken
    <2>2. /\ pc[r] = "mint" /\ tok[r] \in Issued /\ tok[r] \in TokenIds
          /\ uid[r] \in Users /\ rows[tok[r]].session \in TokenIds
      BY <1>11 DEF CreateRefreshToken, RequestsOK, TypeOK, Row
    <2>3. /\ Issued' = Issued \cup {t}
          /\ \A x \in Issued : rows'[x] = rows[x]
          /\ rows'[t].parent = tok[r]
      BY <2>1, <2>2, InsertRowRows
    <2>4. /\ pc'[r] = "idle"
          /\ \A q \in Requests : q # r => pc'[q] = pc[q] /\ tok'[q] = tok[q]
      BY <1>11 DEF CreateRefreshToken, Answer, TypeOK
    <2>5. QED
      BY <2>2, <2>3, <2>4 DEF Issues, Accepted
  <1>12. ASSUME NEW t \in TokenIds, Lapse(t) PROVE Quiet
    <2>1. RowsKept
      BY <1>12 DEF Lapse, RowsKept, TypeOK, Row, Issued
    <2>2. QED
      BY <1>3, <1>12, <2>1 DEF Lapse
  <1>13. ASSUME NEW u \in Users, DeleteUser(u) \/ RestoreUser(u) PROVE Quiet
    BY <1>1, <1>3, <1>13 DEF DeleteUser, RestoreUser
  <1>14. CASE UNCHANGED vars
    BY <1>1, <1>3, <1>14 DEF vars
  <1>15. QED
    BY <1>4, <1>5, <1>6, <1>7, <1>8, <1>9, <1>10, <1>11, <1>12, <1>13, <1>14
       DEF Next, RequestStep, Login, AdminLogin

LEMMA RetiredStep ==
    ASSUME IInv, [Next]_vars, NEW x \in TokenIds, Retired(x)
    PROVE  Retired(x)' /\ Exchanges(x)' = Exchanges(x)
  <1>1. /\ x \in Issued /\ Spent(x)
        /\ \A q \in Requests : pc[q] \in Accepted => tok[q] # x
    BY DEF Retired, Accepting, Accepted
  <1>2. CASE Quiet
    <2>1. Exchanges(x)' = Exchanges(x)
      BY <1>2 DEF Quiet, RowsKept, Exchanges
    <2>2. Retired(x)'
      BY <1>1, <1>2 DEF Quiet, RowsKept, Retired, Spent, Accepting, Accepted
    <2>3. QED
      BY <2>1, <2>2
  <1>3. ASSUME NEW r \in Requests, NEW t \in TokenIds, Accepts(r, t)
        PROVE  Retired(x)' /\ Exchanges(x)' = Exchanges(x)
    <2>1. t # x /\ Spent(x)'
      BY <1>1, <1>3 DEF Accepts, Spent
    <2>2. \A q \in Requests : pc'[q] \in Accepted => tok'[q] # x
      BY <1>1, <1>3, <2>1 DEF Accepts
    <2>3. QED
      BY <1>1, <1>3, <2>1, <2>2 DEF Accepts, Retired, Accepting, Accepted, Exchanges
  <1>4. ASSUME NEW r \in Requests, NEW t \in TokenIds, NEW parent, parent # x, Issues(r, t, parent)
        PROVE  Retired(x)' /\ Exchanges(x)' = Exchanges(x)
    <2>1. Exchanges(x)' = Exchanges(x)
      BY <1>4 DEF Issues, Exchanges
    <2>2. \A q \in Requests : pc'[q] \in Accepted => tok'[q] # x
      BY <1>1, <1>4 DEF Issues
    <2>3. QED
      BY <1>1, <1>4, <2>1, <2>2 DEF Issues, Retired, Accepting, Accepted, Spent
  <1>5. x # NoToken
    BY ConstantsAssumption
  <1>6. \A r \in Requests : pc[r] = "mint" => tok[r] # x
    BY <1>1 DEF Accepted
  <1>7. QED
    BY <1>2, <1>3, <1>4, <1>5, <1>6, StepKinds

\* A token that is spent and that nobody is exchanging is never exchanged
\* again: neither a late request nor a failed mark brings it back
\* (service.go 129-182).
THEOREM RetiredTokensStayRetired == Spec => RetiredStaysRetired
  <1>1. IInv /\ [Next]_vars =>
          [\A t \in TokenIds : Retired(t) => Retired(t)' /\ Exchanges(t)' = Exchanges(t)]_vars
    BY RetiredStep
  <1>2. QED
    BY <1>1, Invariance, PTL DEF Spec, RetiredStaysRetired

\* What more there is when the marks do not fail (the error of one is ignored):
\* no request that accepted the token gets two, so there are never more
\* exchanges of a token than requests at once.
ExchangesBounded ==
    \A t \in Issued :
        Cardinality(Exchanges(t)) + Cardinality(Accepting(t)) <= Cardinality(Requests)

Overlapping ==
    /\ IsFiniteSet(Requests)
    /\ ~StatementsMayFail

\* The inductive invariant: before the first mark nothing has been issued for a
\* token, and who has accepted it has not gone further.
BoundInv ==
    /\ ExchangesBounded
    /\ \A t \in Issued :
         /\ IsFiniteSet(Exchanges(t))
         /\ ~rows[t].used =>
              Exchanges(t) = {} /\ \A q \in Requests : pc[q] \in Accepted /\ tok[q] = t => pc[q] = "mark"

LEMMA InitBoundInv == Init => BoundInv
  BY DEF Init, BoundInv, ExchangesBounded, Issued

\* The bound for one token, when no exchange of it has ended.
LEMMA AcceptingFinite ==
    ASSUME Overlapping, NEW S \in SUBSET Requests
    PROVE  IsFiniteSet(S) /\ Cardinality(S) \in Nat /\ Cardinality(S) <= Cardinality(Requests)
  BY FS_Subset, FS_CardinalityType DEF Overlapping

LEMMA NextBoundInv ==
    ASSUME Overlapping, IInv, BoundInv, [Next]_vars
    PROVE  BoundInv'
  <1>1. ASSUME NEW t \in Issued
        PROVE  /\ IsFiniteSet(Exchanges(t)) /\ Cardinality(Exchanges(t)) \in Nat
               /\ Accepting(t) \subseteq Requests /\ IsFiniteSet(Accepting(t))
               /\ Cardinality(Accepting(t)) \in Nat
               /\ Cardinality(Exchanges(t)) + Cardinality(Accepting(t)) <= Cardinality(Requests)
               /\ ~rows[t].used =>
                    Exchanges(t) = {} /\ \A q \in Accepting(t) : pc[q] = "mark"
    <2>1. Accepting(t) \subseteq Requests
      BY DEF Accepting
    <2>2. QED
      BY <2>1, AcceptingFinite, FS_CardinalityType DEF BoundInv, ExchangesBounded, Accepting, Accepted
  <1>2. Cardinality(Requests) \in Nat
    BY FS_CardinalityType DEF Overlapping
  <1>3. ASSUME \A t \in Issued' :
                 /\ IsFiniteSet(Exchanges(t)')
                 /\ Cardinality(Exchanges(t)') + Cardinality(Accepting(t)') <= Cardinality(Requests)
                 /\ ~rows'[t].used =>
                      Exchanges(t)' = {} /\ \A q \in Accepting(t)' : pc'[q] = "mark"
        PROVE  BoundInv'
    BY <1>3 DEF BoundInv, ExchangesBounded, Accepting, Accepted
  <1>4. CASE Quiet
    <2> SUFFICES ASSUME NEW t \in Issued
                 PROVE  /\ IsFiniteSet(Exchanges(t)')
                        /\ Cardinality(Exchanges(t)') + Cardinality(Accepting(t)') <= Cardinality(Requests)
                        /\ ~rows'[t].used =>
                             Exchanges(t)' = {} /\ \A q \in Accepting(t)' : pc'[q] = "mark"
      BY <1>3, <1>4 DEF Quiet, RowsKept
    <2>1. Exchanges(t)' = Exchanges(t)
      BY <1>4 DEF Quiet, RowsKept, Exchanges
    <2>2. Accepting(t)' \subseteq Accepting(t)
      BY <1>4 DEF Quiet, Accepting, Accepted
    <2>3. Cardinality(Accepting(t)') \in Nat /\ Cardinality(Accepting(t)') <= Cardinality(Accepting(t))
      BY <1>1, <2>2, FS_Subset, FS_CardinalityType
    <2>4. ~rows'[t].used => \A q \in Accepting(t)' : pc'[q] = "mark"
      BY <1>1, <1>4, <2>2 DEF Quiet, RowsKept, Accepting, Accepted, Overlapping
    <2>5. ~rows'[t].used => ~rows[t].used
      BY <1>4 DEF Quiet, RowsKept
    <2>6. QED
      BY <1>1, <1>2, <2>1, <2>3, <2>4, <2>5
  <1>5. ASSUME NEW r \in Requests, NEW a \in TokenIds, Accepts(r, a) PROVE BoundInv'
    <2> SUFFICES ASSUME NEW t \in Issued
                 PROVE  /\ IsFiniteSet(Exchanges(t)')
                        /\ Cardinality(Exchanges(t)') + Cardinality(Accepting(t)') <= Cardinality(Requests)
                        /\ ~rows'[t].used =>
                             Exchanges(t)' = {} /\ \A q \in Accepting(t)' : pc'[q] = "mark"
      BY <1>3, <1>5 DEF Accepts
    <2>1. Exchanges(t)' = Exchanges(t) /\ rows' = rows
      BY <1>5 DEF Accepts, Exchanges
    <2>2. CASE t = a
      <3>1. ~rows[t].used /\ Exchanges(t) = {}
        BY <1>1, <1>5, <2>2 DEF Accepts, Spent
      <3>2. Accepting(t)' \subseteq Requests /\ Accepting(t)' \subseteq Accepting(t) \cup {r} /\ pc'[r] = "mark"
        BY <1>5 DEF Accepts, Accepting
      <3>3. Cardinality(Accepting(t)') \in Nat /\ Cardinality(Accepting(t)') <= Cardinality(Requests)
        BY <3>2, AcceptingFinite
      <3>4. Cardinality(Exchanges(t)') = 0
        BY <2>1, <3>1, FS_EmptySet
      <3>5. \A q \in Accepting(t)' : pc'[q] = "mark"
        BY <1>1, <1>5, <3>1, <3>2 DEF Accepts, Accepting
      <3>6. Cardinality(Exchanges(t)') + Cardinality(Accepting(t)') <= Cardinality(Requests)
        BY <1>2, <3>3, <3>4
      <3>7. IsFiniteSet(Exchanges(t)') /\ Exchanges(t)' = {}
        BY <2>1, <3>1, FS_EmptySet
      <3>8. QED
        BY <3>5, <3>6, <3>7
    <2>3. CASE t # a
      <3>1. Accepting(t)' = Accepting(t) /\ \A q \in Accepting(t) : pc'[q] = pc[q]
        BY <1>5, <2>3 DEF Accepts, Accepting
      <3>2. QED
        BY <1>1, <2>1, <3>1
    <2>4. QED
      BY <2>2, <2>3
  <1>6. ASSUME NEW r \in Requests, NEW new \in TokenIds, NEW parent, Issues(r, new, parent),
               parent = NoToken \/ (pc[r] = "mint" /\ parent = tok[r])
        PROVE  BoundInv'
    <2>1. \A q \in Requests : pc[q] \in Accepted => tok[q] \in Issued
      BY DEF IInv, RequestsOK, Accepted
    <2>2. /\ new \notin Issued /\ Issued' = Issued \cup {new}
          /\ \A x \in Issued : rows'[x] = rows[x]
          /\ rows'[new].parent = parent /\ parent # new
          /\ pc'[r] \notin Accepted
          /\ \A q \in Requests : q # r => pc'[q] = pc[q] /\ tok'[q] = tok[q]
      BY <1>6, <2>1, ConstantsAssumption DEF Issues, Accepted
    <2>3. \A x \in Issued : rows[x].parent # new
      BY <2>2, ConstantsAssumption DEF IInv, SessionOwner
    <2>4. Exchanges(new)' = {} /\ Accepting(new)' = {}
      BY <2>1, <2>2, <2>3 DEF Exchanges, Accepting, Accepted
    <2>5. ASSUME NEW t \in Issued
          PROVE  /\ IsFiniteSet(Exchanges(t)')
                 /\ Cardinality(Exchanges(t)') + Cardinality(Accepting(t)') <= Cardinality(Requests)
                 /\ ~rows'[t].used =>
                      Exchanges(t)' = {} /\ \A q \in Accepting(t)' : pc'[q] = "mark"
      <3>1. Accepting(t)' \subseteq Accepting(t) /\ r \notin Accepting(t)'
            /\ \A q \in Accepting(t)' : pc'[q] = pc[q]
        BY <2>2 DEF Accepting, Accepted
      <3>2. Cardinality(Accepting(t)') \in Nat /\ Cardinality(Accepting(t)') <= Cardinality(Accepting(t))
        BY <1>1, <3>1, FS_Subset, FS_CardinalityType
      <3>3. CASE t # parent
        <4>1. Exchanges(t)' = Exchanges(t)
          BY <2>2, <3>3 DEF Exchanges
        <4>2. QED
          BY <1>1, <1>2, <2>2, <3>1, <3>2, <4>1
      <3>4. CASE t = parent
        <4>1. pc[r] = "mint" /\ tok[r] = t
          BY <1>6, <3>4, ConstantsAssumption DEF IInv, TypeOK
        <4>2. r \in Accepting(t) /\ rows[t].used
          BY <1>1, <4>1 DEF Accepting
        <4>3. Accepting(t)' \subseteq Accepting(t) \ {r}
          BY <3>1
        <4>4. Cardinality(Accepting(t)') <= Cardinality(Accepting(t)) - 1
          <5>1. IsFiniteSet(Accepting(t)) /\ Cardinality(Accepting(t)) \in Nat
            BY <1>1
          <5>2. /\ IsFiniteSet(Accepting(t) \ {r})
                /\ Cardinality(Accepting(t) \ {r}) = Cardinality(Accepting(t)) - 1
            BY <4>2, <5>1, FS_RemoveElement
          <5>3. Cardinality(Accepting(t)') <= Cardinality(Accepting(t) \ {r})
            BY <4>3, <5>2, FS_Subset
          <5>4. QED
            BY <5>2, <5>3
        <4>5. Exchanges(t)' = Exchanges(t) \cup {new} /\ new \notin Exchanges(t)
          BY <2>2, <3>4 DEF Exchanges
        <4>6. IsFiniteSet(Exchanges(t)') /\ Cardinality(Exchanges(t)') = Cardinality(Exchanges(t)) + 1
          BY <1>1, <4>5, FS_AddElement
        <4>7. QED
          BY <1>1, <1>2, <2>2, <3>2, <4>2, <4>4, <4>6
      <3>5. QED
        BY <3>3, <3>4
    <2>6. Cardinality(Exchanges(new)') + Cardinality(Accepting(new)') <= Cardinality(Requests) /\ IsFiniteSet(Exchanges(new)')
      BY <1>2, <2>4, FS_EmptySet
    <2>7. QED
      BY <1>3, <2>2, <2>4, <2>5, <2>6
  <1>7. QED
    BY <1>4, <1>5, <1>6, StepKinds

\* However many requests present the same token at once, each of them gets one
\* new token at most, and nobody after them: the README's "once" is exact for
\* one request (service.go 160-182, the mark without a condition).
THEOREM ExchangesAreBounded == ASSUME Overlapping PROVE Spec => []ExchangesBounded
  <1>1. IInv /\ BoundInv /\ [Next]_vars => BoundInv'
    BY NextBoundInv
  <1>2. BoundInv => ExchangesBounded
    BY DEF BoundInv
  <1>3. QED
    BY <1>1, <1>2, InitBoundInv, Invariance, PTL DEF Spec

\* What remains of reuse detection: when reuse is answered, a session of the
\* user is closed (for good, ClosedStaysClosed) unless a refresh of it is in
\* flight.
ReuseClosesResting ==
    [][\A r \in Requests, s \in Issued :
         /\ pc[r] = "revoke" /\ pc'[r] = "idle"
         /\ rows[s].session = s /\ rows[s].user = rows[tok[r]].user
         => Closed(s)' \/ Exchanging(s)']_vars

LEMMA ReuseClosesStep ==
    ASSUME IInv, [Next]_vars, ~StatementsMayFail, NEW r \in Requests, NEW s \in Issued,
           pc[r] = "revoke", pc'[r] = "idle",
           rows[s].session = s, rows[s].user = rows[tok[r]].user
    PROVE  Closed(s)' \/ Exchanging(s)'
  <1> DEFINE u == rows[tok[r]].user
  <1>1. AnswerReuse(r)
    BY DEF Next, RequestStep, Login, AdminLogin, LoginAs, CreateLoginToken, LogLogin, CreateFails,
           FindRefreshToken, AnswerReuse, AnswerExpired, ExpireRefreshToken, GetUserFromRefreshToken,
           AnswerNoUser, CreateRefreshToken, Answer, Lapse, DeleteUser, RestoreUser, vars, IInv, TypeOK
  <1>2. SetUsed({t \in TokensOf(u) : ~rows[t].used})
    BY <1>1 DEF AnswerReuse, RevokeAllRefreshTokens
  <1>3. Issued' = Issued /\ \A t \in Issued : rows'[t].session = rows[t].session
    BY <1>2, SetUsedRows DEF IInv
  <1>4. \A t \in Issued : rows[t].user = u => rows'[t].used
    BY <1>2 DEF SetUsed, TokensOf, IInv, TypeOK, Row
  <1>5. \A t \in Issued : rows[t].session = s => rows[t].user = u
    BY DEF IInv, SessionOwner
  <1>6. QED
    BY <1>3, <1>4, <1>5 DEF Closed, TokensIn, Spent

\* When reuse is answered and the revocation did not fail, every session of the
\* user at rest is closed, for good by SessionsStayClosed; a refresh in flight
\* is all that can keep one (service.go 140-143).
THEOREM ReuseClosesSessionsAtRest == ASSUME ~StatementsMayFail PROVE Spec => ReuseClosesResting
  <1>1. IInv /\ [Next]_vars =>
          [\A r \in Requests, s \in Issued :
             /\ pc[r] = "revoke" /\ pc'[r] = "idle"
             /\ rows[s].session = s /\ rows[s].user = rows[tok[r]].user
             => Closed(s)' \/ Exchanging(s)']_vars
    BY ReuseClosesStep
  <1>2. QED
    BY <1>1, Invariance, PTL DEF Spec, ReuseClosesResting

-----------------------------------------------------------------------------
(* Requests that are served one at a time, and no statement fails. *)

Sequential ==
    /\ \A q, r \in Requests : q = r
    /\ ~StatementsMayFail

\* A token is marked before the next one is issued for it.
ParentsUsed == \A a \in Issued : rows[a].parent # NoToken => rows[rows[a].parent].used

OneUsable ==
    \A a, b \in Issued : rows[a].session = rows[b].session /\ ~Spent(a) /\ ~Spent(b) => a = b

\* Nobody interferes with the refresh that has accepted a token: it is the only
\* usable one of its session until it is marked, and nothing was issued for it.
ExchangeOK ==
    \A r \in Requests :
        /\ pc[r] = "expire" => rows[tok[r]].expired
        /\ pc[r] = "mark" => ~rows[tok[r]].used
        /\ pc[r] \in {"user", "mint"} =>
             rows[tok[r]].used /\ \A a \in Issued : rows[a].parent # tok[r]
        /\ pc[r] \in Accepted =>
             /\ rows[tok[r]].session \notin detected
             /\ \A a \in Issued :
                  rows[a].session = rows[tok[r]].session /\ ~Spent(a) => pc[r] = "mark" /\ a = tok[r]

\* The inductive invariant.
SeqInv ==
    /\ ParentsUsed
    /\ OneUsable
    /\ ExchangeOK
    /\ ExchangedOnce
    /\ DetectedSessionsAreDead
    /\ detected \subseteq Issued

LEMMA InitSeqInv == Init => SeqInv
  BY DEF Init, SeqInv, ParentsUsed, OneUsable, ExchangeOK, ExchangedOnce,
         DetectedSessionsAreDead, Issued, Accepted

\* A step that neither adds a row nor begins or continues an exchange.
LEMMA QuietStep ==
    ASSUME IInv, SeqInv, Issued' = Issued, detected' = detected,
           \A t \in Issued : /\ rows'[t].session = rows[t].session
                             /\ rows'[t].parent = rows[t].parent
                             /\ rows[t].used => rows'[t].used
                             /\ rows[t].expired => rows'[t].expired,
           \A r \in Requests : pc'[r] \in Accepted \cup {"expire"} =>
             /\ pc'[r] = pc[r] /\ tok'[r] = tok[r]
             /\ rows'[tok[r]].used = rows[tok[r]].used
    PROVE  SeqInv'
  <1>1. \A r \in Requests : pc[r] \in Accepted \cup {"expire"} => tok[r] \in Issued
    BY DEF IInv, RequestsOK, Accepted
  <1>2. \A a \in Issued : Spent(a) => Spent(a)'
    BY DEF Spent
  <1>3. ParentsUsed'
    BY DEF SeqInv, ParentsUsed, IInv, SessionOwner
  <1>4. OneUsable'
    BY <1>2 DEF SeqInv, OneUsable
  <1>5. ExchangedOnce'
    BY DEF SeqInv, ExchangedOnce
  <1>6. DetectedSessionsAreDead'
    BY <1>2 DEF SeqInv, DetectedSessionsAreDead
  <1>7. ExchangeOK'
    BY <1>1, <1>2 DEF SeqInv, ExchangeOK, Accepted
  <1>8. QED
    BY <1>3, <1>4, <1>5, <1>6, <1>7 DEF SeqInv

\* A new row that begins a session or replaces a consumed token.
LEMMA InsertStep ==
    ASSUME IInv, SeqInv, NEW t \in TokenIds \ Issued,
           Issued' = Issued \cup {t}, detected' = detected,
           \A x \in Issued : rows'[x] = rows[x],
           ~rows'[t].used, ~rows'[t].expired,
           rows'[t].session \notin detected,
           \A x \in Issued : rows[x].session = rows'[t].session => Spent(x),
           rows'[t].parent # NoToken =>
             rows'[t].parent \in Issued /\ rows[rows'[t].parent].used
               /\ \A x \in Issued : rows[x].parent # rows'[t].parent,
           \A r \in Requests : pc'[r] \notin Accepted \cup {"expire"}
    PROVE  SeqInv'
  <1>1. \A a \in Issued : Spent(a)' = Spent(a)
    BY DEF Spent
  <1>2. ParentsUsed'
    BY DEF SeqInv, ParentsUsed, IInv, SessionOwner
  <1>3. OneUsable'
    BY <1>1 DEF SeqInv, OneUsable, Spent
  <1>4. ExchangedOnce'
    BY DEF SeqInv, ExchangedOnce
  <1>5. DetectedSessionsAreDead'
    BY <1>1 DEF SeqInv, DetectedSessionsAreDead
  <1>6. ExchangeOK'
    BY DEF ExchangeOK, Accepted
  <1>7. QED
    BY <1>2, <1>3, <1>4, <1>5, <1>6 DEF SeqInv

\* What a request does that answers reuse.
LEMMA ReuseStep ==
    ASSUME IInv, SeqInv, Sequential, NEW r \in Requests, AnswerReuse(r)
    PROVE  SeqInv'
  <1> DEFINE u == rows[tok[r]].user
  <1>1. SetUsed({t \in TokensOf(u) : ~rows[t].used})
    BY DEF AnswerReuse, RevokeAllRefreshTokens, Sequential
  <1>2. /\ Issued' = Issued
        /\ \A t \in Issued : /\ rows'[t].user = rows[t].user
                             /\ rows'[t].session = rows[t].session
                             /\ rows'[t].parent = rows[t].parent
                             /\ rows'[t].expired = rows[t].expired
                             /\ rows[t].used => rows'[t].used
    BY <1>1, SetUsedRows DEF IInv
  <1>3. \A t \in Issued : rows[t].user = u => rows'[t].used
    BY <1>1 DEF SetUsed, TokensOf, IInv, TypeOK, Row
  <1>4. detected' = detected \cup {rows[t].session : t \in TokensOf(u)}
    BY DEF AnswerReuse
  <1>5. \A q \in Requests : pc'[q] = "idle"
    BY DEF AnswerReuse, Answer, Sequential, IInv, TypeOK
  <1>6. \A a \in Issued : Spent(a) => Spent(a)'
    BY <1>2 DEF Spent
  \* The tokens of a session that is now detected are all of the user.
  <1>7. DetectedSessionsAreDead'
    <2>1. ASSUME NEW a \in Issued, rows[a].session \in {rows[t].session : t \in TokensOf(u)}
          PROVE  rows[a].user = u
      BY <2>1 DEF TokensOf, IInv, SessionOwner
    <2>2. QED
      BY <1>2, <1>3, <1>4, <1>6, <2>1 DEF SeqInv, DetectedSessionsAreDead, Spent
  <1>8. detected' \subseteq Issued'
    BY <1>2, <1>4 DEF SeqInv, TokensOf, IInv, SessionOwner
  <1>9. ParentsUsed'
    BY <1>2 DEF SeqInv, ParentsUsed, IInv, SessionOwner
  <1>10. OneUsable' /\ ExchangedOnce'
    BY <1>2, <1>6 DEF SeqInv, OneUsable, ExchangedOnce
  <1>11. ExchangeOK'
    BY <1>5 DEF ExchangeOK, Accepted
  <1>12. QED
    BY <1>7, <1>8, <1>9, <1>10, <1>11 DEF SeqInv

\* With one request, the others are not there.
LEMMA OneRequest ==
    ASSUME IInv, Sequential, NEW r \in Requests, pc' = [pc EXCEPT ![r] = "idle"]
    PROVE  \A q \in Requests : pc'[q] = "idle"
  BY DEF IInv, TypeOK, Sequential

LEMMA NextSeqInv ==
    ASSUME IInv, SeqInv, Sequential, [Next]_vars
    PROVE  SeqInv'
  <1>1. ASSUME NEW r \in Requests, NEW u \in Users, LoginAs(r, u) PROVE SeqInv'
    BY <1>1, QuietStep DEF LoginAs, IInv, TypeOK, Issued, Accepted
  <1>2. ASSUME NEW r \in Requests, CreateLoginToken(r) PROVE SeqInv'
    <2>1. PICK t \in TokenIds \ Issued : InsertRow(t, uid[r], t, NoToken)
      BY <1>2 DEF CreateLoginToken
    <2>2. uid[r] \in Users
      BY <1>2 DEF CreateLoginToken, IInv, RequestsOK
    <2>3. /\ Issued' = Issued \cup {t}
          /\ \A x \in Issued : rows'[x] = rows[x]
          /\ rows'[t].session = t /\ rows'[t].parent = NoToken
          /\ ~rows'[t].used /\ ~rows'[t].expired
      BY <2>1, <2>2, InsertRowRows DEF IInv
    <2>4. \A x \in Issued : rows[x].session # t
      BY DEF IInv, SessionOwner
    <2>5. t \notin detected
      BY DEF SeqInv
    <2>6. \A q \in Requests : pc'[q] = "activity"
      BY <1>2 DEF CreateLoginToken, Sequential, IInv, TypeOK
    <2>7. QED
      BY <1>2, <2>3, <2>4, <2>5, <2>6, InsertStep DEF CreateLoginToken, Accepted
  <1>3. ASSUME NEW r \in Requests, LogLogin(r) \/ CreateFails(r) \/ AnswerNoUser(r) PROVE SeqInv'
    <2>1. \A q \in Requests : pc'[q] = "idle"
      BY <1>3, OneRequest DEF LogLogin, CreateFails, AnswerNoUser, Answer
    <2>2. QED
      BY <1>3, <2>1, QuietStep DEF LogLogin, CreateFails, AnswerNoUser, Issued, Accepted
  <1>4. ASSUME NEW r \in Requests, NEW t \in held, FindRefreshToken(r, t) PROVE SeqInv'
    <2>1. t \in Issued /\ Issued' = Issued /\ rows' = rows /\ detected' = detected
      BY <1>4 DEF FindRefreshToken, IInv, TypeOK, Issued
    <2>2. \A q \in Requests :
            /\ q = r /\ tok'[q] = t
            /\ pc'[q] = IF rows[t].used THEN "revoke" ELSE IF rows[t].expired THEN "expire" ELSE "mark"
      BY <1>4 DEF FindRefreshToken, IInv, TypeOK, Sequential
    <2>3. ~Spent(t) => rows[t].session \notin detected
      BY <2>1 DEF SeqInv, DetectedSessionsAreDead
    <2>4. ExchangeOK'
      BY <2>1, <2>2, <2>3 DEF SeqInv, OneUsable, ExchangeOK, Accepted, Spent
    <2>5. QED
      BY <2>1, <2>4 DEF SeqInv, ParentsUsed, OneUsable, ExchangedOnce, DetectedSessionsAreDead, Spent
  <1>5. ASSUME NEW r \in Requests, AnswerReuse(r) PROVE SeqInv'
    BY <1>5, ReuseStep
  <1>6. ASSUME NEW r \in Requests, AnswerExpired(r) PROVE SeqInv'
    <2>1. SetUsed({tok[r]})
      BY <1>6 DEF AnswerExpired, Sequential
    <2>2. \A q \in Requests : pc'[q] = "idle"
      BY <1>6, OneRequest DEF AnswerExpired, Answer
    <2>3. QED
      BY <1>6, <2>1, <2>2, SetUsedRows, QuietStep DEF AnswerExpired, IInv, Accepted
  <1>7. ASSUME NEW r \in Requests, ExpireRefreshToken(r) PROVE SeqInv'
    <2>1. SetUsed({tok[r]})
      BY <1>7 DEF ExpireRefreshToken, Sequential
    <2>2. /\ tok[r] \in Issued /\ ~rows[tok[r]].used /\ rows'[tok[r]].used
      BY <1>7, <2>1 DEF ExpireRefreshToken, SeqInv, ExchangeOK, IInv, TypeOK, RequestsOK, SetUsed, Row
    <2>3. /\ Issued' = Issued
          /\ \A t \in Issued : /\ rows'[t].session = rows[t].session
                               /\ rows'[t].parent = rows[t].parent
                               /\ rows'[t].expired = rows[t].expired
                               /\ rows[t].used => rows'[t].used
      BY <2>1, SetUsedRows DEF IInv
    <2>4. \A a \in Issued : Spent(a) => Spent(a)'
      BY <2>3 DEF Spent
    <2>5. \A q \in Requests : q = r /\ pc'[q] = "user" /\ tok'[q] = tok[q] /\ detected' = detected
      BY <1>7 DEF ExpireRefreshToken, Sequential, IInv, TypeOK
    <2>6. \A a \in Issued : rows[a].parent # tok[r]
      BY <2>2, ConstantsAssumption DEF SeqInv, ParentsUsed, IInv, TypeOK
    <2>7. ExchangeOK'
      <3>1. /\ rows[tok[r]].session \notin detected
            /\ \A a \in Issued : rows[a].session = rows[tok[r]].session /\ ~Spent(a) => a = tok[r]
        BY <1>7 DEF ExpireRefreshToken, SeqInv, ExchangeOK, Accepted
      <3>2. \A a \in Issued : rows[a].session = rows[tok[r]].session => Spent(a)'
        BY <2>2, <2>4, <3>1 DEF Spent
      <3>3. QED
        BY <2>2, <2>3, <2>5, <2>6, <3>1, <3>2 DEF ExchangeOK, Accepted
    <2>8. ParentsUsed' /\ ExchangedOnce'
      BY <2>3 DEF SeqInv, ParentsUsed, ExchangedOnce, IInv, SessionOwner
    <2>9. OneUsable' /\ DetectedSessionsAreDead'
      BY <1>7, <2>3, <2>4 DEF ExpireRefreshToken, SeqInv, OneUsable, DetectedSessionsAreDead
    <2>10. QED
      BY <1>7, <2>3, <2>7, <2>8, <2>9 DEF ExpireRefreshToken, SeqInv
  <1>8. ASSUME NEW r \in Requests, GetUserFromRefreshToken(r) PROVE SeqInv'
    <2>1. pc[r] = "user" /\ rows' = rows /\ Issued' = Issued /\ detected' = detected /\ tok' = tok
      BY <1>8 DEF GetUserFromRefreshToken, Issued
    <2>2. \A q \in Requests : q = r /\ pc'[q] = "mint"
      BY <1>8 DEF GetUserFromRefreshToken, Sequential, IInv, TypeOK
    <2>3. ExchangeOK'
      BY <2>1, <2>2 DEF SeqInv, ExchangeOK, Accepted, Spent
    <2>4. QED
      BY <2>1, <2>3 DEF SeqInv, ParentsUsed, OneUsable, ExchangedOnce, DetectedSessionsAreDead, Spent
  <1>9. ASSUME NEW r \in Requests, CreateRefreshToken(r) PROVE SeqInv'
    <2>1. PICK t \in TokenIds \ Issued : InsertRow(t, uid[r], rows[tok[r]].session, tok[r])
      BY <1>9 DEF CreateRefreshToken
    <2>2. tok[r] \in Issued /\ uid[r] \in Users /\ rows[tok[r]].session \in TokenIds /\ tok[r] \in TokenIds
      BY <1>9 DEF CreateRefreshToken, IInv, RequestsOK, TypeOK, Row
    <2>3. /\ Issued' = Issued \cup {t}
          /\ \A x \in Issued : rows'[x] = rows[x]
          /\ rows'[t].session = rows[tok[r]].session /\ rows'[t].parent = tok[r]
          /\ ~rows'[t].used /\ ~rows'[t].expired
      BY <2>1, <2>2, InsertRowRows DEF IInv
    <2>4. /\ rows[tok[r]].used /\ \A a \in Issued : rows[a].parent # tok[r]
          /\ rows[tok[r]].session \notin detected
          /\ \A a \in Issued : rows[a].session = rows[tok[r]].session => Spent(a)
      BY <1>9 DEF CreateRefreshToken, SeqInv, ExchangeOK, Accepted
    <2>5. \A q \in Requests : pc'[q] = "idle"
      BY <1>9, OneRequest DEF CreateRefreshToken, Answer
    <2>6. QED
      BY <1>9, <2>2, <2>3, <2>4, <2>5, InsertStep DEF CreateRefreshToken, Accepted
  <1>10. ASSUME NEW t \in TokenIds, Lapse(t) PROVE SeqInv'
    <2>1. /\ Issued' = Issued
          /\ \A x \in Issued : /\ rows'[x].session = rows[x].session
                               /\ rows'[x].parent = rows[x].parent
                               /\ rows'[x].used = rows[x].used
                               /\ rows[x].expired => rows'[x].expired
      BY <1>10 DEF Lapse, IInv, TypeOK, Row, Issued
    <2>2. \A q \in Requests : pc[q] \in Accepted \cup {"expire"} => tok[q] \in Issued
      BY DEF IInv, RequestsOK, Accepted
    <2>3. QED
      BY <1>10, <2>1, <2>2, QuietStep DEF Lapse
  <1>11. ASSUME NEW u \in Users, DeleteUser(u) \/ RestoreUser(u) PROVE SeqInv'
    BY <1>11, QuietStep DEF DeleteUser, RestoreUser, Issued
  <1>12. CASE UNCHANGED vars
    BY <1>12, QuietStep DEF vars, Issued
  <1>13. QED
    BY <1>1, <1>2, <1>3, <1>4, <1>5, <1>6, <1>7, <1>8, <1>9, <1>10, <1>11, <1>12
       DEF Next, RequestStep, Login, AdminLogin

LEMMA SequentialInvariance == ASSUME Sequential PROVE Spec => []SeqInv
  <1>1. IInv /\ SeqInv /\ [Next]_vars => SeqInv'
    BY NextSeqInv
  <1>2. QED
    BY <1>1, InitSeqInv, Invariance, PTL DEF Spec

\* README "Rotation": one at a time, every token is exchanged for one new token
\* at most (service.go 129-182).
THEOREM TokensAreExchangedOnce == ASSUME Sequential PROVE Spec => []ExchangedOnce
  BY SequentialInvariance, PTL DEF SeqInv

\* README "Reuse detection": one at a time, nothing usable is left of a session
\* when its client is told that all tokens were revoked (service.go 140-143).
THEOREM ReuseEndsTheSessions == ASSUME Sequential PROVE Spec => []DetectedSessionsAreDead
  BY SequentialInvariance, PTL DEF SeqInv

-----------------------------------------------------------------------------
(* The refinement of RotationPolicy. *)

\* Steps under which the abstract machine stands still.
LEMMA RotationStutters ==
    ASSUME IInv, Issued' = Issued,
           \A t \in Issued : /\ rows'[t].session = rows[t].session
                             /\ rows'[t].user = rows[t].user,
           \A t \in Issued :
             (~Spent(t) /\ \A q \in Requests : <<pc[q], tok[q]>> # <<"mark", t>>) <=>
             (~Spent(t)' /\ \A q \in Requests : <<pc'[q], tok'[q]>> # <<"mark", t>>),
           SessionsExchanging' = SessionsExchanging
    PROVE  UNCHANGED <<UsableTokens, SessionOwners, SessionsExchanging, Issued>>
  <1>1. Sessions' = Sessions
    BY DEF Sessions
  <1>2. \A s \in Sessions : Usable(s)' = Usable(s)
    BY DEF Usable, TokensIn
  <1>3. \A s \in Sessions : s \in Issued /\ rows'[s].user = rows[s].user
    BY DEF Sessions, IInv, SessionOwner
  <1>4. UsableTokens' = UsableTokens
    BY <1>1, <1>2 DEF UsableTokens
  <1>5. SessionOwners' = SessionOwners
    BY <1>1, <1>3 DEF SessionOwners
  <1>6. QED
    BY <1>4, <1>5

\* What the sessions are named by, and who is exchanging.
LEMMA SessionsOfRows ==
    ASSUME IInv
    PROVE  /\ Sessions \subseteq Issued
           /\ \A t \in Issued : rows[t].session \in Sessions
           /\ DOMAIN UsableTokens = Sessions /\ DOMAIN SessionOwners = Sessions
           /\ \A s \in Sessions : UsableTokens[s] = Usable(s) /\ SessionOwners[s] = rows[s].user
  BY DEF IInv, SessionOwner, Sessions, UsableTokens, SessionOwners

LEMMA ExchangingOfOne ==
    ASSUME Sequential, NEW r \in Requests
    PROVE  SessionsExchanging = IF pc[r] \in Accepted THEN {rows[tok[r]].session} ELSE {}
  BY DEF Sequential, SessionsExchanging, Accepted

LEMMA ExchangingOfOneNext ==
    ASSUME Sequential, NEW r \in Requests
    PROVE  SessionsExchanging' = IF pc'[r] \in Accepted THEN {rows'[tok'[r]].session} ELSE {}
  BY DEF Sequential, SessionsExchanging, Accepted

LEMMA InitRotation == Init => Rotation!PolicyInit
  <1> SUFFICES ASSUME Init PROVE Rotation!PolicyInit
    OBVIOUS
  <1>1. Sessions = {} /\ Issued = {}
    BY DEF Init, Sessions, Issued
  <1>2. UsableTokens = [s \in {} |-> {}] /\ SessionOwners = [s \in {} |-> {}]
    BY <1>1 DEF UsableTokens, SessionOwners
  <1>3. SessionsExchanging = {}
    BY DEF Init, SessionsExchanging
  <1>4. QED
    BY <1>1, <1>2, <1>3 DEF Rotation!PolicyInit

\* A login opens a session.
LEMMA OpenStep ==
    ASSUME IInv, Sequential, NEW r \in Requests, CreateLoginToken(r)
    PROVE  Rotation!PolicyNext
  <1>1. PICK t \in TokenIds \ Issued : InsertRow(t, uid[r], t, NoToken)
    BY DEF CreateLoginToken
  <1>2. uid[r] \in Users
    BY DEF CreateLoginToken, IInv, RequestsOK
  <1>3. /\ Issued' = Issued \cup {t}
        /\ \A x \in Issued : rows'[x] = rows[x]
        /\ rows'[t].user = uid[r] /\ rows'[t].session = t
        /\ ~rows'[t].used /\ ~rows'[t].expired
    BY <1>1, <1>2, InsertRowRows DEF IInv
  <1>4. \A q \in Requests : pc[q] \notin Accepted /\ pc'[q] \notin Accepted
    BY DEF CreateLoginToken, Sequential, IInv, TypeOK, Accepted
  <1>5. t \notin Sessions /\ Sessions' = Sessions \cup {t}
    BY <1>3, SessionsOfRows DEF Sessions
  <1>6. Usable(t)' = {t}
    BY <1>3, <1>4, <1>5, SessionsOfRows DEF Usable, TokensIn, Spent, Accepted
  <1>7. \A s \in Sessions : Usable(s)' = Usable(s)
    BY <1>3, <1>4, <1>5 DEF Usable, TokensIn, Spent, Accepted
  <1>8. UsableTokens' = [x \in Sessions \cup {t} |-> IF x = t THEN {t} ELSE UsableTokens[x]]
    BY <1>5, <1>6, <1>7 DEF UsableTokens
  <1>9. SessionOwners' = [x \in Sessions \cup {t} |-> IF x = t THEN uid[r] ELSE SessionOwners[x]]
    BY <1>3, <1>5, SessionsOfRows DEF SessionOwners
  <1>10. SessionsExchanging' = SessionsExchanging
    BY <1>4 DEF SessionsExchanging, Accepted
  <1>11. Rotation!Open(t, uid[r])
    BY <1>1, <1>3, <1>5, <1>8, <1>9, <1>10, SessionsOfRows DEF Rotation!Open
  <1>12. QED
    BY <1>2, <1>11 DEF Rotation!PolicyNext

\* A refresh consumes the token of its session when it accepts it.
LEMMA ConsumeStep ==
    ASSUME IInv, SeqInv, Sequential, NEW r \in Requests, NEW t \in held, FindRefreshToken(r, t),
           ~Spent(t)
    PROVE  Rotation!PolicyNext
  <1> DEFINE s == rows[t].session
  <1>1. t \in Issued /\ Issued' = Issued /\ rows' = rows
    BY DEF FindRefreshToken, IInv, TypeOK, Issued
  <1>2. \A q \in Requests : q = r /\ pc[q] = "idle" /\ pc'[q] = "mark" /\ tok'[q] = t
    BY DEF FindRefreshToken, IInv, TypeOK, Sequential, Spent
  <1>3. s \in Sessions /\ Sessions' = Sessions
    BY <1>1, SessionsOfRows DEF Sessions
  <1>4. t \in Usable(s)
    BY <1>1, <1>2 DEF Usable, TokensIn
  <1>5. Usable(s)' = {}
    BY <1>1, <1>2 DEF Usable, TokensIn, Spent, SeqInv, OneUsable
  <1>6. \A x \in Sessions : x # s => Usable(x)' = Usable(x)
    BY <1>1, <1>2 DEF Usable, TokensIn, Spent
  <1>7. UsableTokens' = [UsableTokens EXCEPT ![s] = {}]
    BY <1>1, <1>3, <1>5, <1>6 DEF UsableTokens
  <1>8. SessionOwners' = SessionOwners
    BY <1>1, <1>3 DEF SessionOwners
  <1>9. SessionsExchanging = {} /\ SessionsExchanging' = {s}
    BY <1>1, <1>2, ExchangingOfOne, ExchangingOfOneNext DEF Accepted
  <1>10. Rotation!Consume(s)
    BY <1>1, <1>3, <1>4, <1>7, <1>8, <1>9, SessionsOfRows DEF Rotation!Consume
  <1>11. QED
    BY <1>3, <1>10, SessionsOfRows DEF Rotation!PolicyNext

\* Reuse ends the sessions of the user.
LEMMA EndAllStep ==
    ASSUME IInv, Sequential, NEW r \in Requests, AnswerReuse(r)
    PROVE  Rotation!PolicyNext
  <1> DEFINE u == rows[tok[r]].user
  <1>1. SetUsed({t \in TokensOf(u) : ~rows[t].used})
    BY DEF AnswerReuse, RevokeAllRefreshTokens, Sequential
  <1>2. /\ Issued' = Issued
        /\ \A t \in Issued : /\ rows'[t].user = rows[t].user
                             /\ rows'[t].session = rows[t].session
                             /\ rows'[t].expired = rows[t].expired
    BY <1>1, SetUsedRows DEF IInv
  <1>3. \A t \in Issued : IF rows[t].user = u THEN rows'[t].used ELSE rows'[t] = rows[t]
    BY <1>1 DEF SetUsed, TokensOf, IInv, TypeOK, Row
  <1>4. \A q \in Requests : q = r /\ pc[q] = "revoke" /\ pc'[q] = "idle"
    BY DEF AnswerReuse, Answer, Sequential, IInv, TypeOK
  <1>5. u \in Users
    BY DEF AnswerReuse, IInv, RequestsOK, TypeOK, Row
  <1>6. Sessions' = Sessions
    BY <1>2 DEF Sessions
  <1>7. \A s \in Sessions : \A t \in Issued : rows[t].session = s => rows[t].user = rows[s].user
    BY DEF IInv, SessionOwner
  <1>8. ASSUME NEW s \in Sessions
        PROVE  Usable(s)' = IF rows[s].user = u THEN {} ELSE Usable(s)
    <2>1. CASE rows[s].user = u
      BY <1>2, <1>3, <1>7, <2>1 DEF Usable, TokensIn, Spent
    <2>2. CASE rows[s].user # u
      BY <1>2, <1>3, <1>4, <1>7, <2>2 DEF Usable, TokensIn, Spent
    <2>3. QED
      BY <2>1, <2>2
  <1>9. UsableTokens' = [s \in Sessions |-> IF SessionOwners[s] = u THEN {} ELSE UsableTokens[s]]
    BY <1>6, <1>8, SessionsOfRows DEF UsableTokens
  <1>10. SessionOwners' = SessionOwners
    BY <1>2, <1>6, SessionsOfRows DEF SessionOwners
  <1>11. SessionsExchanging = {} /\ SessionsExchanging' = {}
    BY <1>4, ExchangingOfOne, ExchangingOfOneNext DEF Accepted
  <1>12. Rotation!EndAll(u)
    BY <1>2, <1>9, <1>10, <1>11, SessionsOfRows DEF Rotation!EndAll
  <1>13. QED
    BY <1>5, <1>12 DEF Rotation!PolicyNext

\* The account is gone, and the token is not replaced.
LEMMA AbandonStep ==
    ASSUME IInv, SeqInv, Sequential, NEW r \in Requests, AnswerNoUser(r)
    PROVE  Rotation!PolicyNext
  <1> DEFINE s == rows[tok[r]].session
  <1>1. tok[r] \in Issued /\ rows' = rows /\ Issued' = Issued
    BY DEF AnswerNoUser, IInv, RequestsOK, Issued
  <1>2. \A q \in Requests : q = r /\ pc[q] = "user" /\ pc'[q] = "idle"
    BY DEF AnswerNoUser, Answer, Sequential, IInv, TypeOK
  <1>3. s \in Sessions /\ Sessions' = Sessions
    BY <1>1, SessionsOfRows DEF Sessions
  <1>4. \A x \in Sessions : Usable(x)' = Usable(x)
    BY <1>1, <1>2 DEF Usable, TokensIn, Spent
  <1>5. UsableTokens' = UsableTokens /\ SessionOwners' = SessionOwners
    BY <1>1, <1>3, <1>4 DEF UsableTokens, SessionOwners
  <1>6. SessionsExchanging = {s} /\ SessionsExchanging' = {}
    BY <1>2, ExchangingOfOne, ExchangingOfOneNext DEF Accepted
  <1>7. Rotation!Abandon(s)
    BY <1>1, <1>5, <1>6 DEF Rotation!Abandon
  <1>8. QED
    BY <1>3, <1>7, SessionsOfRows DEF Rotation!PolicyNext

\* The next token is the only usable one of its session.
LEMMA IssueStep ==
    ASSUME IInv, SeqInv, Sequential, NEW r \in Requests, CreateRefreshToken(r)
    PROVE  Rotation!PolicyNext
  <1>0. PICK s : s = rows[tok[r]].session
    OBVIOUS
  <1>1. PICK t \in TokenIds \ Issued : InsertRow(t, uid[r], s, tok[r])
    BY <1>0 DEF CreateRefreshToken
  <1>2. /\ tok[r] \in Issued /\ uid[r] \in Users /\ uid[r] = rows[tok[r]].user
        /\ s \in TokenIds /\ tok[r] \in TokenIds
    BY <1>0 DEF CreateRefreshToken, IInv, RequestsOK, TypeOK, Row
  <1>3. /\ Issued' = Issued \cup {t}
        /\ \A x \in Issued : rows'[x] = rows[x]
        /\ rows'[t].session = s
        /\ ~rows'[t].used /\ ~rows'[t].expired
    BY <1>1, <1>2, InsertRowRows DEF IInv
  <1>4. \A q \in Requests : q = r /\ pc[q] = "mint" /\ pc'[q] = "idle"
    BY DEF CreateRefreshToken, Answer, Sequential, IInv, TypeOK
  <1>5. s \in Sessions /\ Sessions' = Sessions /\ Sessions \subseteq Issued
    BY <1>0, <1>2, <1>3, SessionsOfRows DEF Sessions
  <1>6. \A a \in Issued : rows[a].session = s => Spent(a)
    BY <1>0, <1>4 DEF SeqInv, ExchangeOK, Accepted
  <1>7. Usable(s) = {} /\ Usable(s)' = {t}
    BY <1>3, <1>4, <1>6 DEF Usable, TokensIn, Spent
  <1>8. \A x \in Sessions : x # s => Usable(x)' = Usable(x)
    BY <1>3, <1>4 DEF Usable, TokensIn, Spent
  <1>9. UsableTokens' = [UsableTokens EXCEPT ![s] = {t}]
    BY <1>5, <1>7, <1>8 DEF UsableTokens
  <1>10. SessionOwners' = SessionOwners
    BY <1>3, <1>5 DEF SessionOwners
  <1>11. SessionsExchanging = {s} /\ SessionsExchanging' = {}
    BY <1>0, <1>4, ExchangingOfOne, ExchangingOfOneNext DEF Accepted
  <1>12. Rotation!Issue(s, t)
    BY <1>1, <1>3, <1>5, <1>7, <1>9, <1>10, <1>11, SessionsOfRows DEF Rotation!Issue
  <1>13. QED
    BY <1>5, <1>12, SessionsOfRows DEF Rotation!PolicyNext

\* A usable token that expires leaves its session with none.
LEMMA LapseStep ==
    ASSUME IInv, SeqInv, Sequential, NEW t \in TokenIds, Lapse(t)
    PROVE  [Rotation!PolicyNext]_<<UsableTokens, SessionOwners, SessionsExchanging, Issued>>
  <1>0. PICK s : s = rows[t].session
    OBVIOUS
  <1>1. /\ t \in Issued /\ Issued' = Issued /\ pc' = pc /\ tok' = tok
        /\ rows'[t].expired
        /\ \A x \in Issued : /\ rows'[x].session = rows[x].session
                             /\ rows'[x].user = rows[x].user
                             /\ rows'[x].used = rows[x].used
                             /\ x # t => rows'[x].expired = rows[x].expired
    BY DEF Lapse, IInv, TypeOK, Row, Issued
  <1>2. \A q \in Requests : pc[q] \in Accepted => tok[q] \in Issued
    BY DEF IInv, RequestsOK, Accepted
  <1>3. SessionsExchanging' = SessionsExchanging
    BY <1>1, <1>2 DEF SessionsExchanging, Accepted
  <1>4. s \in Sessions /\ Sessions' = Sessions /\ Sessions \subseteq Issued
    BY <1>0, <1>1, SessionsOfRows DEF Sessions
  <1>5. SessionOwners' = SessionOwners
    BY <1>1, <1>4 DEF SessionOwners
  <1>6. \A x \in Sessions : x # s => Usable(x)' = Usable(x)
    BY <1>0, <1>1 DEF Usable, TokensIn, Spent
  <1>7. CASE t \in Usable(s)
    <2>1. Usable(s)' = {}
      BY <1>0, <1>1, <1>7 DEF Usable, TokensIn, Spent, SeqInv, OneUsable
    <2>2. UsableTokens' = [UsableTokens EXCEPT ![s] = {}]
      BY <1>1, <1>4, <1>6, <2>1 DEF UsableTokens
    <2>3. Rotation!Expire(s)
      BY <1>1, <1>3, <1>5, <2>2 DEF Rotation!Expire
    <2>4. QED
      BY <1>4, <2>3, SessionsOfRows DEF Rotation!PolicyNext
  <1>8. CASE t \notin Usable(s)
    <2>1. Usable(s)' = Usable(s)
      BY <1>0, <1>1, <1>8 DEF Usable, TokensIn, Spent
    <2>2. UsableTokens' = UsableTokens
      BY <1>4, <1>6, <2>1 DEF UsableTokens
    <2>3. QED
      BY <1>1, <1>3, <1>5, <2>2
  <1>9. QED
    BY <1>7, <1>8

\* The steps of the abstract machine.
LEMMA RotationStep ==
    ASSUME IInv, SeqInv, Sequential, [Next]_vars
    PROVE  [Rotation!PolicyNext]_<<UsableTokens, SessionOwners, SessionsExchanging, Issued>>
  <1> DEFINE Goal == [Rotation!PolicyNext]_<<UsableTokens, SessionOwners, SessionsExchanging, Issued>>
  \* A statement of a request that begins or ends no exchange.
  <1>1. ASSUME NEW r \in Requests, UNCHANGED rows, pc'[r] \in Accepted <=> pc[r] \in Accepted,
               pc[r] \in Accepted => tok'[r] = tok[r],
               pc[r] # "mark", pc'[r] # "mark"
        PROVE  Goal
    <2>1. Issued' = Issued /\ \A t \in Issued : Spent(t)' = Spent(t)
      BY <1>1 DEF Issued, Spent
    <2>2. \A q \in Requests : q = r
      BY DEF Sequential
    <2>3. SessionsExchanging' = SessionsExchanging
      BY <1>1, ExchangingOfOne, ExchangingOfOneNext
    <2>4. QED
      BY <1>1, <2>1, <2>2, <2>3, RotationStutters
  <1>2. ASSUME NEW r \in Requests, NEW u \in Users, LoginAs(r, u) PROVE Goal
    BY <1>1, <1>2 DEF LoginAs, IInv, TypeOK, Accepted
  <1>3. ASSUME NEW r \in Requests, CreateLoginToken(r) PROVE Goal
    BY <1>3, OpenStep
  <1>4. ASSUME NEW r \in Requests, LogLogin(r) PROVE Goal
    BY <1>1, <1>4 DEF LogLogin, Answer, IInv, TypeOK, Accepted
  <1>5. ASSUME NEW r \in Requests, CreateFails(r) PROVE FALSE
    BY <1>5 DEF CreateFails, Sequential
  <1>6. ASSUME NEW r \in Requests, NEW t \in held, FindRefreshToken(r, t) PROVE Goal
    <2>1. CASE Spent(t)
      BY <1>1, <1>6, <2>1 DEF FindRefreshToken, IInv, TypeOK, Accepted, Spent
    <2>2. CASE ~Spent(t)
      BY <1>6, <2>2, ConsumeStep
    <2>3. QED
      BY <2>1, <2>2
  <1>7. ASSUME NEW r \in Requests, AnswerReuse(r) PROVE Goal
    BY <1>7, EndAllStep
  \* Marking a token that was not usable any more.
  <1>8. ASSUME NEW r \in Requests, SetUsed({tok[r]}), tok[r] \in Issued,
               pc[r] = "mark" \/ rows[tok[r]].expired,
               pc'[r] # "mark",
               SessionsExchanging' = SessionsExchanging
        PROVE  Goal
    <2>1. /\ Issued' = Issued
          /\ \A t \in Issued : /\ rows'[t].user = rows[t].user
                               /\ rows'[t].session = rows[t].session
                               /\ rows'[t].expired = rows[t].expired
      BY <1>8, SetUsedRows DEF IInv
    <2>2. \A t \in Issued : IF t = tok[r] THEN rows'[t].used ELSE rows'[t] = rows[t]
      BY <1>8 DEF SetUsed, IInv, TypeOK, Row
    <2>3. \A q \in Requests : q = r
      BY DEF Sequential
    <2>4. ASSUME NEW t \in Issued
          PROVE  (~Spent(t) /\ \A q \in Requests : <<pc[q], tok[q]>> # <<"mark", t>>) <=>
                 (~Spent(t)' /\ \A q \in Requests : <<pc'[q], tok'[q]>> # <<"mark", t>>)
      <3>1. CASE t = tok[r]
        BY <1>8, <2>2, <3>1 DEF Spent
      <3>2. CASE t # tok[r]
        BY <1>8, <2>2, <2>3, <3>2 DEF Spent
      <3>3. QED
        BY <3>1, <3>2
    <2>5. QED
      BY <1>8, <2>1, <2>4, RotationStutters
  <1>9. ASSUME NEW r \in Requests, AnswerExpired(r) PROVE Goal
    <2>1. SetUsed({tok[r]}) /\ tok[r] \in Issued /\ rows[tok[r]].expired
      BY <1>9 DEF AnswerExpired, Sequential, IInv, RequestsOK, SeqInv, ExchangeOK
    <2>2. pc[r] = "expire" /\ pc'[r] = "idle"
      BY <1>9 DEF AnswerExpired, Answer, IInv, TypeOK
    <2>3. SessionsExchanging' = SessionsExchanging
      BY <2>2, ExchangingOfOne, ExchangingOfOneNext DEF Accepted
    <2>4. QED
      BY <1>8, <2>1, <2>2, <2>3
  <1>10. ASSUME NEW r \in Requests, ExpireRefreshToken(r) PROVE Goal
    <2>1. SetUsed({tok[r]}) /\ tok[r] \in Issued
      BY <1>10 DEF ExpireRefreshToken, Sequential, IInv, RequestsOK
    <2>2. pc[r] = "mark" /\ pc'[r] = "user" /\ tok' = tok
      BY <1>10 DEF ExpireRefreshToken, IInv, TypeOK
    <2>3. rows'[tok[r]].session = rows[tok[r]].session
      BY <2>1, SetUsedRows DEF IInv
    <2>4. SessionsExchanging' = SessionsExchanging
      BY <2>2, <2>3, ExchangingOfOne, ExchangingOfOneNext DEF Accepted
    <2>5. QED
      BY <1>8, <2>1, <2>2, <2>4
  <1>11. ASSUME NEW r \in Requests, GetUserFromRefreshToken(r) PROVE Goal
    BY <1>1, <1>11 DEF GetUserFromRefreshToken, IInv, TypeOK, Accepted
  <1>12. ASSUME NEW r \in Requests, AnswerNoUser(r) PROVE Goal
    BY <1>12, AbandonStep
  <1>13. ASSUME NEW r \in Requests, CreateRefreshToken(r) PROVE Goal
    BY <1>13, IssueStep
  <1>14. ASSUME NEW t \in TokenIds, Lapse(t) PROVE Goal
    BY <1>14, LapseStep
  \* Steps that touch neither the table nor a request.
  <1>15. ASSUME UNCHANGED <<rows, pc, tok>> PROVE Goal
    <2>1. Issued' = Issued /\ SessionsExchanging' = SessionsExchanging
      BY <1>15 DEF Issued, SessionsExchanging
    <2>2. QED
      BY <1>15, <2>1, RotationStutters DEF Spent
  <1>16. ASSUME NEW u \in Users, DeleteUser(u) \/ RestoreUser(u) PROVE Goal
    BY <1>15, <1>16 DEF DeleteUser, RestoreUser
  <1>17. CASE UNCHANGED vars
    BY <1>15, <1>17 DEF vars
  <1>18. QED
    BY <1>2, <1>3, <1>4, <1>5, <1>6, <1>7, <1>9, <1>10, <1>11, <1>12, <1>13, <1>14, <1>16, <1>17
       DEF Next, RequestStep, Login, AdminLogin

\* The README's rotation as a whole: served one at a time without failing
\* statements, the handlers implement RotationPolicy.
THEOREM HandlersImplementRotation == ASSUME Sequential PROVE Spec => ImplementsRotation
  <1>1. Init => Rotation!PolicyInit
    BY InitRotation
  <1>2. IInv /\ SeqInv /\ [Next]_vars => [Rotation!PolicyNext]_(Rotation!policyVars)
    BY RotationStep DEF Rotation!policyVars
  <1>3. QED
    BY <1>1, <1>2, Invariance, SequentialInvariance, PTL
       DEF Spec, ImplementsRotation, Rotation!PolicySpec

\* RotationPolicy with its theorems, of the tokens and sessions of the handlers.
Promises == INSTANCE RotationPolicyProofs WITH
    Tokens <- TokenIds,
    Owners <- Users,
    live <- UsableTokens,
    owner <- SessionOwners,
    exchanging <- SessionsExchanging,
    issued <- Issued

LEMMA RotationIsPromised == ImplementsRotation => Promises!PolicySpec
  <1>1. Rotation!PolicyInit => Promises!PolicyInit
    BY DEF Rotation!PolicyInit, Promises!PolicyInit
  <1>2. Rotation!PolicyNext => Promises!PolicyNext
    BY DEF Rotation!PolicyNext, Rotation!Open, Rotation!Consume, Rotation!Issue, Rotation!Abandon,
           Rotation!Expire, Rotation!EndAll, Promises!PolicyNext, Promises!Open, Promises!Consume,
           Promises!Issue, Promises!Abandon, Promises!Expire, Promises!EndAll
  <1>3. [Rotation!PolicyNext]_(Rotation!policyVars) => [Promises!PolicyNext]_(Promises!policyVars)
    BY <1>2 DEF Rotation!policyVars, Promises!policyVars
  <1>4. QED
    BY <1>1, <1>3, PTL DEF ImplementsRotation, Rotation!PolicySpec, Promises!PolicySpec

\* And so they keep what RotationPolicy promises: one usable token in a
\* session at most, never again usable once it is spent; and a session that
\* has ended, by reuse or otherwise, does not come back.
THEOREM HandlersKeepThePromises ==
    ASSUME Sequential
    PROVE  Spec => /\ []Promises!OneUsableToken
                   /\ Promises!SpentStaysSpent
                   /\ Promises!EndedStaysEnded
  BY HandlersImplementRotation, RotationIsPromised, Promises!PolicyOneUsable,
     Promises!PolicySpentStaysSpent, Promises!PolicyEndedStaysEnded, PTL
=============================================================================
