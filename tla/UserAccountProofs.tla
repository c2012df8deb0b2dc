------------------------- MODULE UserAccountProofs -------------------------
(***************************************************************************)
(* Proofs about UserAccount for any number of concurrent requests, codes   *)
(* and passwords; and for requests that are served one at a time.          *)
(***************************************************************************)
EXTENDS UserAccount, TLAPS

\* A code in a row, stored or loaded, was generated.
CodeOK(m) == m.code \in Codes => age[m.code] # "unused"

\* A loaded copy is no more active than its account has earned, and what a
\* pending verification or reset accepted is a code.
CopiesOK ==
    \A r \in Requests : pc[r] \in Saving =>
        /\ copy[r] \in Row
        /\ copy[r].active => earned
        /\ CodeOK(copy[r])
        /\ pc[r] \in CodeUses => copy[r].code \in Codes

\* Before the account exists nobody has loaded it.
AbsentOK ==
    row.state = "absent" => ~row.active /\ \A r \in Requests : pc[r] = "idle"

\* The inductive invariant.
IInv ==
    /\ TypeOK
    /\ ActivationEarned
    /\ OnlyLatestPasswordLogsIn
    /\ CodeOK(row)
    /\ CopiesOK
    /\ AbsentOK

LEMMA InitIInv == Init => IInv
  <1> SUFFICES ASSUME Init PROVE IInv
    OBVIOUS
  <1>1. row \in Row /\ lastSecret \in Secrets
    BY DEF Init, Row
  <1>2. age \in [Codes -> Ages] /\ pc \in [Requests -> Pending]
    BY DEF Init, Ages, Pending
  <1>3. copy \in [Requests -> Row \cup {NoModel}] /\ earned \in BOOLEAN
    BY DEF Init
  <1>4. uses \in [Codes -> [CodeUses -> Nat]]
    BY DEF Init
  <1>5. ActivationEarned /\ OnlyLatestPasswordLogsIn /\ CodeOK(row) /\ CopiesOK /\ AbsentOK
    BY ConstantsAssumption
       DEF Init, ActivationEarned, OnlyLatestPasswordLogsIn, CodeOK, CopiesOK, AbsentOK, Saving
  <1>6. QED
    BY <1>1, <1>2, <1>3, <1>4, <1>5 DEF IInv, TypeOK

\* A whole-row Save of a model that is no more active than earned.
LEMMA SaveKeeps ==
    ASSUME IInv, NEW m \in Row, NEW s \in Secrets,
           \/ Save(WithPassword(m, s)) /\ lastSecret' = s
           \/ Save(BeforeSave(m)) /\ UNCHANGED lastSecret
    PROVE  /\ row' \in Row
           /\ row'.state = "live"
           /\ row'.active = m.active
           /\ row'.code = m.code
           /\ lastSecret' \in Secrets
           /\ OnlyLatestPasswordLogsIn'
  <1>1. CASE Save(WithPassword(m, s)) /\ lastSecret' = s
    <2>1. PICK new : new = [[m EXCEPT !.secret = s, !.rehashed = FALSE] EXCEPT !.state = "live"]
      OBVIOUS
    <2>2. /\ new \in Row /\ new.state = "live" /\ new.active = m.active /\ new.code = m.code
          /\ new.secret = s
      BY <2>1 DEF Row
    <2>3. row' = new
      BY <1>1, <2>1 DEF Save, WithPassword
    <2>4. QED
      BY <1>1, <2>2, <2>3 DEF OnlyLatestPasswordLogsIn
  <1>2. CASE Save(BeforeSave(m)) /\ UNCHANGED lastSecret
    <2>1. PICK new : new = [[m EXCEPT !.rehashed = TRUE] EXCEPT !.state = "live"]
      OBVIOUS
    <2>2. /\ new \in Row /\ new.state = "live" /\ new.active = m.active /\ new.code = m.code
          /\ new.rehashed
      BY <2>1 DEF Row
    <2>3. row' = new
      BY <1>2, <2>1 DEF Save, BeforeSave
    <2>4. lastSecret' \in Secrets
      BY <1>2 DEF IInv, TypeOK
    <2>5. QED
      BY <2>2, <2>3, <2>4 DEF OnlyLatestPasswordLogsIn
  <1>3. QED
    BY <1>1, <1>2

\* A generated code was unused; the ages of the others do not change.
LEMMA GenerateKeeps ==
    ASSUME IInv, NEW c \in Codes, GenerateVerificationCode(c)
    PROVE  /\ age' \in [Codes -> Ages]
           /\ age[c] = "unused" /\ age'[c] # "unused"
           /\ \A d \in Codes : age[d] # "unused" => d # c /\ age'[d] = age[d]
  BY DEF IInv, TypeOK, GenerateVerificationCode, Ages

\* Answering leaves the other requests' copies alone.
LEMMA FinishKeeps ==
    ASSUME IInv, NEW r \in Requests, NEW step, Finish(r, step)
    PROVE  /\ pc' \in [Requests -> Pending]
           /\ copy' \in [Requests -> Row \cup {NoModel}]
           /\ pc'[r] = "idle"
           /\ \A q \in Requests : pc'[q] # "idle" => pc'[q] = pc[q] /\ copy'[q] = copy[q]
  BY DEF IInv, TypeOK, Finish, Pending

\* Once a row exists, the copies stay consistent as long as nothing a copy
\* relies on is taken back.
LEMMA CopiesKeep ==
    ASSUME IInv, earned => earned',
           \A d \in Codes : age[d] # "unused" => age'[d] # "unused",
           \A q \in Requests : pc'[q] # "idle" => pc'[q] = pc[q] /\ copy'[q] = copy[q]
    PROVE  CopiesOK'
  BY DEF IInv, CopiesOK, CodeOK, Saving

LEMMA NextIInv == IInv /\ [Next]_vars => IInv'
  <1> SUFFICES ASSUME IInv, [Next]_vars PROVE IInv'
    OBVIOUS
  <1>1. /\ row \in Row /\ age \in [Codes -> Ages] /\ pc \in [Requests -> Pending]
        /\ copy \in [Requests -> Row \cup {NoModel}] /\ lastSecret \in Secrets
        /\ uses \in [Codes -> [CodeUses -> Nat]]
        /\ earned \in BOOLEAN
        /\ CodeOK(row) /\ CopiesOK /\ AbsentOK /\ (row.active => earned)
    BY DEF IInv, TypeOK, ActivationEarned
  <1>2. ASSUME NEW r \in Requests, SignUp(r) PROVE IInv'
    <2>1. PICK c \in Codes, s \in Secrets :
            /\ GenerateVerificationCode(c)
            /\ Save(WithPassword([row EXCEPT !.code = c], s))
            /\ lastSecret' = s
      BY <1>2 DEF SignUp
    <2>2. [row EXCEPT !.code = c] \in Row
      BY <1>1 DEF Row
    <2>3. /\ row' \in Row /\ row'.state = "live" /\ row'.active = row.active /\ row'.code = c
          /\ lastSecret' \in Secrets /\ OnlyLatestPasswordLogsIn'
      BY <1>1, <2>1, <2>2, SaveKeeps DEF Row
    <2>4. /\ age' \in [Codes -> Ages] /\ age'[c] # "unused"
          /\ \A d \in Codes : age[d] # "unused" => age'[d] # "unused"
      BY <2>1, GenerateKeeps
    <2>5. CopiesOK'
      BY <1>2, <2>4, CopiesKeep DEF SignUp
    <2>6. QED
      BY <1>1, <1>2, <2>3, <2>4, <2>5
         DEF SignUp, IInv, TypeOK, ActivationEarned, CodeOK, AbsentOK
  <1>3. ASSUME NEW r \in Requests, AdminCreate(r) PROVE IInv'
    <2>1. PICK s \in Secrets, active \in BOOLEAN :
            /\ Save(WithPassword([row EXCEPT !.active = active], s))
            /\ lastSecret' = s
            /\ earned' = active
      BY <1>3 DEF AdminCreate
    <2>2. [row EXCEPT !.active = active] \in Row
      BY <1>1 DEF Row
    <2>3. /\ row' \in Row /\ row'.state = "live" /\ row'.active = active /\ row'.code = row.code
          /\ lastSecret' \in Secrets /\ OnlyLatestPasswordLogsIn'
      BY <1>1, <2>1, <2>2, SaveKeeps DEF Row
    <2>4. \A q \in Requests : pc'[q] = "idle"
      BY <1>1, <1>3 DEF AdminCreate, AbsentOK
    <2>5. QED
      BY <1>1, <1>3, <2>1, <2>3, <2>4
         DEF AdminCreate, IInv, TypeOK, ActivationEarned, CodeOK, CopiesOK, AbsentOK, Saving
  <1>4. ASSUME NEW r \in Requests, NEW step \in Saving, Load(r, step),
               step \in CodeUses => row.code \in Codes
        PROVE IInv'
    <2>1. CopiesOK'
      BY <1>1, <1>4 DEF Load, CopiesOK, CodeOK
    <2>2. QED
      BY <1>1, <1>4, <2>1 DEF Load, Pending, IInv, TypeOK, ActivationEarned, OnlyLatestPasswordLogsIn, CodeOK, AbsentOK
  <1>5. ASSUME NEW r \in Requests, LoadVerify(r) \/ LoadConfirm(r) \/ LoadResend(r) \/ LoadForgot(r)
        PROVE IInv'
    BY <1>4, <1>5 DEF LoadVerify, LoadConfirm, LoadResend, LoadForgot, Usable, Saving, CodeUses
  \* A Save of a loaded copy with a generated code or none.
  <1>6. ASSUME NEW r \in Requests, NEW step \in Saving, Finish(r, step),
               NEW m \in Row, NEW s \in Secrets,
               \/ Save(WithPassword(m, s)) /\ lastSecret' = s
               \/ Save(BeforeSave(m)) /\ UNCHANGED lastSecret,
               m.active => earned', earned => earned', earned' \in BOOLEAN,
               age' \in [Codes -> Ages],
               \A d \in Codes : age[d] # "unused" => age'[d] # "unused",
               m.code \in Codes => age'[m.code] # "unused",
               uses' \in [Codes -> [CodeUses -> Nat]]
        PROVE IInv'
    <2>1. /\ row' \in Row /\ row'.state = "live" /\ row'.active = m.active /\ row'.code = m.code
          /\ lastSecret' \in Secrets /\ OnlyLatestPasswordLogsIn'
      BY <1>6, SaveKeeps
    <2>2. /\ pc' \in [Requests -> Pending]
          /\ copy' \in [Requests -> Row \cup {NoModel}]
          /\ \A q \in Requests : pc'[q] # "idle" => pc'[q] = pc[q] /\ copy'[q] = copy[q]
      BY <1>6, FinishKeeps
    <2>3. CopiesOK'
      BY <1>6, <2>2, CopiesKeep
    <2>4. QED
      BY <1>6, <2>1, <2>2, <2>3 DEF IInv, TypeOK, ActivationEarned, CodeOK, AbsentOK
  <1>7. ASSUME NEW r \in Requests, NEW step \in Saving, Finish(r, step)
        PROVE  /\ copy[r] \in Row /\ (copy[r].active => earned) /\ CodeOK(copy[r])
               /\ step \in CodeUses => copy[r].code \in Codes
    BY <1>1, <1>7 DEF Finish, CopiesOK
  <1>8. ASSUME NEW r \in Requests, SaveVerify(r) PROVE IInv'
    <2> DEFINE m == [copy[r] EXCEPT !.verified = TRUE, !.active = TRUE, !.code = NoCode]
    <2>1. Finish(r, "verify") /\ Save(BeforeSave(m)) /\ UNCHANGED lastSecret
      BY <1>8 DEF SaveVerify
    <2>2. copy[r] \in Row /\ copy[r].code \in Codes
      BY <1>7, <2>1 DEF Saving, CodeUses
    <2>3. m \in Row /\ m.code \notin Codes
      BY <2>2, ConstantsAssumption DEF Row
    <2>4. uses' \in [Codes -> [CodeUses -> Nat]]
      BY <1>1, <1>8, <2>2 DEF SaveVerify, CodeUses
    <2> HIDE DEF m
    <2>5. QED
      BY <1>1, <1>6, <1>8, <2>1, <2>3, <2>4 DEF SaveVerify, Saving
  <1>9. ASSUME NEW r \in Requests, SaveResend(r) \/ SaveForgot(r) PROVE IInv'
    <2>1. PICK step \in {"resend", "forgot"} : Finish(r, step)
      BY <1>9 DEF SaveResend, SaveForgot
    <2>2. PICK c \in Codes : GenerateVerificationCode(c) /\ Save(BeforeSave([copy[r] EXCEPT !.code = c]))
      BY <1>9 DEF SaveResend, SaveForgot, SaveNewCode
    <2> DEFINE m == [copy[r] EXCEPT !.code = c]
    <2>3. copy[r] \in Row /\ (copy[r].active => earned)
      BY <1>7, <2>1 DEF Saving
    <2>4. m \in Row /\ m.code = c /\ m.active = copy[r].active
      BY <2>3 DEF Row
    <2>5. /\ age' \in [Codes -> Ages] /\ age'[c] # "unused"
          /\ \A d \in Codes : age[d] # "unused" => age'[d] # "unused"
      BY <2>2, GenerateKeeps
    <2>6. Save(BeforeSave(m))
      BY <2>2
    <2> HIDE DEF m
    <2>7. QED
      BY <1>1, <1>6, <1>9, <2>1, <2>3, <2>4, <2>5, <2>6 DEF SaveResend, SaveForgot, SaveNewCode, Saving
  <1>10. ASSUME NEW r \in Requests, SaveConfirm(r) PROVE IInv'
    <2>1. PICK s \in Secrets : Save(WithPassword([copy[r] EXCEPT !.code = NoCode], s)) /\ lastSecret' = s
      BY <1>10 DEF SaveConfirm
    <2> DEFINE m == [copy[r] EXCEPT !.code = NoCode]
    <2>2. Finish(r, "confirm")
      BY <1>10 DEF SaveConfirm
    <2>3. copy[r] \in Row /\ (copy[r].active => earned) /\ copy[r].code \in Codes
      BY <1>7, <2>2 DEF Saving, CodeUses
    <2>4. m \in Row /\ m.code \notin Codes /\ m.active = copy[r].active
      BY <2>3, ConstantsAssumption DEF Row
    <2>5. uses' \in [Codes -> [CodeUses -> Nat]]
      BY <1>1, <1>10, <2>3 DEF SaveConfirm, CodeUses
    <2>6. Save(WithPassword(m, s)) /\ lastSecret' = s
      BY <2>1
    <2> HIDE DEF m
    <2>7. QED
      BY <1>1, <1>6, <1>10, <2>2, <2>3, <2>4, <2>5, <2>6 DEF SaveConfirm, Saving
  <1>11. ASSUME NEW r \in Requests, SaveFails(r) PROVE IInv'
    <2>1. PICK step \in Pending \ {"idle"} : Finish(r, step)
      BY <1>11 DEF SaveFails
    <2>2. /\ pc' \in [Requests -> Pending]
          /\ copy' \in [Requests -> Row \cup {NoModel}]
          /\ pc'[r] = "idle"
          /\ \A q \in Requests : pc'[q] # "idle" => pc'[q] = pc[q] /\ copy'[q] = copy[q]
      BY <2>1, FinishKeeps
    <2>3. CopiesOK'
      BY <1>11, <2>2, CopiesKeep DEF SaveFails
    <2>4. AbsentOK'
      BY <1>1, <1>11, <2>2 DEF SaveFails, AbsentOK, Pending
    <2>5. QED
      BY <1>1, <1>11, <2>2, <2>3, <2>4
         DEF SaveFails, IInv, TypeOK, ActivationEarned, OnlyLatestPasswordLogsIn, CodeOK
  <1>12. ASSUME NEW m \in Row, SaveProfile(m), m.code = row.code, row.state = "live",
                UNCHANGED <<age, uses>>,
                pc' \in [Requests -> Pending], copy' \in [Requests -> Row \cup {NoModel}],
                \A q \in Requests : pc'[q] # "idle" => pc'[q] = pc[q] /\ copy'[q] = copy[q],
                earned' \in BOOLEAN, m.active => earned', earned => earned'
         PROVE IInv'
    <2>1. PICK s \in Secrets : \/ Save(WithPassword(m, s)) /\ lastSecret' = s
                               \/ Save(BeforeSave(m)) /\ UNCHANGED lastSecret
      BY <1>1, <1>12 DEF SaveProfile
    <2>2. /\ row' \in Row /\ row'.state = "live" /\ row'.active = m.active /\ row'.code = m.code
          /\ lastSecret' \in Secrets /\ OnlyLatestPasswordLogsIn'
      BY <2>1, SaveKeeps
    <2>3. CopiesOK'
      BY <1>12, CopiesKeep
    <2>4. QED
      BY <1>1, <1>12, <2>2, <2>3 DEF IInv, TypeOK, ActivationEarned, CodeOK, AbsentOK
  <1>13. ASSUME NEW r \in Requests, AdmitUpdate(r) \/ Update(r) PROVE IInv'
    <2>1. CASE AdmitUpdate(r)
      <3>1. pc' \in [Requests -> Pending] /\ CopiesOK'
        BY <1>1, <2>1 DEF AdmitUpdate, CopiesOK, CodeOK, Pending, Saving
      <3>2. QED
        BY <1>1, <2>1, <3>1
           DEF AdmitUpdate, IInv, TypeOK, ActivationEarned, OnlyLatestPasswordLogsIn, CodeOK, AbsentOK
    <2>2. CASE Update(r)
      <3>1. /\ pc' \in [Requests -> Pending]
            /\ copy' \in [Requests -> Row \cup {NoModel}]
            /\ \A q \in Requests : pc'[q] # "idle" => pc'[q] = pc[q] /\ copy'[q] = copy[q]
        BY <2>2, FinishKeeps DEF Update
      <3>2. QED
        BY <1>1, <1>12, <2>2, <3>1 DEF Update
    <2>3. QED
      BY <1>13, <2>1, <2>2
  <1>14. ASSUME NEW r \in Requests, AdminUpdate(r) PROVE IInv'
    <2>1. PICK active \in BOOLEAN :
            /\ SaveProfile([row EXCEPT !.active = active])
            /\ earned' = (earned \/ (active /\ ~row.active))
      BY <1>14 DEF AdminUpdate
    <2> DEFINE m == [row EXCEPT !.active = active]
    <2>2. m \in Row /\ m.code = row.code /\ m.active = active /\ SaveProfile(m)
      BY <1>1, <2>1 DEF Row
    <2> HIDE DEF m
    <2>3. QED
      BY <1>1, <1>12, <1>14, <2>1, <2>2 DEF AdminUpdate
  <1>15. ASSUME NEW r \in Requests, Delete(r) PROVE IInv'
    BY <1>1, <1>15 DEF Delete, IInv, TypeOK, Row, ActivationEarned, OnlyLatestPasswordLogsIn, CodeOK, CopiesOK, AbsentOK, Saving
  <1>16. ASSUME NEW c \in Codes, Grow(c) PROVE IInv'
    <2>1. /\ age' \in [Codes -> Ages]
          /\ \A d \in Codes : age[d] # "unused" => age'[d] # "unused"
      BY <1>1, <1>16 DEF Grow, Ages
    <2>2. CopiesOK'
      BY <1>16, <2>1, CopiesKeep DEF Grow
    <2>3. QED
      BY <1>1, <1>16, <2>1, <2>2
         DEF Grow, IInv, TypeOK, ActivationEarned, OnlyLatestPasswordLogsIn, CodeOK, AbsentOK
  <1>17. CASE UNCHANGED vars
    BY <1>17 DEF vars, IInv, TypeOK, ActivationEarned, OnlyLatestPasswordLogsIn, CodeOK, CopiesOK, AbsentOK
  <1>18. QED
    BY <1>2, <1>3, <1>5, <1>8, <1>9, <1>10, <1>11, <1>13, <1>14, <1>15, <1>16, <1>17 DEF Next

LEMMA Invariance == Spec => []IInv
  BY InitIInv, NextIInv, PTL DEF Spec

\* The variables keep their types.
THEOREM TypeCorrect == Spec => []TypeOK
  BY Invariance, PTL DEF IInv

\* No interleaving of stale whole-row Saves activates an account for which no
\* valid code was presented and which no admin activated.
THEOREM AccountsAreEarned == Spec => []ActivationEarned
  BY Invariance, PTL DEF IInv

\* A stale Save never brings an old password back to life: the BeforeSave
\* hook hashes the loaded hash again.
THEOREM OldPasswordsStayDead == Spec => []OnlyLatestPasswordLogsIn
  BY Invariance, PTL DEF IInv

-----------------------------------------------------------------------------

\* No step revives a dead code or accepts it.
LEMMA DeadStep ==
    ASSUME IInv, [Next]_vars, NEW c \in Codes, Dead(c)
    PROVE  Dead(c)' /\ uses'[c] = uses[c]
  <1>1. /\ age[c] # "unused"
        /\ row.code # c \/ age[c] = "expired"
        /\ \A r \in Requests : pc[r] \in CodeUses => copy[r].code # c
    BY DEF Dead
  <1>2. /\ row \in Row /\ age \in [Codes -> Ages] /\ pc \in [Requests -> Pending]
        /\ copy \in [Requests -> Row \cup {NoModel}]
        /\ uses \in [Codes -> [CodeUses -> Nat]] /\ CopiesOK
    BY DEF IInv, TypeOK
  <1> DEFINE Goal == Dead(c)' /\ uses'[c] = uses[c]
  \* Steps that put a code in the row only if it was unused before, and load nothing.
  <1>3. ASSUME row'.code # c \/ row'.code = row.code,
               age'[c] = age[c] \/ (age[c] # "unused" /\ age'[c] = "expired"),
               \A r \in Requests : pc'[r] \in CodeUses => pc[r] \in CodeUses /\ copy'[r] = copy[r],
               uses'[c] = uses[c]
        PROVE  Goal
    BY <1>1, <1>3 DEF Dead
  <1>4. ASSUME NEW r \in Requests, NEW step, Finish(r, step)
        PROVE  \A q \in Requests : pc'[q] \in CodeUses => pc[q] \in CodeUses /\ copy'[q] = copy[q]
    BY <1>4, FinishKeeps DEF CodeUses
  <1>5. ASSUME NEW d \in Codes, GenerateVerificationCode(d)
        PROVE  d # c /\ age'[c] = age[c]
    BY <1>1, <1>5, GenerateKeeps
  <1>6. ASSUME NEW m \in Row, NEW s \in Secrets, Save(WithPassword(m, s)) \/ Save(BeforeSave(m))
        PROVE  row'.code = m.code
    BY <1>6 DEF Save, WithPassword, BeforeSave, Row
  <1>7. ASSUME NEW r \in Requests, SignUp(r) PROVE Goal
    <2>1. PICK d \in Codes, s \in Secrets :
            GenerateVerificationCode(d) /\ Save(WithPassword([row EXCEPT !.code = d], s))
      BY <1>7 DEF SignUp
    <2>2. [row EXCEPT !.code = d] \in Row /\ [row EXCEPT !.code = d].code = d
      BY <1>2 DEF Row
    <2>3. row'.code = d /\ d # c /\ age'[c] = age[c]
      BY <1>5, <1>6, <2>1, <2>2
    <2>4. QED
      BY <1>3, <1>7, <2>3 DEF SignUp
  <1>8. ASSUME NEW r \in Requests, AdminCreate(r) PROVE Goal
    <2>1. PICK s \in Secrets, active \in BOOLEAN : Save(WithPassword([row EXCEPT !.active = active], s))
      BY <1>8 DEF AdminCreate
    <2>2. [row EXCEPT !.active = active] \in Row /\ [row EXCEPT !.active = active].code = row.code
      BY <1>2 DEF Row
    <2>3. row'.code = row.code
      BY <1>6, <2>1, <2>2
    <2>4. QED
      BY <1>3, <1>8, <2>3 DEF AdminCreate
  <1>9. ASSUME NEW r \in Requests, NEW step, Load(r, step), step \in CodeUses => Usable(row.code) PROVE Goal
    <2>1. \A q \in Requests : pc'[q] \in CodeUses => copy'[q].code # c
      BY <1>1, <1>2, <1>9 DEF Load, Usable
    <2>2. QED
      BY <1>1, <1>9, <2>1 DEF Load, Dead
  <1>10. ASSUME NEW r \in Requests, LoadVerify(r) \/ LoadConfirm(r) \/ LoadResend(r) \/ LoadForgot(r)
         PROVE Goal
    BY <1>9, <1>10 DEF LoadVerify, LoadConfirm, LoadResend, LoadForgot, CodeUses
  <1>11. ASSUME NEW r \in Requests, SaveVerify(r) \/ SaveConfirm(r) PROVE Goal
    <2>1. copy[r] \in Row /\ copy[r].code \in Codes /\ copy[r].code # c
      BY <1>1, <1>2, <1>11 DEF SaveVerify, SaveConfirm, Finish, CopiesOK, CodeUses, Saving
    <2>2. uses'[c] = uses[c]
      BY <1>2, <1>11, <2>1 DEF SaveVerify, SaveConfirm
    <2>3. row'.code = NoCode
      BY <1>11, <2>1 DEF SaveVerify, SaveConfirm, Save, WithPassword, BeforeSave, Row
    <2>4. \A q \in Requests : pc'[q] \in CodeUses => pc[q] \in CodeUses /\ copy'[q] = copy[q]
      BY <1>4, <1>11 DEF SaveVerify, SaveConfirm
    <2>5. QED
      BY <1>3, <1>11, <2>2, <2>3, <2>4, ConstantsAssumption DEF SaveVerify, SaveConfirm
  <1>12. ASSUME NEW r \in Requests, SaveResend(r) \/ SaveForgot(r) PROVE Goal
    <2>1. PICK step \in {"resend", "forgot"} : Finish(r, step)
      BY <1>12 DEF SaveResend, SaveForgot
    <2>2. PICK d \in Codes : GenerateVerificationCode(d) /\ Save(BeforeSave([copy[r] EXCEPT !.code = d]))
      BY <1>12 DEF SaveResend, SaveForgot, SaveNewCode
    <2>3. copy[r] \in Row
      BY <1>2, <2>1 DEF Finish, CopiesOK, Saving
    <2>4. row'.code = d
      BY <2>2, <2>3 DEF Save, BeforeSave, Row
    <2>5. d # c /\ age'[c] = age[c]
      BY <1>5, <2>2
    <2>6. \A q \in Requests : pc'[q] \in CodeUses => pc[q] \in CodeUses /\ copy'[q] = copy[q]
      BY <1>4, <2>1
    <2>7. QED
      BY <1>3, <1>12, <2>4, <2>5, <2>6 DEF SaveResend, SaveForgot, SaveNewCode
  <1>13. ASSUME NEW r \in Requests, SaveFails(r) PROVE Goal
    <2>1. PICK step \in Pending : Finish(r, step)
      BY <1>13 DEF SaveFails
    <2>2. QED
      BY <1>3, <1>4, <1>13, <2>1 DEF SaveFails
  <1>14. ASSUME NEW r \in Requests, Update(r) \/ AdminUpdate(r) PROVE Goal
    <2>0. \A q \in Requests : pc'[q] \in CodeUses => pc[q] \in CodeUses /\ copy'[q] = copy[q]
      BY <1>4, <1>14 DEF Update, AdminUpdate
    <2>1. row'.code = row.code
      BY <1>2, <1>14 DEF Update, AdminUpdate, SaveProfile, Save, WithPassword, BeforeSave, Row
    <2>2. QED
      BY <1>3, <1>14, <2>0, <2>1 DEF Update, AdminUpdate
  <1>19. ASSUME NEW r \in Requests, AdmitUpdate(r) PROVE Goal
    BY <1>2, <1>3, <1>19 DEF AdmitUpdate, CodeUses
  <1>15. ASSUME NEW r \in Requests, Delete(r) PROVE Goal
    <2>1. row'.code = row.code
      BY <1>2, <1>15 DEF Delete, Row
    <2>2. QED
      BY <1>3, <1>15, <2>1 DEF Delete
  <1>16. ASSUME NEW d \in Codes, Grow(d) PROVE Goal
    <2>1. age'[c] = age[c] \/ (age[c] = "new" /\ age'[c] = "old") \/ (age[c] = "old" /\ age'[c] = "expired")
      BY <1>2, <1>16 DEF Grow
    <2>2. QED
      BY <1>1, <1>16, <2>1 DEF Grow, Dead
  <1>17. CASE UNCHANGED vars
    BY <1>3, <1>17 DEF vars
  <1>18. QED
    BY <1>7, <1>8, <1>10, <1>11, <1>12, <1>13, <1>14, <1>15, <1>16, <1>17, <1>19 DEF Next

\* Replaced, consumed and expired codes are never accepted again, whatever
\* stale copies of the row are still to be saved.
THEOREM DeadCodesAreNeverAccepted == Spec => DeadCodesStayDead
  <1>1. IInv /\ [Next]_vars => [\A c \in Codes : Dead(c) => Dead(c)' /\ uses'[c] = uses[c]]_vars
    BY DeadStep
  <1>2. QED
    BY <1>1, Invariance, PTL DEF Spec, DeadCodesStayDead

-----------------------------------------------------------------------------
(* Requests about the account that are served one at a time. *)

Sequential == \A q, r \in Requests : q = r

\* Nobody changes the row between the load of a copy and its Save.
CopyIsRow ==
    \A r \in Requests : pc[r] \in Saving =>
        /\ copy[r] = row
        /\ row.state = "live"
        /\ pc[r] = "verify" => ~row.verified

\* A code that was accepted is not in the row any more and is not generated again.
UsedIsGone ==
    \A c \in Codes : uses[c]["verify"] + uses[c]["confirm"] > 0 =>
        row.code # c /\ age[c] # "unused"

\* The inductive invariant.
SeqInv ==
    /\ CopyIsRow
    /\ UsedIsGone
    /\ VerificationSticks
    /\ CodeUsedOnce
    /\ row.state = "absent" => ~row.verified

LEMMA InitSeqInv == Init => SeqInv
  BY DEF Init, SeqInv, CopyIsRow, UsedIsGone, VerificationSticks, CodeUsedOnce, Saving, CodeUses

\* The columns that Save writes.
LEMMA SaveColumns ==
    ASSUME NEW m \in Row, NEW s \in Secrets, Save(WithPassword(m, s)) \/ Save(BeforeSave(m))
    PROVE  /\ row'.state = "live"
           /\ row'.verified = m.verified
           /\ row'.active = m.active
           /\ row'.code = m.code
  BY DEF Save, WithPassword, BeforeSave, Row

\* Every statement of the request that is served, and time.
LEMMA NextSeqInv ==
    ASSUME IInv, SeqInv, Sequential, [Next]_vars
    PROVE  SeqInv'
  <1>1. /\ row \in Row /\ age \in [Codes -> Ages] /\ pc \in [Requests -> Pending]
        /\ copy \in [Requests -> Row \cup {NoModel}]
        /\ uses \in [Codes -> [CodeUses -> Nat]] /\ CopiesOK
    BY DEF IInv, TypeOK
  <1> USE DEF CodeUses
  \* A write that keeps what was verified and accepts no code.
  <1>2. ASSUME NEW r \in Requests, pc'[r] \notin Saving, UNCHANGED uses,
               row.verified => row'.verified,
               row'.state = "absent" => ~row'.verified,
               \A c \in Codes : age[c] # "unused" => age'[c] # "unused",
               \A c \in Codes : row'.code = c => row.code = c \/ age[c] = "unused"
        PROVE  SeqInv'
    <2>1. CopyIsRow'
      BY <1>2 DEF CopyIsRow, Sequential
    <2>2. UsedIsGone' /\ CodeUsedOnce'
      BY <1>2 DEF SeqInv, UsedIsGone, CodeUsedOnce
    <2>3. VerificationSticks'
      BY <1>2 DEF SeqInv, VerificationSticks
    <2>4. QED
      BY <1>2, <2>1, <2>2, <2>3 DEF SeqInv
  \* A load, or an end, that writes nothing.
  <1>3. ASSUME UNCHANGED <<row, uses>>, CopyIsRow',
               \A c \in Codes : age[c] # "unused" => age'[c] # "unused"
        PROVE  SeqInv'
    BY <1>3 DEF SeqInv, UsedIsGone, CodeUsedOnce, VerificationSticks
  \* A Save that accepts the code of its copy.
  <1>4. ASSUME NEW r \in Requests, NEW c \in Codes, NEW use \in CodeUses, pc'[r] \notin Saving,
               row.code = c, uses' = [uses EXCEPT ![c][use] = @ + 1], UNCHANGED age,
               row'.state = "live", row'.code \notin Codes,
               row.verified \/ use = "verify" => row'.verified
        PROVE  SeqInv'
    <2>1. CopyIsRow'
      BY <1>4 DEF CopyIsRow, Sequential
    <2>2. uses[c]["verify"] = 0 /\ uses[c]["confirm"] = 0
      <3>1. uses[c]["verify"] \in Nat /\ uses[c]["confirm"] \in Nat
        BY <1>1
      <3>2. ~(uses[c]["verify"] + uses[c]["confirm"] > 0)
        BY <1>4 DEF SeqInv, UsedIsGone
      <3>3. QED
        BY <3>1, <3>2
    <2>3. age[c] # "unused"
      BY <1>4 DEF IInv, CodeOK
    <2>4. /\ uses'[c]["verify"] + uses'[c]["confirm"] = 1
          /\ use # "verify" => uses'[c]["verify"] = 0
          /\ \A d \in Codes : d # c => uses'[d] = uses[d]
      BY <1>1, <1>4, <2>2
    <2>5. UsedIsGone' /\ CodeUsedOnce'
      BY <1>4, <2>3, <2>4 DEF SeqInv, UsedIsGone, CodeUsedOnce
    <2>6. VerificationSticks'
      BY <1>4, <2>4 DEF SeqInv, VerificationSticks
    <2>7. QED
      BY <1>4, <2>1, <2>5, <2>6 DEF SeqInv
  <1>5. ASSUME NEW r \in Requests, NEW step, Finish(r, step) PROVE pc'[r] = "idle"
    BY <1>1, <1>5 DEF Finish
  <1>6. ASSUME NEW r \in Requests, SignUp(r) PROVE SeqInv'
    <2>1. PICK c \in Codes, s \in Secrets :
            GenerateVerificationCode(c) /\ Save(WithPassword([row EXCEPT !.code = c], s))
      BY <1>6 DEF SignUp
    <2> DEFINE m == [row EXCEPT !.code = c]
    <2>2. m \in Row /\ m.code = c /\ m.verified = row.verified
      BY <1>1 DEF Row
    <2>3. Save(WithPassword(m, s))
      BY <2>1
    <2> HIDE DEF m
    <2>4. row'.state = "live" /\ row'.verified = row.verified /\ row'.code = c
      BY <2>2, <2>3, SaveColumns
    <2>5. age[c] = "unused" /\ \A d \in Codes : age[d] # "unused" => age'[d] # "unused"
      BY <2>1, GenerateKeeps
    <2>6. pc'[r] \notin Saving
      BY <1>6 DEF SignUp, Saving
    <2>7. QED
      BY <1>2, <1>6, <2>4, <2>5, <2>6 DEF SignUp
  <1>7. ASSUME NEW r \in Requests, AdminCreate(r) PROVE SeqInv'
    <2>1. PICK s \in Secrets, active \in BOOLEAN : Save(WithPassword([row EXCEPT !.active = active], s))
      BY <1>7 DEF AdminCreate
    <2> DEFINE m == [row EXCEPT !.active = active]
    <2>2. m \in Row /\ m.code = row.code /\ m.verified = row.verified
      BY <1>1 DEF Row
    <2>3. Save(WithPassword(m, s))
      BY <2>1
    <2> HIDE DEF m
    <2>4. row'.state = "live" /\ row'.verified = row.verified /\ row'.code = row.code
      BY <2>2, <2>3, SaveColumns
    <2>5. QED
      BY <1>2, <1>7, <2>4 DEF AdminCreate, Saving
  <1>8. ASSUME NEW r \in Requests, NEW step \in Saving, Load(r, step), step = "verify" => ~row.verified
        PROVE  SeqInv'
    BY <1>1, <1>3, <1>8 DEF Load, CopyIsRow, Sequential
  <1>9. ASSUME NEW r \in Requests, LoadVerify(r) \/ LoadConfirm(r) \/ LoadResend(r) \/ LoadForgot(r)
        PROVE  SeqInv'
    BY <1>8, <1>9 DEF LoadVerify, LoadConfirm, LoadResend, LoadForgot, Saving
  <1>10. ASSUME NEW r \in Requests, NEW step \in Saving, Finish(r, step)
         PROVE  copy[r] = row /\ (step \in CodeUses => row.code \in Codes)
    BY <1>1, <1>10 DEF Finish, SeqInv, CopyIsRow, CopiesOK
  <1>11. ASSUME NEW r \in Requests, SaveVerify(r) PROVE SeqInv'
    <2> DEFINE m == [row EXCEPT !.verified = TRUE, !.active = TRUE, !.code = NoCode]
    <2>1. Finish(r, "verify") /\ copy[r] = row /\ row.code \in Codes
      BY <1>10, <1>11 DEF SaveVerify, Saving
    <2>2. m \in Row /\ m.code = NoCode /\ m.verified
      BY <1>1 DEF Row
    <2>3. Save(BeforeSave(m))
      BY <1>11, <2>1 DEF SaveVerify
    <2> HIDE DEF m
    <2>4. row'.state = "live" /\ row'.verified = m.verified /\ row'.code = NoCode
      BY <2>2, <2>3 DEF Save, BeforeSave, Row
    <2>5. QED
      BY <1>4, <1>5, <1>11, <2>1, <2>2, <2>4, ConstantsAssumption DEF SaveVerify, Saving
  <1>12. ASSUME NEW r \in Requests, SaveConfirm(r) PROVE SeqInv'
    <2>1. Finish(r, "confirm") /\ copy[r] = row /\ row.code \in Codes
      BY <1>10, <1>12 DEF SaveConfirm, Saving
    <2>2. PICK s \in Secrets : Save(WithPassword([row EXCEPT !.code = NoCode], s))
      BY <1>12, <2>1 DEF SaveConfirm
    <2> DEFINE m == [row EXCEPT !.code = NoCode]
    <2>3. m \in Row /\ m.code = NoCode /\ m.verified = row.verified
      BY <1>1 DEF Row
    <2>4. Save(WithPassword(m, s))
      BY <2>2
    <2> HIDE DEF m
    <2>5. row'.state = "live" /\ row'.verified = row.verified /\ row'.code = NoCode
      BY <2>3, <2>4, SaveColumns
    <2>6. QED
      BY <1>4, <1>5, <1>12, <2>1, <2>5, ConstantsAssumption DEF SaveConfirm, Saving
  <1>13. ASSUME NEW r \in Requests, SaveResend(r) \/ SaveForgot(r) PROVE SeqInv'
    <2>1. PICK step \in {"resend", "forgot"} : Finish(r, step)
      BY <1>13 DEF SaveResend, SaveForgot
    <2>2. copy[r] = row
      BY <1>10, <2>1 DEF Saving
    <2>3. PICK c \in Codes : GenerateVerificationCode(c) /\ Save(BeforeSave([row EXCEPT !.code = c]))
      BY <1>13, <2>2 DEF SaveResend, SaveForgot, SaveNewCode
    <2> DEFINE m == [row EXCEPT !.code = c]
    <2>4. m \in Row /\ m.code = c /\ m.verified = row.verified
      BY <1>1 DEF Row
    <2>5. Save(BeforeSave(m))
      BY <2>3
    <2> HIDE DEF m
    <2>6. row'.state = "live" /\ row'.verified = row.verified /\ row'.code = c
      BY <2>4, <2>5 DEF Save, BeforeSave, Row
    <2>7. age[c] = "unused" /\ \A d \in Codes : age[d] # "unused" => age'[d] # "unused"
      BY <2>3, GenerateKeeps
    <2>8. UNCHANGED uses
      BY <1>13 DEF SaveResend, SaveForgot, SaveNewCode
    <2>9. pc'[r] \notin Saving
      BY <1>5, <2>1 DEF Saving
    <2>10. QED
      BY <1>2, <2>6, <2>7, <2>8, <2>9
  <1>14. ASSUME NEW r \in Requests, SaveFails(r) PROVE SeqInv'
    <2>1. pc'[r] = "idle"
      BY <1>5, <1>14 DEF SaveFails
    <2>2. QED
      BY <1>3, <1>14, <2>1 DEF SaveFails, CopyIsRow, Sequential, Saving
  <1>15. ASSUME NEW r \in Requests, Update(r) \/ AdminUpdate(r) PROVE SeqInv'
    <2>1. row'.state = "live" /\ row'.verified = row.verified /\ row'.code = row.code
      BY <1>1, <1>15 DEF Update, AdminUpdate, SaveProfile, Save, WithPassword, BeforeSave, Row
    <2>2. pc'[r] \notin Saving
      BY <1>5, <1>15 DEF Update, AdminUpdate, Saving
    <2>3. QED
      BY <1>2, <1>15, <2>1, <2>2 DEF Update, AdminUpdate
  <1>16. ASSUME NEW r \in Requests, AdmitUpdate(r) PROVE SeqInv'
    BY <1>1, <1>3, <1>16 DEF AdmitUpdate, CopyIsRow, Sequential, Saving
  <1>17. ASSUME NEW r \in Requests, Delete(r) PROVE SeqInv'
    <2>1. row'.state = "deleted" /\ row'.verified = row.verified /\ row'.code = row.code
      BY <1>1, <1>17 DEF Delete, Row
    <2>2. QED
      BY <1>2, <1>17, <2>1 DEF Delete, Saving
  <1>18. ASSUME NEW c \in Codes, Grow(c) PROVE SeqInv'
    <2>1. \A d \in Codes : age[d] # "unused" => age'[d] # "unused"
      BY <1>1, <1>18 DEF Grow
    <2>2. CopyIsRow'
      BY <1>18 DEF Grow, SeqInv, CopyIsRow
    <2>3. QED
      BY <1>3, <1>18, <2>1, <2>2 DEF Grow
  <1>19. CASE UNCHANGED vars
    BY <1>3, <1>19 DEF vars, SeqInv, CopyIsRow
  <1>20. QED
    BY <1>6, <1>7, <1>9, <1>11, <1>12, <1>13, <1>14, <1>15, <1>16, <1>17, <1>18, <1>19 DEF Next

LEMMA SequentialInvariance == ASSUME Sequential PROVE Spec => [](IInv /\ SeqInv)
  BY Invariance, InitSeqInv, NextSeqInv, PTL DEF Spec

\* Served one at a time, no request takes back a verification that was
\* answered with success.
THEOREM VerificationsStay == ASSUME Sequential PROVE Spec => []VerificationSticks
  BY SequentialInvariance, PTL DEF SeqInv

\* Served one at a time, no two requests succeed with the same code.
THEOREM CodesAreUsedOnce == ASSUME Sequential PROVE Spec => []CodeUsedOnce
  BY SequentialInvariance, PTL DEF SeqInv

\* What one step does to a row that exists: it stays deleted, and a
\* verified account is activated by an admin only.
LEMMA RowStep ==
    ASSUME IInv, SeqInv, Sequential, [Next]_vars
    PROVE  /\ row.state = "deleted" => row'.state = "deleted"
           /\ row.verified /\ ~row.active /\ row'.active => \E r \in Requests : AdminUpdate(r)
  <1> DEFINE Goal == /\ row.state = "deleted" => row'.state = "deleted"
                     /\ row.verified /\ ~row.active /\ row'.active => \E r \in Requests : AdminUpdate(r)
  <1>1. /\ row \in Row /\ pc \in [Requests -> Pending]
        /\ row.state = "absent" => ~row.verified
    BY DEF IInv, TypeOK, SeqInv
  <1>2. CASE UNCHANGED row
    BY <1>2
  <1>3. ASSUME NEW r \in Requests, SignUp(r) \/ AdminCreate(r) PROVE Goal
    BY <1>1, <1>3 DEF SignUp, AdminCreate
  \* A Save of a copy saves the row.
  <1>4. ASSUME NEW r \in Requests, NEW step \in Saving, Finish(r, step)
        PROVE  copy[r] = row /\ row.state = "live" /\ (step = "verify" => ~row.verified)
    BY <1>4 DEF Finish, SeqInv, CopyIsRow
  <1>5. ASSUME NEW r \in Requests, SaveVerify(r) PROVE Goal
    BY <1>4, <1>5 DEF SaveVerify, Saving
  <1>6. ASSUME NEW r \in Requests, SaveConfirm(r) PROVE Goal
    <2>1. copy[r] = row /\ row.state = "live"
      BY <1>4, <1>6 DEF SaveConfirm, Saving
    <2>2. row'.active = row.active
      BY <1>1, <1>6, <2>1 DEF SaveConfirm, Save, WithPassword, Row
    <2>3. QED
      BY <2>1, <2>2
  <1>7. ASSUME NEW r \in Requests, SaveResend(r) \/ SaveForgot(r) PROVE Goal
    <2>1. copy[r] = row /\ row.state = "live"
      BY <1>4, <1>7 DEF SaveResend, SaveForgot, Saving
    <2>2. row'.active = row.active
      BY <1>1, <1>7, <2>1 DEF SaveResend, SaveForgot, SaveNewCode, Save, BeforeSave, Row
    <2>3. QED
      BY <2>1, <2>2
  <1>8. ASSUME NEW r \in Requests, Update(r) PROVE Goal
    <2>1. row.state = "live" /\ row'.active = row.active
      BY <1>1, <1>8 DEF Update, SaveProfile, Save, WithPassword, BeforeSave, Row
    <2>2. QED
      BY <2>1
  <1>9. ASSUME NEW r \in Requests, AdminUpdate(r) PROVE Goal
    BY <1>9 DEF AdminUpdate
  <1>10. ASSUME NEW r \in Requests, Delete(r) PROVE Goal
    <2>1. row'.state = "deleted" /\ row'.active = row.active
      BY <1>1, <1>10 DEF Delete, Row
    <2>2. QED
      BY <2>1
  <1>11. ASSUME NEW r \in Requests,
                \/ LoadVerify(r) \/ LoadResend(r) \/ LoadForgot(r) \/ LoadConfirm(r)
                \/ SaveFails(r) \/ AdmitUpdate(r)
         PROVE  Goal
    BY <1>2, <1>11 DEF LoadVerify, LoadResend, LoadForgot, LoadConfirm, Load, SaveFails, AdmitUpdate
  <1>12. ASSUME NEW c \in Codes, Grow(c) PROVE Goal
    BY <1>2, <1>12 DEF Grow
  <1>13. CASE UNCHANGED vars
    BY <1>2, <1>13 DEF vars
  <1>14. QED
    BY <1>3, <1>5, <1>6, <1>7, <1>8, <1>9, <1>10, <1>11, <1>12, <1>13 DEF Next

\* Served one at a time, no request brings a deleted account back.
THEOREM DeletedAccountsStayDeleted == ASSUME Sequential PROVE Spec => DeletionSticks
  <1>1. IInv /\ SeqInv /\ [Next]_vars => [row.state = "deleted" => row'.state = "deleted"]_vars
    BY RowStep
  <1>2. QED
    BY <1>1, SequentialInvariance, PTL DEF Spec, DeletionSticks

\* Served one at a time, no request activates a verified account again that
\* an admin deactivated, except an admin's.
THEOREM DeactivatedAccountsStayInactive == ASSUME Sequential PROVE Spec => DeactivationSticks
  <1>1. IInv /\ SeqInv /\ [Next]_vars =>
          [row.verified /\ ~row.active /\ row'.active => \E r \in Requests : AdminUpdate(r)]_vars
    BY RowStep
  <1>2. QED
    BY <1>1, SequentialInvariance, PTL DEF Spec, DeactivationSticks

=============================================================================
