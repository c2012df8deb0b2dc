---------------------------- MODULE UserAccount ----------------------------
(***************************************************************************)
(* One account of internal/user: sign-up, e-mail verification, resend,     *)
(* forgotten password, profile update, and the admin's operations.         *)
(*                                                                         *)
(* Verify, Resend, ForgotPassword and ConfirmForgotPassword load the row,  *)
(* check it, and later Save the WHOLE loaded copy back; other requests run *)
(* in between.  Update and AdminUpdate read and write in one transaction:  *)
(* SQLite aborts it when another write slipped in, so they are one step.   *)
(***************************************************************************)
EXTENDS Naturals

CONSTANTS
    Requests,   \* requests about this account being served at the same time
    Codes,      \* verification codes that can be generated; bounds the resends
    Secrets,    \* passwords a client may choose
    NoCode,     \* VerificationCode = "" and VerificationCodeExpiresAt = NULL
    NoModel     \* a request that has loaded nothing

ASSUME ConstantsAssumption == NoCode \notin Codes

VARIABLES
    row,        \* the User row
    age,        \* of each code: how long ago it was generated
    pc, copy,   \* a request's pending Save, and the row as it loaded it
    earned,     \* history: a valid code was presented, or an admin activated
    uses,       \* history: how many requests of each kind succeeded with a code
    lastSecret  \* history: the password set last

vars == <<row, age, pc, copy, earned, uses, lastSecret>>

\* code stands for VerificationCode and its expiry, which are always written
\* together.  rehashed: the stored value is not a hash of the secret but a
\* hash of such a hash, so the secret no longer logs in.  Admin is left out:
\* it is read and written with Active and decides nothing here.
Row == [state: {"absent", "live", "deleted"},
        verified: BOOLEAN, active: BOOLEAN,
        code: Codes \cup {NoCode}, secret: Secrets, rehashed: BOOLEAN]

\* "new": more than 13 of its 15 minutes remain; "old": still valid.
Ages == {"unused", "new", "old", "expired"}

\* A request that waits to save its copy; "admitted": one that has passed
\* Protected() and loads nothing before its transaction.
Saving == {"verify", "resend", "forgot", "confirm"}

Pending == Saving \cup {"idle", "admitted"}

CodeUses == {"verify", "confirm"}

Usable(c) == c \in Codes /\ age[c] \in {"new", "old"}

TypeOK ==
    /\ row \in Row
    /\ age \in [Codes -> Ages]
    /\ pc \in [Requests -> Pending]
    /\ copy \in [Requests -> Row \cup {NoModel}]
    /\ earned \in BOOLEAN
    /\ uses \in [Codes -> [CodeUses -> Nat]]
    /\ lastSecret \in Secrets

Init ==
    /\ lastSecret \in Secrets
    /\ row = [state |-> "absent", verified |-> FALSE, active |-> FALSE, code |-> NoCode,
              secret |-> lastSecret, rehashed |-> FALSE]
    /\ age = [c \in Codes |-> "unused"]
    /\ pc = [r \in Requests |-> "idle"]
    /\ copy = [r \in Requests |-> NoModel]
    /\ earned = FALSE
    /\ uses = [c \in Codes |-> [k \in CodeUses |-> 0]]

-----------------------------------------------------------------------------
(* gorm's Save and the model's hooks. *)

\* BeforeSave hashes whatever the Password field holds: a plain password that
\* was just assigned, or the hash that was loaded.
WithPassword(m, s) == [m EXCEPT !.secret = s, !.rehashed = FALSE]
\* Variant with a bug: an already hashed password is left alone, although
\* the copy that is saved may be stale.
KeepHash(m) == m

BeforeSave(m) == [m EXCEPT !.rehashed = TRUE]

\* Save writes every column.  When the row was soft-deleted meanwhile the
\* UPDATE matches nothing and Save falls back to INSERT ... ON CONFLICT DO
\* UPDATE of all columns: either way the row becomes the model.
Save(m) == row' = [m EXCEPT !.state = "live"]

\* A code never generated before (one of 900000, assumed not to repeat).
GenerateVerificationCode(c) ==
    /\ age[c] = "unused"
    /\ age' = [age EXCEPT ![c] = "new"]

\* Variant with a bug: the read is Unscoped.
LoadUnscoped(r, step) ==
    /\ pc[r] = "idle"
    /\ row.state # "absent"
    /\ pc' = [pc EXCEPT ![r] = step]
    /\ copy' = [copy EXCEPT ![r] = row]
    /\ UNCHANGED <<row, age, earned, uses, lastSecret>>

Load(r, step) ==
    /\ pc[r] = "idle"
    /\ row.state = "live"
    /\ pc' = [pc EXCEPT ![r] = step]
    /\ copy' = [copy EXCEPT ![r] = row]
    /\ UNCHANGED <<row, age, earned, uses, lastSecret>>

Finish(r, step) ==
    /\ pc[r] = step
    /\ pc' = [pc EXCEPT ![r] = "idle"]
    /\ copy' = [copy EXCEPT ![r] = NoModel]

\* A transaction or Save that returns an error leaves the row as it was (so
\* does an Update that no longer finds its row).
SaveFails(r) ==
    /\ \E step \in Pending \ {"idle"} : Finish(r, step)
    /\ UNCHANGED <<row, age, earned, uses, lastSecret>>

-----------------------------------------------------------------------------
(* Creation. *)

\* Variant with a bug: Active is taken from the form.
SignUpFromForm(r) ==
    /\ pc[r] = "idle"
    /\ row.state = "absent"
    /\ \E c \in Codes, s \in Secrets, active \in BOOLEAN :
         /\ GenerateVerificationCode(c)
         /\ Save(WithPassword([row EXCEPT !.code = c, !.active = active], s))
         /\ lastSecret' = s
    /\ UNCHANGED <<pc, copy, earned, uses>>

SignUp(r) ==
    /\ pc[r] = "idle"
    /\ row.state = "absent"
    /\ \E c \in Codes, s \in Secrets :
         /\ GenerateVerificationCode(c)
         /\ Save(WithPassword([row EXCEPT !.code = c], s))
         /\ lastSecret' = s
    /\ UNCHANGED <<pc, copy, earned, uses>>

AdminCreate(r) ==
    /\ pc[r] = "idle"
    /\ row.state = "absent"
    /\ \E s \in Secrets, active \in BOOLEAN :
         /\ Save(WithPassword([row EXCEPT !.active = active], s))
         /\ lastSecret' = s
         /\ earned' = active
    /\ UNCHANGED <<age, pc, copy, uses>>

-----------------------------------------------------------------------------
(* E-mail verification. *)

\* Variant with a bug: a verified account is verified again, with any code.
LoadVerifyAgain(r) == Usable(row.code) /\ Load(r, "verify")

LoadVerify(r) ==
    /\ ~row.verified
    /\ Usable(row.code)
    /\ Load(r, "verify")

\* Variant with a bug: EmailVerifiedAt is not set.
SaveVerifyOnlyActive(r) ==
    /\ Finish(r, "verify")
    /\ Save(BeforeSave([copy[r] EXCEPT !.active = TRUE, !.code = NoCode]))
    /\ earned' = TRUE
    /\ uses' = [uses EXCEPT ![copy[r].code]["verify"] = @ + 1]
    /\ UNCHANGED <<age, lastSecret>>

SaveVerify(r) ==
    /\ Finish(r, "verify")
    /\ Save(BeforeSave([copy[r] EXCEPT !.verified = TRUE, !.active = TRUE, !.code = NoCode]))
    /\ earned' = TRUE
    /\ uses' = [uses EXCEPT ![copy[r].code]["verify"] = @ + 1]
    /\ UNCHANGED <<age, lastSecret>>

\* Two minutes must have passed since the outstanding code was generated.
CooledDown(c) == c \in Codes => age[c] # "new"

LoadResend(r) ==
    /\ ~row.verified
    /\ CooledDown(row.code)
    /\ Load(r, "resend")

SaveNewCode(r) ==
    /\ \E c \in Codes :
         /\ GenerateVerificationCode(c)
         /\ Save(BeforeSave([copy[r] EXCEPT !.code = c]))
    /\ UNCHANGED <<earned, uses, lastSecret>>

SaveResend(r) == Finish(r, "resend") /\ SaveNewCode(r)

-----------------------------------------------------------------------------
(* Forgotten password. *)

LoadForgot(r) == CooledDown(row.code) /\ Load(r, "forgot")

SaveForgot(r) == Finish(r, "forgot") /\ SaveNewCode(r)

\* Variant with a bug: the expiry is not looked at.
LoadConfirmExpired(r) == row.code \in Codes /\ Load(r, "confirm")

LoadConfirm(r) == Usable(row.code) /\ Load(r, "confirm")

\* Variant with a bug: the code stays in the row.
SaveConfirmKeepingCode(r) ==
    /\ Finish(r, "confirm")
    /\ \E s \in Secrets :
         /\ Save(WithPassword(copy[r], s))
         /\ lastSecret' = s
    /\ uses' = [uses EXCEPT ![copy[r].code]["confirm"] = @ + 1]
    /\ UNCHANGED <<age, earned>>

SaveConfirm(r) ==
    /\ Finish(r, "confirm")
    /\ \E s \in Secrets :
         /\ Save(WithPassword([copy[r] EXCEPT !.code = NoCode], s))
         /\ lastSecret' = s
    /\ uses' = [uses EXCEPT ![copy[r].code]["confirm"] = @ + 1]
    /\ UNCHANGED <<age, earned>>

-----------------------------------------------------------------------------
(* Operations whose effect is one step. *)

\* A loaded row saved with or without a new password, in one transaction.
SaveProfile(m) ==
    \/ \E s \in Secrets : Save(WithPassword(m, s)) /\ lastSecret' = s
    \/ Save(BeforeSave(m)) /\ UNCHANGED lastSecret

\* Protected() lets the owner of an active, undeleted account through; what
\* other requests do before the transaction is not looked at again.
AdmitUpdate(r) ==
    /\ pc[r] = "idle"
    /\ row.state = "live"
    /\ row.active
    /\ pc' = [pc EXCEPT ![r] = "admitted"]
    /\ UNCHANGED <<row, age, copy, earned, uses, lastSecret>>

Update(r) ==
    /\ Finish(r, "admitted")
    /\ row.state = "live"
    /\ SaveProfile(row)
    /\ UNCHANGED <<age, earned, uses>>

AdminUpdate(r) ==
    /\ pc[r] = "idle"
    /\ row.state = "live"
    /\ \E active \in BOOLEAN :
         /\ SaveProfile([row EXCEPT !.active = active])
         /\ earned' = (earned \/ (active /\ ~row.active))
    /\ UNCHANGED <<age, pc, copy, uses>>

\* Variant with a bug: the row itself is deleted.
HardDelete(r) ==
    /\ pc[r] = "idle"
    /\ row.state = "live"
    /\ row' = NoModel
    /\ UNCHANGED <<age, pc, copy, earned, uses, lastSecret>>

Delete(r) ==
    /\ pc[r] = "idle"
    /\ row.state = "live"
    /\ row' = [row EXCEPT !.state = "deleted"]
    /\ UNCHANGED <<age, pc, copy, earned, uses, lastSecret>>

\* Time passes for a code: two minutes, then fifteen.
Grow(c) ==
    /\ \/ age[c] = "new" /\ age' = [age EXCEPT ![c] = "old"]
       \/ age[c] = "old" /\ age' = [age EXCEPT ![c] = "expired"]
    /\ UNCHANGED <<row, pc, copy, earned, uses, lastSecret>>

Next ==
    \/ \E r \in Requests :
         \/ SignUp(r) \/ AdminCreate(r)
         \/ LoadVerify(r) \/ SaveVerify(r)
         \/ LoadResend(r) \/ SaveResend(r)
         \/ LoadForgot(r) \/ SaveForgot(r)
         \/ LoadConfirm(r) \/ SaveConfirm(r)
         \/ SaveFails(r)
         \/ AdmitUpdate(r) \/ Update(r) \/ AdminUpdate(r) \/ Delete(r)
    \/ \E c \in Codes : Grow(c)

Spec == Init /\ [][Next]_vars

-----------------------------------------------------------------------------
(* What holds however the requests interleave. *)

\* An account is active only if somebody presented a valid code for it or an
\* admin activated it: no stale copy activates it by itself.
ActivationEarned == row.active => earned

\* The password that logs in, if one does, is the one set last: although
\* stale Saves write old passwords back, they never make one valid again.
OnlyLatestPasswordLogsIn ==
    row.state = "live" /\ ~row.rehashed => row.secret = lastSecret

\* A code that was replaced, consumed or has expired, and that no request
\* accepted before that and is still to act on.
Dead(c) ==
    /\ age[c] # "unused"
    /\ row.code # c \/ age[c] = "expired"
    /\ \A r \in Requests : pc[r] \in CodeUses => copy[r].code # c

\* README "old one invalidated", "15-minute expiry": a dead code stays dead,
\* whatever copies of the row with that code in it are still to be saved.
DeadCodesStayDead ==
    [][\A c \in Codes : Dead(c) => Dead(c)' /\ uses'[c] = uses[c]]_vars

(* What holds only while requests about the account are served one by one. *)

\* An account whose verification was answered with success stays verified.
VerificationSticks == (\E c \in Codes : uses[c]["verify"] > 0) => row.verified

\* Each code is accepted once, for a verification or for a reset
\* (TestConfirmForgotPassword_CodeCannotBeReused).
CodeUsedOnce == \A c \in Codes : uses[c]["verify"] + uses[c]["confirm"] <= 1

\* A deleted account stays deleted.
DeletionSticks == [][row.state = "deleted" => row'.state = "deleted"]_vars

\* A verified account an admin deactivated is active again only when an
\* admin says so.
DeactivationSticks ==
    [][row.verified /\ ~row.active /\ row'.active => \E r \in Requests : AdminUpdate(r)]_vars

(* What the code does not keep at all. *)

\* The password set last logs in.
LatestPasswordLogsIn ==
    row.state = "live" => row.secret = lastSecret /\ ~row.rehashed
=============================================================================
