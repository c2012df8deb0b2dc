----------------------------- MODULE AccessGate -----------------------------
(***************************************************************************)
(* shared/middleware: Protected and IsAdmin in front of the handlers, and  *)
(* the logout of internal/auth behind them.  The gate reads the blacklist  *)
(* and the user in separate statements, and nothing is read again once the *)
(* handler runs.  Administrators change the user meanwhile.                *)
(***************************************************************************)
CONSTANTS
    Requests,   \* requests of one user
    Tokens      \* access tokens of that user, none of them expired

ASSUME GateAssumption == Tokens # {}

VARIABLES
    user,       \* the user's row
    blacklist,  \* the tokens in BlacklistToken
    gate,       \* the requests
    dead,       \* the tokens that an answer called logged out or deleted
    bars        \* the reasons to refuse a request that have held all along

gateVars == <<user, blacklist, gate, dead, bars>>

Reasons == {"dead token", "inactive", "deleted", "no admin"}

Routes == {"plain", "admin", "logout"}

Idle == [pc |-> "idle", token |-> CHOOSE t \in Tokens : TRUE, route |-> "plain"]

GateTypeOK ==
    /\ user \in [active : BOOLEAN, deleted : BOOLEAN, admin : BOOLEAN]
    /\ blacklist \subseteq Tokens
    /\ gate \in [Requests ->
          [pc : {"idle", "token", "active", "deleted", "expel", "admin", "inside", "activity"},
           token : Tokens, route : Routes]]
    /\ dead \subseteq Tokens
    /\ bars \in [Requests -> SUBSET Reasons]

GateInit ==
    /\ user = [active |-> TRUE, deleted |-> FALSE, admin |-> TRUE]
    /\ blacklist = {}
    /\ gate = [r \in Requests |-> Idle]
    /\ dead = {}
    /\ bars = [r \in Requests |-> {}]

-----------------------------------------------------------------------------
Goto(r, pc) == gate' = [gate EXCEPT ![r].pc = pc]

\* The request is answered.
Done(r) == gate' = [gate EXCEPT ![r] = Idle]

Arrive(r) ==
    /\ gate[r].pc = "idle"
    /\ \E token \in Tokens, route \in Routes :
         gate' = [gate EXCEPT ![r] = [pc |-> "token", token |-> token, route |-> route]]
    /\ UNCHANGED <<user, blacklist, dead>>

\* Variant with a bug: the token is not looked up for administrators.
ListedUnlessAdmin(r) == gate[r].token \in blacklist /\ gate[r].route # "admin"

Listed(r) == gate[r].token \in blacklist

\* One read each; a row that is found ends the request with 401, and so does
\* an error of the query with 500.
CheckToken(r) ==
    /\ gate[r].pc = "token"
    /\ \/ ~Listed(r) /\ Goto(r, "active")
       \/ Done(r)
    /\ UNCHANGED <<user, blacklist, dead>>

CheckActive(r) ==
    /\ gate[r].pc = "active"
    /\ \/ user.active /\ Goto(r, "deleted")
       \/ Done(r)
    /\ UNCHANGED <<user, blacklist, dead>>

\* Users are never removed from the table, so the row always exists.
CheckDeleted(r) ==
    /\ gate[r].pc = "deleted"
    /\ \/ user.deleted /\ Goto(r, "expel")
       \/ ~user.deleted /\ Goto(r, IF gate[r].route = "admin" THEN "admin" ELSE "inside")
       \/ Done(r)
    /\ UNCHANGED <<user, blacklist, dead>>

\* The token of a deleted user is blacklisted, on which the answer is
\* "Deleted account"; or the insert fails.
Expel(r) ==
    /\ gate[r].pc = "expel"
    /\ \/ blacklist' = blacklist \cup {gate[r].token} /\ dead' = dead \cup {gate[r].token}
       \/ UNCHANGED <<blacklist, dead>>
    /\ Done(r)
    /\ UNCHANGED user

\* IsAdmin: a live row with the flag set.
CheckAdmin(r) ==
    /\ gate[r].pc = "admin"
    /\ \/ user.admin /\ ~user.deleted /\ Goto(r, "inside")
       \/ Done(r)
    /\ UNCHANGED <<user, blacklist, dead>>

\* The handler of another route answers.
Answer(r) ==
    /\ gate[r].pc = "inside" /\ gate[r].route # "logout"
    /\ Done(r)
    /\ UNCHANGED <<user, blacklist, dead>>

\* Logout: CreateBlacklistToken is not part of the transaction ...
Logout(r) ==
    /\ gate[r].pc = "inside" /\ gate[r].route = "logout"
    /\ \/ Goto(r, "activity") /\ blacklist' = blacklist \cup {gate[r].token}
       \/ Done(r) /\ UNCHANGED blacklist
    /\ UNCHANGED <<user, dead>>

\* ... so the token stays there when the activity fails and the answer is 500.
LogoutActivity(r) ==
    /\ gate[r].pc = "activity"
    /\ dead' \in {dead, dead \cup {gate[r].token}}
    /\ Done(r)
    /\ UNCHANGED <<user, blacklist>>

\* An administrator activates, deactivates, deletes or restores the user, or
\* changes the flag; UserAccount has the handlers.
Administrate ==
    /\ \E field \in {"active", "deleted", "admin"} : user' = [user EXCEPT ![field] = ~@]
    /\ UNCHANGED <<blacklist, gate, dead>>

\* The reasons to refuse the request now.
Held(r) ==
    {reason \in Reasons :
       \/ reason = "dead token" /\ gate[r].token \in dead
       \/ reason = "inactive" /\ ~user.active
       \/ reason = "deleted" /\ user.deleted
       \/ reason = "no admin" /\ gate[r].route = "admin" /\ ~user.admin}

\* The reasons that hold since the request arrived.
Track ==
    bars' = [r \in Requests |-> IF gate[r].pc = "idle" THEN Held(r)' ELSE bars[r] \cap Held(r)']

GateStep(r) ==
    \/ Arrive(r) \/ CheckToken(r) \/ CheckActive(r) \/ CheckDeleted(r) \/ Expel(r)
    \/ CheckAdmin(r) \/ Answer(r) \/ Logout(r) \/ LogoutActivity(r)

GateNext == (Administrate \/ \E r \in Requests : GateStep(r)) /\ Track

GateSpec == GateInit /\ [][GateNext]_gateVars

-----------------------------------------------------------------------------
\* No handler runs for a request that there was one and the same reason to
\* refuse all the time since it arrived: a token that an answer called dead,
\* an inactive or deleted user, a flag that is not set.  A reason that comes
\* or goes meanwhile may be missed, and a logout answered with 500 counts as
\* none, although the token is dead.
NoBarredEntry == \A r \in Requests : gate[r].pc = "inside" => bars[r] = {}
=============================================================================
