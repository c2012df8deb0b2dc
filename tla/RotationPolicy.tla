-------------------------- MODULE RotationPolicy --------------------------
(***************************************************************************)
(* What the README promises of refresh tokens ("Rotation", "Reuse          *)
(* detection"), without requests or statements: a session has at most one  *)
(* usable token; an exchange consumes it before the next one is issued;    *)
(* reuse ends the sessions of the user.                                    *)
(***************************************************************************)
CONSTANTS Tokens, Owners

VARIABLES
    live,       \* session |-> its usable tokens; a session is named by its first token
    owner,      \* session |-> the user who logged in
    exchanging, \* sessions whose token is consumed and not yet replaced
    issued      \* every token there has been

policyVars == <<live, owner, exchanging, issued>>

PolicyInit ==
    /\ live = [s \in {} |-> {}]
    /\ owner = [s \in {} |-> {}]
    /\ exchanging = {}
    /\ issued = {}

Open(s, u) ==
    /\ s \notin issued
    /\ live' = [x \in DOMAIN live \cup {s} |-> IF x = s THEN {s} ELSE live[x]]
    /\ owner' = [x \in DOMAIN live \cup {s} |-> IF x = s THEN u ELSE owner[x]]
    /\ issued' = issued \cup {s}
    /\ UNCHANGED exchanging

Consume(s) ==
    /\ live[s] # {}
    /\ s \notin exchanging
    /\ live' = [live EXCEPT ![s] = {}]
    /\ exchanging' = exchanging \cup {s}
    /\ UNCHANGED <<owner, issued>>

Issue(s, t) ==
    /\ s \in exchanging
    /\ t \notin issued
    /\ live[s] = {}
    /\ live' = [live EXCEPT ![s] = {t}]
    /\ exchanging' = exchanging \ {s}
    /\ issued' = issued \cup {t}
    /\ UNCHANGED owner

\* The account is gone: the consumed token is not replaced.
Abandon(s) ==
    /\ exchanging' = exchanging \ {s}
    /\ UNCHANGED <<live, owner, issued>>

Expire(s) ==
    /\ live' = [live EXCEPT ![s] = {}]
    /\ UNCHANGED <<owner, exchanging, issued>>

\* Reuse: every session of the user ends, an exchange under way included.
EndAll(u) ==
    /\ live' = [s \in DOMAIN live |-> IF owner[s] = u THEN {} ELSE live[s]]
    /\ exchanging' = {s \in exchanging : owner[s] # u}
    /\ UNCHANGED <<owner, issued>>

PolicyNext ==
    \/ \E s \in Tokens, u \in Owners : Open(s, u)
    \/ \E s \in DOMAIN live :
         \/ Consume(s) \/ Abandon(s) \/ Expire(s)
         \/ \E t \in Tokens : Issue(s, t)
    \/ \E u \in Owners : EndAll(u)

PolicySpec == PolicyInit /\ [][PolicyNext]_policyVars

-----------------------------------------------------------------------------
(* What follows for the clients. *)

\* Nobody holds two usable tokens of a session, and no token is of two
\* sessions; while an exchange is under way there is none at all.
OneUsableToken ==
    /\ \A s, z \in DOMAIN live : \A a \in live[s], b \in live[z] : s = z <=> a = b
    /\ \A s \in exchanging : live[s] = {}

Usable == UNION {live[s] : s \in DOMAIN live}

\* A token that is consumed, expired or revoked is never usable again, in
\* its own session or in any other, whatever is issued later.
SpentStaysSpent == [][\A t \in issued \ Usable : t \notin Usable']_policyVars

\* A session without a usable token, and not about to get one, has ended for
\* ever; and no session changes hands.
EndedStaysEnded ==
    [][\A s \in DOMAIN live :
         /\ live[s] = {} /\ s \notin exchanging => live'[s] = {} /\ s \notin exchanging'
         /\ owner'[s] = owner[s]]_policyVars
=============================================================================
