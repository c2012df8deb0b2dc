----------------------- MODULE RotationPolicyProofs -----------------------
(***************************************************************************)
(* Proofs about RotationPolicy: what the README's rotation means for the   *)
(* tokens that clients hold, for any tokens and any users.                 *)
(***************************************************************************)
EXTENDS RotationPolicy, TLAPS

\* The inductive invariant: whatever is usable has been issued.
PolicyInv ==
    /\ DOMAIN owner = DOMAIN live
    /\ exchanging \subseteq DOMAIN live
    /\ DOMAIN live \subseteq issued
    /\ \A s \in DOMAIN live : live[s] \subseteq issued
    /\ live = [s \in DOMAIN live |-> live[s]]
    /\ owner = [s \in DOMAIN live |-> owner[s]]
    /\ OneUsableToken

LEMMA PolicyInitInv == PolicyInit => PolicyInv
  BY DEF PolicyInit, PolicyInv, OneUsableToken

\* A step that only takes usable tokens away.
LEMMA TakingAway ==
    ASSUME PolicyInv, DOMAIN live' = DOMAIN live, UNCHANGED <<owner, issued>>,
           live' = [s \in DOMAIN live |-> live'[s]],
           \A s \in DOMAIN live : live'[s] \subseteq live[s],
           exchanging' \subseteq DOMAIN live,
           \A s \in exchanging' : live'[s] = {}
    PROVE  PolicyInv'
  <1>1. OneUsableToken'
    BY DEF PolicyInv, OneUsableToken
  <1>2. QED
    BY <1>1 DEF PolicyInv

LEMMA PolicyNextInv == PolicyInv /\ [PolicyNext]_policyVars => PolicyInv'
  <1> SUFFICES ASSUME PolicyInv, [PolicyNext]_policyVars PROVE PolicyInv'
    OBVIOUS
  <1>1. ASSUME NEW s \in Tokens, NEW u \in Owners, Open(s, u) PROVE PolicyInv'
    <2>1. /\ DOMAIN live' = DOMAIN live \cup {s} /\ DOMAIN owner' = DOMAIN live \cup {s}
          /\ live'[s] = {s} /\ \A x \in DOMAIN live : x # s /\ live'[x] = live[x]
          /\ live' = [x \in DOMAIN live' |-> live'[x]] /\ owner' = [x \in DOMAIN live' |-> owner'[x]]
          /\ issued' = issued \cup {s} /\ s \notin issued /\ exchanging' = exchanging
      BY <1>1 DEF Open, PolicyInv
    <2>2. OneUsableToken'
      BY <2>1 DEF PolicyInv, OneUsableToken
    <2>3. QED
      BY <2>1, <2>2 DEF PolicyInv
  <1>2. ASSUME NEW s \in DOMAIN live, Consume(s) \/ Abandon(s) \/ Expire(s) PROVE PolicyInv'
    <2>1. /\ DOMAIN live' = DOMAIN live /\ UNCHANGED <<owner, issued>>
          /\ live' = [x \in DOMAIN live |-> live'[x]]
          /\ \A x \in DOMAIN live : live'[x] = live[x] \/ live'[x] = {}
          /\ exchanging' \subseteq exchanging \cup {s}
          /\ s \in exchanging' => s \in exchanging \/ live'[s] = {}
      BY <1>2 DEF Consume, Abandon, Expire, PolicyInv
    <2>2. \A x \in exchanging' : live'[x] = {}
      BY <2>1 DEF PolicyInv, OneUsableToken
    <2>3. QED
      BY <2>1, <2>2, TakingAway DEF PolicyInv
  <1>3. ASSUME NEW s \in DOMAIN live, NEW t \in Tokens, Issue(s, t) PROVE PolicyInv'
    <2>1. /\ DOMAIN live' = DOMAIN live /\ owner' = owner /\ issued' = issued \cup {t}
          /\ t \notin issued /\ live'[s] = {t}
          /\ \A x \in DOMAIN live : x # s => live'[x] = live[x]
          /\ live' = [x \in DOMAIN live |-> live'[x]]
          /\ exchanging' = exchanging \ {s}
      BY <1>3 DEF Issue
    <2>2. OneUsableToken'
      BY <2>1 DEF PolicyInv, OneUsableToken
    <2>3. QED
      BY <2>1, <2>2 DEF PolicyInv
  <1>4. ASSUME NEW u \in Owners, EndAll(u) PROVE PolicyInv'
    <2>1. /\ DOMAIN live' = DOMAIN live /\ UNCHANGED <<owner, issued>>
          /\ live' = [x \in DOMAIN live |-> live'[x]]
          /\ \A x \in DOMAIN live : live'[x] = live[x] \/ live'[x] = {}
          /\ exchanging' \subseteq exchanging
      BY <1>4 DEF EndAll
    <2>2. QED
      BY <2>1, TakingAway DEF PolicyInv, OneUsableToken
  <1>5. CASE UNCHANGED policyVars
    BY <1>5 DEF policyVars, PolicyInv, OneUsableToken
  <1>6. QED
    BY <1>1, <1>2, <1>3, <1>4, <1>5 DEF PolicyNext

LEMMA PolicyInvariance == PolicySpec => []PolicyInv
  BY PolicyInitInv, PolicyNextInv, PTL DEF PolicySpec

\* README "Rotation": a session has one usable token at most, and none while
\* the consumed one is being replaced (service.go 129-182).
THEOREM PolicyOneUsable == PolicySpec => []OneUsableToken
  BY PolicyInvariance, PTL DEF PolicyInv

LEMMA SpentStep ==
    ASSUME PolicyInv, [PolicyNext]_policyVars
    PROVE  \A t \in issued \ Usable : t \notin Usable'
  <1>1. ASSUME \A s \in DOMAIN live' : \A t \in live'[s] :
                  t \notin issued \/ (s \in DOMAIN live /\ t \in live[s])
        PROVE  \A t \in issued \ Usable : t \notin Usable'
    BY <1>1 DEF Usable
  <1>2. ASSUME NEW s \in Tokens, NEW u \in Owners, Open(s, u)
        PROVE  \A t \in issued \ Usable : t \notin Usable'
    BY <1>1, <1>2 DEF Open
  <1>3. ASSUME NEW s \in DOMAIN live, Consume(s) \/ Abandon(s) \/ Expire(s)
        PROVE  \A t \in issued \ Usable : t \notin Usable'
    BY <1>1, <1>3 DEF Consume, Abandon, Expire
  <1>4. ASSUME NEW s \in DOMAIN live, NEW t \in Tokens, Issue(s, t)
        PROVE  \A x \in issued \ Usable : x \notin Usable'
    BY <1>1, <1>4 DEF Issue
  <1>5. ASSUME NEW u \in Owners, EndAll(u)
        PROVE  \A t \in issued \ Usable : t \notin Usable'
    BY <1>1, <1>5 DEF EndAll
  <1>6. CASE UNCHANGED policyVars
    BY <1>6 DEF policyVars, Usable
  <1>7. QED
    BY <1>2, <1>3, <1>4, <1>5, <1>6 DEF PolicyNext

\* A consumed, expired or revoked token is never accepted again.
THEOREM PolicySpentStaysSpent == PolicySpec => SpentStaysSpent
  <1>1. PolicyInv /\ [PolicyNext]_policyVars =>
          [\A t \in issued \ Usable : t \notin Usable']_policyVars
    BY SpentStep
  <1>2. QED
    BY <1>1, PolicyInvariance, PTL DEF PolicySpec, SpentStaysSpent

LEMMA EndedStep ==
    ASSUME PolicyInv, [PolicyNext]_policyVars, NEW s \in DOMAIN live
    PROVE  /\ live[s] = {} /\ s \notin exchanging => live'[s] = {} /\ s \notin exchanging'
           /\ owner'[s] = owner[s]
  <1>1. ASSUME NEW z \in Tokens, NEW u \in Owners, Open(z, u)
        PROVE  live'[s] = live[s] /\ exchanging' = exchanging /\ owner'[s] = owner[s]
    BY <1>1 DEF Open, PolicyInv
  <1>2. ASSUME NEW z \in DOMAIN live, Consume(z) \/ Abandon(z) \/ Expire(z)
        PROVE  /\ owner' = owner
               /\ live[s] = {} /\ s \notin exchanging => live'[s] = {} /\ s \notin exchanging'
    BY <1>2 DEF Consume, Abandon, Expire
  <1>3. ASSUME NEW z \in DOMAIN live, NEW t \in Tokens, Issue(z, t)
        PROVE  /\ owner' = owner
               /\ live[s] = {} /\ s \notin exchanging => live'[s] = {} /\ s \notin exchanging'
    BY <1>3 DEF Issue
  <1>4. ASSUME NEW u \in Owners, EndAll(u)
        PROVE  /\ owner' = owner
               /\ live[s] = {} /\ s \notin exchanging => live'[s] = {} /\ s \notin exchanging'
    BY <1>4 DEF EndAll
  <1>5. CASE UNCHANGED policyVars
    BY <1>5 DEF policyVars
  <1>6. QED
    BY <1>1, <1>2, <1>3, <1>4, <1>5 DEF PolicyNext

\* README "Reuse detection": the sessions that reuse has ended never come
\* back (service.go 140-143).
THEOREM PolicyEndedStaysEnded == PolicySpec => EndedStaysEnded
  <1>1. PolicyInv /\ [PolicyNext]_policyVars =>
          [\A s \in DOMAIN live :
             /\ live[s] = {} /\ s \notin exchanging => live'[s] = {} /\ s \notin exchanging'
             /\ owner'[s] = owner[s]]_policyVars
    BY EndedStep
  <1>2. QED
    BY <1>1, PolicyInvariance, PTL DEF PolicySpec, EndedStaysEnded
=============================================================================
