----------------------------- MODULE Admission -----------------------------
(***************************************************************************)
(* Who is let in (routes/auth.ts, middleware/auth.ts and rbac.ts).         *)
(*                                                                         *)
(* Sessions: a wallet signs a challenge for a session whose token holds    *)
(* the role it was given; every later request reads the standing of the    *)
(* business and its ADMIN_ROLE from BusinessRegistry at the head again.    *)
(* seen is a history variable: the standings of the request's lifetime.    *)
(*                                                                         *)
(* Rate limits, shared by all instances of the backend (the stores and     *)
(* limiters of middleware/auth.ts): each request counts itself in the row  *)
(* of its key's fixed window and deletes rows long expired.  Instances'    *)
(* clocks differ, and a request may be slow between reading its clock and  *)
(* counting itself: together they stay within one window, the database's   *)
(* transactions being cut off well before (a window is a minute long).     *)
(***************************************************************************)
EXTENDS Requests, SequencesExt

CONSTANTS
    SignIns,        \* wallet challenges of purpose AUTHENTICATION
    Limit,          \* requests per key and window
    LastWindow      \* bound: windows the clocks run through

ASSUME LimitAssumption == Limit \in Nat \ {0} /\ LastWindow \in Nat

VARIABLES
    standing,   \* at the chain's head: is the business active, is it an admin
    issued,     \* challenges, by state
    sessions,   \* tokens issued and not expired: challenge and role
    apiKey,     \* is the business's API key active
    window,     \* the window the fastest clock is in
    counts,     \* the rows: window -> count
    admitted    \* history: requests let through, per window

sessionVars == <<standing, issued, sessions, apiKey>>
limitVars == <<window, counts, admitted>>

Standings == [active : BOOLEAN, admin : BOOLEAN]
Roles == {"SUPER_ADMIN", "ADMIN"}
RoleIn(s) == IF s.admin THEN "SUPER_ADMIN" ELSE "ADMIN"

SessionInit ==
    /\ standing = [active |-> TRUE, admin |-> FALSE]
    /\ issued = [c \in SignIns |-> "none"]
    /\ sessions = <<>> /\ apiKey = TRUE

SessionTypeOK ==
    /\ standing \in Standings
    /\ issued \in [SignIns -> {"none", "open", "used", "expired"}]
    /\ sessions \in Seq([challenge : SignIns, role : Roles])
    /\ apiKey \in BOOLEAN

----------------------------------------------------------------------------
(* What happens meanwhile. *)

\* The registry suspends, reinstates, lapses, grants or revokes the role.
StandingChanges ==
    /\ standing' \in Standings \ {standing}
    /\ req' = [w \in Workers |->
                 IF req[w] = Idle THEN Idle
                 ELSE [req[w] EXCEPT !.seen = @ \cup {standing'}]]
    /\ UNCHANGED <<mined, deep, trail, issued, sessions, apiKey>>

ChallengeExpires(c) ==
    /\ issued[c] = "open" /\ issued' = [issued EXCEPT ![c] = "expired"]
    /\ UNCHANGED <<shared, standing, sessions, apiKey>>

SessionExpires ==
    /\ \E k \in DOMAIN sessions : sessions' = RemoveAt(sessions, k)
    /\ UNCHANGED <<shared, standing, issued, apiKey>>

KeyRevoked ==
    /\ apiKey /\ apiKey' = FALSE
    /\ UNCHANGED <<shared, standing, issued, sessions>>

----------------------------------------------------------------------------
(* Signing in. *)

Continue(w, step) ==
    Goto(w, [req[w] EXCEPT !.at = step]) /\ UNCHANGED <<mined, deep, trail, sessionVars>>

\* POST /auth/challenge: only for a business active just then.
IssueChallenge(c) ==
    /\ issued[c] = "none" /\ standing.active
    /\ issued' = [issued EXCEPT ![c] = "open"]
    /\ UNCHANGED <<shared, standing, sessions, apiKey>>

\* POST /auth/verify: the challenge as it is now, then the signature, ...
VerifyChallenge(w, c) ==
    /\ req[w] = Idle /\ issued[c] = "open"
    /\ Goto(w, [at |-> "sign in", challenge |-> c, role |-> "ADMIN", seen |-> {standing}])
    /\ UNCHANGED <<mined, deep, trail, sessionVars>>

\* ... the standing, ...
SignInStanding(w) ==
    /\ At(w, "sign in") /\ standing.active
    /\ Goto(w, [req[w] EXCEPT !.at = "consume challenge", !.role = RoleIn(standing)])
    /\ UNCHANGED <<mined, deep, trail, sessionVars>>

\* Mutant: the challenge is marked used whatever it is by now
ConsumedAnyway(c) == TRUE

\* updateMany ... where usedAt is null and it has not expired.
Consumable(c) == issued[c] = "open"

\* ... then the challenge is consumed, and the session's token is signed.
ConsumeChallenge(w) ==
    LET c == req[w].challenge IN
    /\ At(w, "consume challenge") /\ Consumable(c)
    /\ issued' = [issued EXCEPT ![c] = "used"]
    /\ sessions' = Append(sessions, [challenge |-> c, role |-> req[w].role])
    /\ Done(w) /\ UNCHANGED <<mined, deep, trail, standing, apiKey>>

----------------------------------------------------------------------------
(* Being admitted. *)

\* authenticateAPIKey: a session's token, or an API key, which is an ADMIN's.
Arrive(w) ==
    /\ req[w] = Idle
    /\ \E role \in {sessions[k].role : k \in DOMAIN sessions}
                       \cup IF apiKey THEN {"ADMIN"} ELSE {} :
          Goto(w, [at |-> "authenticate", role |-> role, seen |-> {standing}])
    /\ UNCHANGED <<mined, deep, trail, sessionVars>>

\* Mutant: the role is the token's
RoleOfToken(w) == req[w].role

\* Administration follows the registry; other roles are the token's.
RoleAdmitted(w) == RoleIn(standing)

Authenticate(w) ==
    /\ At(w, "authenticate") /\ standing.active
    /\ Goto(w, [req[w] EXCEPT !.at = "authorize", !.role = RoleAdmitted(w)])
    /\ UNCHANGED <<mined, deep, trail, sessionVars>>

\* requirePermission, for a route open to every role of a business ...
AdmitTenant(w) == At(w, "authorize") /\ Continue(w, "tenant handler")

\* ... requireCurrentPlatformAdmin: the role again, with no look at active.
AdmitPlatformAdmin(w) ==
    /\ At(w, "authorize") /\ req[w].role = "SUPER_ADMIN" /\ standing.admin
    /\ Continue(w, "admin handler")

\* ... revalidatePlatformAdmin: any tenant, or an administrator still one.
AdmitOwnerOrAdmin(w) ==
    /\ At(w, "authorize") /\ (req[w].role = "SUPER_ADMIN" => standing.admin)
    /\ Continue(w, IF req[w].role = "SUPER_ADMIN" THEN "cross-tenant handler" ELSE "tenant handler")

Logout(w) == At(w, "tenant handler") /\ Done(w) /\ UNCHANGED <<mined, deep, trail, sessionVars>>

SessionNext ==
    \/ StandingChanges \/ SessionExpires \/ KeyRevoked
    \/ \E c \in SignIns : ChallengeExpires(c) \/ IssueChallenge(c)
    \/ \E w \in Workers :
          \/ \E c \in SignIns : VerifyChallenge(w, c)
          \/ SignInStanding(w) \/ ConsumeChallenge(w)
          \/ Arrive(w) \/ Authenticate(w)
          \/ AdmitTenant(w) \/ AdmitPlatformAdmin(w) \/ AdmitOwnerOrAdmin(w)
          \/ Logout(w)
    \/ RequestStep /\ UNCHANGED sessionVars

----------------------------------------------------------------------------
(* Properties. *)

\* A signed challenge opens one session, however many copies of it arrive.
OneSessionPerChallenge ==
    \A j, k \in DOMAIN sessions :
        sessions[j].challenge = sessions[k].challenge => j = k

Handlers == {"tenant handler", "admin handler", "cross-tenant handler"}

\* A handler that runs was let in on a standing of the request's own lifetime:
\* a token or key outlives neither its business's good standing nor the
\* administrator role it was signed with.
AdmittedInStanding ==
    \A w \in Workers : req[w].at \in Handlers =>
        \E s \in req[w].seen :
            s.active /\ (req[w].at # "tenant handler" => s.admin)

----------------------------------------------------------------------------
(* Throttling. *)

Windows == 0..LastWindow
MaxCount == Limit + 1   \* bound: requests counted in one row

LimitInit ==
    /\ window = 0
    /\ counts = <<>>
    /\ admitted = [k \in Windows |-> 0]

LimitTypeOK ==
    /\ window \in Windows
    /\ DOMAIN counts \subseteq Windows
    /\ admitted \in [Windows -> Nat]

\* Lag and slowness together: no request in flight is two windows behind.
TickClock ==
    /\ window < LastWindow
    /\ \A w \in Workers : req[w] # Idle => req[w].window >= window
    /\ window' = window + 1
    /\ UNCHANGED <<shared, counts, admitted>>

\* A request reads its instance's clock and opens the transaction.
OpenWindow(w) ==
    /\ req[w] = Idle
    /\ \E k \in {k \in Windows : window \in {k, k + 1}} : Goto(w, [at |-> "delete expired", window |-> k])
    /\ UNCHANGED <<mined, deep, trail, limitVars>>

\* Mutant: a row is deleted once its window is over
OverNow(k, w) == k + 1 <= req[w].window

\* deleteMany ... expiresAt < windowStart; window k expires where k + 1 starts.
Expired(k, w) == k + 1 < req[w].window

DeleteExpired(w) ==
    /\ At(w, "delete expired")
    /\ counts' = [k \in {k \in DOMAIN counts : ~Expired(k, w)} |-> counts[k]]
    /\ Goto(w, [req[w] EXCEPT !.at = "count"])
    /\ UNCHANGED <<mined, deep, trail, window, admitted>>

Refused(count) == count > Limit

\* upsert: the row is created with 1 or incremented; its count decides.
Consume(w) ==
    LET k == req[w].window
        count == IF k \in DOMAIN counts THEN counts[k] + 1 ELSE 1
    IN
    /\ At(w, "count") /\ count <= MaxCount
    /\ counts' = [j \in DOMAIN counts \cup {k} |-> IF j = k THEN count ELSE counts[j]]
    /\ admitted' = IF Refused(count) THEN admitted ELSE [admitted EXCEPT ![k] = @ + 1]
    /\ Done(w) /\ UNCHANGED <<mined, deep, trail, window>>

LimitNext ==
    \/ TickClock
    \/ \E w \in Workers : OpenWindow(w) \/ DeleteExpired(w) \/ Consume(w)
    \/ RequestStep /\ UNCHANGED limitVars

\* However many instances count, and whatever their clocks, a key is let
\* through at most Limit times in a window.
WithinLimit == \A k \in Windows : admitted[k] <= Limit
=============================================================================
