-------------------------- MODULE BusinessMirror --------------------------
(***************************************************************************)
(* The backend's row of one business: created when its registration is     *)
(* proved (services/business-registration.ts), moved along when an         *)
(* operator reports a later transaction of BusinessRegistry about it       *)
(* (services/business-reconciliation.ts).  A transaction carries the state *)
(* it left the business in, which the backend reads at that very block; a  *)
(* block holds one of them, so a transaction's place is its block's time.  *)
(* A registration is signed over a wallet challenge, good for one use; the *)
(* default API key it issues is named here by that challenge.              *)
(***************************************************************************)
EXTENDS Requests, SequencesExt

CONSTANTS
    Challenges,     \* wallet challenges the business is given
    TopTier         \* tiers are 0 (STANDARD) .. TopTier

ASSUME MirrorAssumption == TopTier \in Nat

VARIABLES
    business,   \* the row: status, tier and lastVerified (0: never)
    keys,       \* active default API keys
    used,       \* challenges consumed
    history     \* the business's audit entries with a transaction hash

mirrorVars == <<business, keys, used, history>>

NoRegistration == [status |-> "NONE", tier |-> 0, verified |-> 0]
Registration == [status |-> "PENDING", tier |-> 0, verified |-> 0]
States == [status : {"NONE", "PENDING", "VERIFIED", "SUSPENDED", "REVOKED"},
           tier : 0..TopTier, verified : 0..MaxMined]

MirrorInit ==
    /\ business = NoRegistration
    /\ keys = {} /\ used = {}
    /\ history = <<>>

MirrorTypeOK ==
    /\ business \in States
    /\ keys \subseteq used /\ used \subseteq Challenges
    /\ history \in Seq(Receipts)

----------------------------------------------------------------------------
(* The registry: one business's lifecycle. *)

\* Its state as transaction i left it.
StateAt(i) == IF i = 0 THEN NoRegistration ELSE mined[i].state

RegistryDoes(op, from, state) ==
    /\ StateAt(Len(mined)).status \in from
    /\ Mine([op |-> op, state |-> state])
    /\ UNCHANGED mirrorVars

RegistryStep ==
    LET now == StateAt(Len(mined))
        time == Len(mined) + 1
    IN
    \/ RegistryDoes("register", {"NONE"}, Registration)
    \/ RegistryDoes("verify", {"PENDING", "VERIFIED"},
                    [now EXCEPT !.status = "VERIFIED", !.verified = time])
    \/ \E t \in now.tier + 1..TopTier :
          RegistryDoes("upgrade", {"VERIFIED"}, [now EXCEPT !.tier = t])
    \/ RegistryDoes("suspend", {"VERIFIED"}, [now EXCEPT !.status = "SUSPENDED"])
    \/ RegistryDoes("reinstate", {"SUSPENDED"},
                    [now EXCEPT !.status = "VERIFIED", !.verified = time])
    \/ RegistryDoes("revoke", {"PENDING", "VERIFIED", "SUSPENDED"},
                    [now EXCEPT !.status = "REVOKED"])

----------------------------------------------------------------------------
(* Registration. *)

IsReceipt(op, i) == i \in Canonical /\ mined[i].op = op

\* An unexpired challenge for just this registration, not used so far, ...
ChallengeOpen(c) == c \in Challenges \ used

\* ... the signature of it, and a confirmed receipt; then call and event.
RegistrationProved(i) == IsReceipt("register", i)

ProveRegistration(w, c, i) ==
    /\ req[w] = Idle /\ ChallengeOpen(c)
    /\ RegistrationProved(i) /\ mined[i].state = Registration
    /\ Goto(w, [at |-> "finalize registration", challenge |-> c, tx |-> i])
    /\ UNCHANGED <<mined, deep, trail, mirrorVars>>

\* Mutant: a retry adds a key to those already issued
KeysAfterRetry(c) == keys \cup {c}

KeysIssued(c) == {c}

\* One serializable transaction: consume the challenge, create the row or find
\* it, retire the default keys of an earlier attempt, issue one.
FinalizeRegistration(w) ==
    LET c == req[w].challenge
    IN
    /\ At(w, "finalize registration") /\ c \notin used
    /\ used' = used \cup {c}
    /\ IF business = NoRegistration
       THEN business' = Registration /\ history' = Append(history, req[w].tx)
       ELSE UNCHANGED <<business, history>>
    /\ keys' = KeysIssued(c)
    /\ Done(w) /\ UNCHANGED <<mined, deep, trail>>

----------------------------------------------------------------------------
(* Reconciliation: a transaction is proved against the row as read first.  *)

Proved(w, op, i, from, update) ==
    /\ req[w] = Idle /\ business # NoRegistration
    /\ IsReceipt(op, i)
    /\ Goto(w, [at |-> "persist", tx |-> i, from |-> from, update |-> update])
    /\ UNCHANGED <<mined, deep, trail, mirrorVars>>

SameTier(i) == mined[i].state.tier = business.tier
SameVerification(i) == mined[i].state.verified = business.verified

InStatus(status) == {s \in States : s.status \in status}

ReconcileVerification(w, i) ==
    Proved(w, "verify", i, InStatus({"PENDING", "VERIFIED"}), {"status", "verified"}) /\ SameTier(i)

ReconcileTierUpgrade(w, i) ==
    /\ Proved(w, "upgrade", i,
              {s \in InStatus({"VERIFIED"}) : s.tier = StateAt(i - 1).tier}, {"tier"})
    /\ SameVerification(i)

ReconcileSuspension(w, i) ==
    Proved(w, "suspend", i, InStatus({"VERIFIED"}), {"status"}) /\ SameTier(i) /\ SameVerification(i)

ReconcileReinstatement(w, i) ==
    Proved(w, "reinstate", i, InStatus({"SUSPENDED"}), {"status", "verified"}) /\ SameTier(i)

ReconcileRevocation(w, i) ==
    /\ Proved(w, "revoke", i, {s \in States : s.status # "REVOKED"}, {"status"})
    /\ SameTier(i) /\ SameVerification(i)

\* Mutant: the business's own audit entries are not searched
NeverSearched(i) == FALSE

AlreadyApplied(i) == Contains(history, i)

\* One serializable transaction, refused unless the row is in the transition's
\* prior state; the row and its audit entry are written together.
PersistTransition(w) ==
    LET i == req[w].tx
        to == [f \in DOMAIN business |->
                  IF f \in req[w].update THEN mined[i].state[f] ELSE business[f]]
    IN
    /\ At(w, "persist")
    /\ IF AlreadyApplied(i)
       THEN UNCHANGED <<business, keys, history>>
       ELSE /\ business \in req[w].from
            /\ business' = to
            /\ keys' = IF mined[i].op = "revoke" THEN {} ELSE keys
            /\ history' = Append(history, i)
    /\ Done(w) /\ UNCHANGED <<mined, deep, trail, used>>

MirrorNext ==
    \/ RegistryStep
    \/ \E w \in Workers :
          \/ FinalizeRegistration(w) \/ PersistTransition(w)
          \/ \E i \in Receipts :
                \/ \E c \in Challenges : ProveRegistration(w, c, i)
                \/ ReconcileVerification(w, i) \/ ReconcileTierUpgrade(w, i)
                \/ ReconcileSuspension(w, i) \/ ReconcileReinstatement(w, i)
                \/ ReconcileRevocation(w, i)
    \/ (RequestStep \/ ChainStep) /\ UNCHANGED mirrorVars

MirrorSpec == RequestsInit /\ MirrorInit /\ [][MirrorNext]_<<shared, mirrorVars>>

----------------------------------------------------------------------------
(* Properties. *)

\* However registrations and reports race and are retried, a confirmed
\* transaction moves the row once: its audit entries name distinct receipts,
\* the registration first.
AppliedOnce ==
    /\ IsInjective(history)
    /\ \A k \in DOMAIN history : history[k] \in Canonical
    /\ business # NoRegistration => mined[Head(history)].op = "register"

\* Signed retries of a registration rotate the default key: at most one is
\* active.
OneDefaultKey == Cardinality(keys) <= 1

\* However reports and registrations are repeated and race, each counts once
\* (services/business-registration.ts, business-reconciliation.ts).
MirrorHolds == AppliedOnce /\ OneDefaultKey
=============================================================================
