-------------------------- MODULE SealSettlementGate --------------------------
(***************************************************************************)
(* The SealSettlementGate contract (contracts/src/SealSettlementGate.sol): *)
(* a payment corridor (payer, payee) may settle while it holds a clearance *)
(* backed by a Digital Seal that is still active on the Aethelred chain.   *)
(*                                                                         *)
(* The seals live outside the repository (interfaces/ISeal.sol): consensus *)
(* activates them, revokes them and lets them expire.  A seal's purpose,   *)
(* fixed when it is minted, names the one corridor it is for.              *)
(***************************************************************************)
EXTENDS Naturals

CONSTANTS
    Payers, Payees,       \* the ends of corridors
    Seals,                \* seal identifiers
    Purpose,              \* seal -> the corridor it was minted for
    NoSeal,               \* sealId of an absent clearance
    Policies,             \* each policy: the set of seals that satisfy it
    GatePauses            \* values the gate's pause flag may take

Corridors == Payers \X Payees

ASSUME GateAssumption ==
    /\ Purpose \in [Seals -> Corridors] /\ NoSeal \notin Seals
    /\ Policies \subseteq SUBSET Seals /\ Policies # {}
    /\ GatePauses \subseteq BOOLEAN

VARIABLES
    clearances,       \* corridor -> Clearance
    sealUsed,         \* the seals that have admitted a clearance
    policy,           \* the seals that satisfy the current CEAP policy
    gatePaused,
    sealStatus        \* seal -> its status on the Aethelred chain

gateVars == <<clearances, sealUsed, policy, gatePaused, sealStatus>>

SealStatus == {"pending", "active", "revoked", "expired"}
Clearance  == [sealId: Seals \cup {NoSeal}, exists: BOOLEAN, revoked: BOOLEAN]
NoClearance == [sealId |-> NoSeal, exists |-> FALSE, revoked |-> FALSE]

GateInit ==
    /\ clearances = [k \in Corridors |-> NoClearance]
    /\ sealUsed = {}
    /\ policy \in Policies
    /\ gatePaused = FALSE
    /\ sealStatus = [s \in Seals |-> "pending"]

verifySeal(s) == s \in Seals /\ sealStatus[s] = "active"

isCleared(payer, payee) ==
    LET c == clearances[<<payer, payee>>] IN
    c.exists /\ ~c.revoked /\ verifySeal(c.sealId)

requireCleared(payer, payee) == ~gatePaused /\ isCleared(payer, payee)
-----------------------------------------------------------------------------
\* Mutant: marks the corridor, not the seal, as used.
AdmitUnmarked(payer, payee, s) ==
    /\ sealUsed' = sealUsed \cup {<<payer, payee>>}
    /\ clearances' = [clearances EXCEPT ![<<payer, payee>>] =
                        [sealId |-> s, exists |-> TRUE, revoked |-> FALSE]]
    /\ UNCHANGED <<policy, gatePaused, sealStatus>>

\* The corridor is cleared on the strength of seal s.
Admit(payer, payee, s) ==
    /\ sealUsed' = sealUsed \cup {s}
    /\ clearances' = [clearances EXCEPT ![<<payer, payee>>] =
                        [sealId |-> s, exists |-> TRUE, revoked |-> FALSE]]
    /\ UNCHANGED <<policy, gatePaused, sealStatus>>

\* Mutant: the slot of a corridor that is not cleared now may be written again.
clearAgain(payer, payee, s) ==
    /\ ~gatePaused
    /\ ~isCleared(payer, payee)
    /\ s \notin sealUsed /\ verifySeal(s) /\ Purpose[s] = <<payer, payee>> /\ s \in policy
    /\ Admit(payer, payee, s)

\* Mutant: the purpose of the seal is not compared with the corridor.
clearAnyCorridor(payer, payee, s) ==
    /\ ~gatePaused
    /\ ~clearances[<<payer, payee>>].exists
    /\ s \notin sealUsed /\ verifySeal(s) /\ s \in policy
    /\ Admit(payer, payee, s)

\* Anyone; s is the seal of the screening job that is named.
clear(payer, payee, s) ==
    /\ ~gatePaused
    /\ ~clearances[<<payer, payee>>].exists
    /\ s \notin sealUsed
    /\ verifySeal(s)
    /\ Purpose[s] = <<payer, payee>>
    /\ s \in policy
    /\ Admit(payer, payee, s)

revoke(payer, payee) ==
    /\ clearances[<<payer, payee>>].exists
    /\ clearances' = [clearances EXCEPT ![<<payer, payee>>].revoked = TRUE]
    /\ UNCHANGED <<sealUsed, policy, gatePaused, sealStatus>>

setCompliancePolicy(p) ==
    /\ policy' = p
    /\ UNCHANGED <<clearances, sealUsed, gatePaused, sealStatus>>

SetGatePaused ==
    /\ gatePaused' \in GatePauses \ {gatePaused}
    /\ UNCHANGED <<clearances, sealUsed, policy, sealStatus>>

\* Consensus moves a seal along; revocation and expiry are final.
SealMoves(s) ==
    /\ \/ sealStatus[s] = "pending" /\ \E t \in {"active", "revoked"} :
              sealStatus' = [sealStatus EXCEPT ![s] = t]
       \/ sealStatus[s] = "active" /\ \E t \in {"revoked", "expired"} :
              sealStatus' = [sealStatus EXCEPT ![s] = t]
    /\ UNCHANGED <<clearances, sealUsed, policy, gatePaused>>

GateCall ==
    \/ \E payer \in Payers, payee \in Payees :
          revoke(payer, payee) \/ \E s \in Seals : clear(payer, payee, s)
    \/ \E p \in Policies : setCompliancePolicy(p)
    \/ SetGatePaused
    \/ \E s \in Seals : SealMoves(s)

GateSpec == GateInit /\ [][GateCall]_gateVars
-----------------------------------------------------------------------------
\* The types of the gate's storage.
GateTypeOK ==
    /\ clearances \in [Corridors -> Clearance]
    /\ sealUsed \subseteq Seals /\ policy \in Policies
    /\ gatePaused \in BOOLEAN
    /\ sealStatus \in [Seals -> SealStatus]

\* Every clearance rests on a used seal of its own corridor, and no seal
\* carries two corridors, in either direction (SealSettlementGate.sol:57-60,
\* 117-137).
SealCarriesOneCorridor ==
    \A k, m \in Corridors : clearances[k].exists =>
        /\ clearances[k].sealId \in sealUsed /\ Purpose[clearances[k].sealId] = k
        /\ clearances[m].exists /\ clearances[m].sealId = clearances[k].sealId => k = m

\* A corridor that was open and is closed by a revocation, of its clearance or
\* of its seal, or by the expiry of its seal, stays closed for ever, although
\* clear is permissionless and further seals may be minted for the corridor
\* (SealSettlementGate.sol:98-116, 170-182).  Only the gate's pause reopens.
ClosedForGood ==
    [][\A k \in Corridors :
        clearances[k].exists /\ ~isCleared(k[1], k[2]) => ~isCleared(k[1], k[2])']_gateVars
=============================================================================
