------------------------------- MODULE SignerSet -------------------------------
(***************************************************************************)
(* Who may vote in the treasury (contracts/src/MultiSigTreasury.sol): the  *)
(* signers, in an enumerable array with an index beside the access-control *)
(* role; the approval thresholds; and the delegates who vote for a signer. *)
(*                                                                         *)
(* A delegation is kept as the time that is left until validUntil: -1 is   *)
(* strictly after it.                                                      *)
(***************************************************************************)
EXTENDS Integers, Sequences, FiniteSets

CONSTANTS
    People, None,            \* addresses; address(0)
    Founders,                \* the constructor's _initialSigners
    Thresholds,              \* offered thresholds, [TxTier -> Nat]
    Delegates, Durations,    \* offered delegates and delegation periods
    MAX_DELEGATION_PERIOD,
    Irregular,               \* holders of SIGNER_ROLE that AccessControl may change
    MaxSigners               \* bound on the array of signers

TxTier == {"SMALL", "MEDIUM", "LARGE", "EMERGENCY"}

ASSUME SignerAssumption ==
    /\ None \notin People /\ IsFiniteSet(People) /\ Irregular \subseteq People
    /\ Founders \in Seq(People) /\ Len(Founders) >= 2
    /\ \A i, j \in 1 .. Len(Founders) : Founders[i] = Founders[j] => i = j
    /\ Thresholds \subseteq [TxTier -> Nat]
    /\ Delegates \subseteq People /\ Durations \subseteq Nat
    /\ MAX_DELEGATION_PERIOD \in Nat /\ MaxSigners \in Nat

VARIABLES
    signers,         \* the array of signers
    _signerIndex,    \* signer -> its place in the array, from 0
    hasSignerRole,   \* holders of SIGNER_ROLE
    signerConfig,    \* totalSigners and the threshold of each tier
    delegations,     \* delegate -> Delegation
    rolesEdited      \* history: was SIGNER_ROLE ever changed behind the array?

signerVars == <<signers, _signerIndex, hasSignerRole, signerConfig, delegations, rolesEdited>>

Delegation   == [delegator: People \cup {None}, left: Int, active: BOOLEAN]
NoDelegation == [delegator |-> None, left |-> -1, active |-> FALSE]
SignerConfig == [totalSigners: Nat, threshold: [TxTier -> Nat]]

\* InvalidSignerConfig: the emergency threshold is not looked at.
ValidThresholds(t, total) ==
    /\ t["SMALL"] # 0 /\ t["SMALL"] <= t["MEDIUM"]
    /\ t["MEDIUM"] <= t["LARGE"] /\ t["LARGE"] <= total

SignersInit ==
    /\ signers = Founders
    /\ hasSignerRole = {Founders[k] : k \in 1 .. Len(Founders)}
    /\ _signerIndex = [x \in People |->
            IF x \in hasSignerRole THEN (CHOOSE k \in 1 .. Len(Founders) : Founders[k] = x) - 1
            ELSE 0]
    /\ \E t \in Thresholds :
          /\ ValidThresholds(t, Len(Founders))
          /\ signerConfig = [totalSigners |-> Len(Founders), threshold |-> t]
    /\ delegations = [x \in People |-> NoDelegation]
    /\ rolesEdited = FALSE
-----------------------------------------------------------------------------
addSigner(x) ==
    /\ Len(signers) < MaxSigners
    /\ x \notin hasSignerRole
    /\ hasSignerRole' = hasSignerRole \cup {x}
    /\ _signerIndex' = [_signerIndex EXCEPT ![x] = Len(signers)]
    /\ signers' = Append(signers, x)
    /\ signerConfig' = [signerConfig EXCEPT !.totalSigners = @ + 1]
    /\ UNCHANGED <<delegations, rolesEdited>>

\* signers.pop() after the last signer took the place of the removed one.
SwapAndPop(k) ==
    [j \in 1 .. Len(signers) - 1 |-> IF j = k THEN signers[Len(signers)] ELSE signers[j]]

\* Mutant: the signer that moves into the gap keeps its old index.
removeWithoutReindex(x) ==
    /\ x \in hasSignerRole
    /\ signerConfig.totalSigners > signerConfig.threshold["LARGE"]
    /\ hasSignerRole' = hasSignerRole \ {x}
    /\ signers' = SwapAndPop(_signerIndex[x] + 1)
    /\ _signerIndex' = [_signerIndex EXCEPT ![x] = 0]
    /\ signerConfig' = [signerConfig EXCEPT !.totalSigners = @ - 1]
    /\ UNCHANGED <<delegations, rolesEdited>>

\* Mutant: the last signer the large tier needs can be removed.
removeBelowThreshold(x) ==
    /\ x \in hasSignerRole
    /\ signerConfig.totalSigners >= signerConfig.threshold["LARGE"]
    /\ hasSignerRole' = hasSignerRole \ {x}
    /\ signers' = SwapAndPop(_signerIndex[x] + 1)
    /\ _signerIndex' = [_signerIndex EXCEPT ![signers[Len(signers)]] = _signerIndex[x], ![x] = 0]
    /\ signerConfig' = [signerConfig EXCEPT !.totalSigners = @ - 1]
    /\ UNCHANGED <<delegations, rolesEdited>>

removeSigner(x) ==
    /\ x \in hasSignerRole
    /\ signerConfig.totalSigners > signerConfig.threshold["LARGE"]
    /\ hasSignerRole' = hasSignerRole \ {x}
    /\ signers' = SwapAndPop(_signerIndex[x] + 1)
    /\ _signerIndex' = [_signerIndex EXCEPT ![signers[Len(signers)]] = _signerIndex[x], ![x] = 0]
    /\ signerConfig' = [signerConfig EXCEPT !.totalSigners = @ - 1]
    /\ UNCHANGED <<delegations, rolesEdited>>

updateSignerConfig(t) ==
    /\ ValidThresholds(t, signerConfig.totalSigners)
    /\ signerConfig' = [signerConfig EXCEPT !.threshold = t]
    /\ UNCHANGED <<signers, _signerIndex, hasSignerRole, delegations, rolesEdited>>

\* A delegate holds one delegation: a later one replaces it, whoever gave it.
delegateSigningAuthority(s, d, duration) ==
    /\ s \in hasSignerRole
    /\ duration <= MAX_DELEGATION_PERIOD
    /\ delegations' = [delegations EXCEPT ![d] =
            [delegator |-> s, left |-> duration, active |-> TRUE]]
    /\ UNCHANGED <<signers, _signerIndex, hasSignerRole, signerConfig, rolesEdited>>

revokeDelegation(s, d) ==
    /\ s \in hasSignerRole
    /\ delegations[d].delegator = s
    /\ delegations' = [delegations EXCEPT ![d].active = FALSE]
    /\ UNCHANGED <<signers, _signerIndex, hasSignerRole, signerConfig, rolesEdited>>

\* AccessControl's own renounceRole, grantRole and revokeRole, which the
\* contract inherits: they change the role and nothing else.
RoleChanges ==
    /\ \E x \in Irregular :
          hasSignerRole' = IF x \in hasSignerRole THEN hasSignerRole \ {x}
                           ELSE hasSignerRole \cup {x}
    /\ rolesEdited' = TRUE
    /\ UNCHANGED <<signers, _signerIndex, signerConfig, delegations>>

AgeDelegations ==
    delegations' = [x \in People |->
        IF delegations[x].left >= 0 THEN [delegations[x] EXCEPT !.left = @ - 1]
        ELSE delegations[x]]

\* Governance: pausing does not stop it.
ManageSigners ==
    \/ \E x \in People : addSigner(x) \/ removeSigner(x)
    \/ \E t \in Thresholds : updateSignerConfig(t)
    \/ \E s \in People, d \in Delegates : revokeDelegation(s, d)
    \/ RoleChanges

Delegate == \E s \in People, d \in Delegates, n \in Durations : delegateSigningAuthority(s, d, n)
-----------------------------------------------------------------------------
onlySignerOrDelegate(x) ==
    \/ x \in hasSignerRole
    \/ /\ delegations[x].active /\ delegations[x].left >= 0
       /\ delegations[x].delegator \in hasSignerRole

\* Mutant: a delegate votes in its own name.
OwnName(caller) == caller

\* Mutant: a signer, too, is looked up among the delegates.
AlwaysDelegator(caller) == delegations[caller].delegator

\* The identity a caller votes as.
_resolveApprover(caller) ==
    IF caller \in hasSignerRole THEN caller ELSE delegations[caller].delegator
-----------------------------------------------------------------------------
(***************************************************************************)
(* Properties.                                                             *)
(***************************************************************************)
SignersTypeOK ==
    /\ signers \in Seq(People)
    /\ _signerIndex \in [People -> Nat]
    /\ hasSignerRole \subseteq People
    /\ signerConfig \in SignerConfig
    /\ delegations \in [People -> Delegation]
    /\ rolesEdited \in BOOLEAN

\* As long as the role changes only through addSigner and removeSigner,
\* `signers', which getSigners returns as the current signers, lists every
\* holder of the role once and nobody else, and the index finds each one, so
\* that the swap-and-pop of removeSigner never drops a bystander
\* (MultiSigTreasury.sol:296-300, 1103-1141).
SignersListed == ~rolesEdited =>
    /\ Len(signers) = signerConfig.totalSigners
    /\ {signers[k] : k \in 1 .. Len(signers)} = hasSignerRole
    /\ \A x \in hasSignerRole :
          /\ _signerIndex[x] + 1 \in 1 .. Len(signers)
          /\ signers[_signerIndex[x] + 1] = x

\* With the same proviso there are always as many signers as the largest
\* transfer needs approvals, whatever the order of removals and new
\* thresholds, so no tier but the emergency one can become impossible to
\* approve (MultiSigTreasury.sol:502-507, 1122-1124, 1156-1161).
ThresholdsReachable == ~rolesEdited =>
    /\ 0 < signerConfig.threshold["SMALL"]
    /\ signerConfig.threshold["SMALL"] <= signerConfig.threshold["MEDIUM"]
    /\ signerConfig.threshold["MEDIUM"] <= signerConfig.threshold["LARGE"]
    /\ signerConfig.threshold["LARGE"] <= Cardinality(hasSignerRole)
=============================================================================
