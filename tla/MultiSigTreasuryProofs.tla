------------------------- MODULE MultiSigTreasuryProofs -------------------------
(***************************************************************************)
(* Proofs about MultiSigTreasury, for any people, thresholds, delegations, *)
(* budgets, mandates, timelocks and any finite number of proposals, and    *)
(* under every interleaving of proposals, votes, executions, standing      *)
(* orders, changes of the signers and the clock.                           *)
(***************************************************************************)
EXTENDS MultiSigTreasury, SumTheorems

(***************************************************************************)
(* The signers.                                                            *)
(***************************************************************************)
\* The total is the length of the list, whatever AccessControl does to the
\* role, and it is never below the thresholds.
TotalExact ==
    /\ signerConfig.totalSigners = Len(signers)
    /\ ValidThresholds(signerConfig.threshold, signerConfig.totalSigners)

\* While nobody touched the role behind the list, the list and the index are
\* inverse to each other between the role's holders and the places.
Indexed == ~rolesEdited =>
    /\ \A k \in 1 .. Len(signers) :
          signers[k] \in hasSignerRole /\ _signerIndex[signers[k]] = k - 1
    /\ \A x \in hasSignerRole :
          _signerIndex[x] + 1 \in 1 .. Len(signers) /\ signers[_signerIndex[x] + 1] = x

SignersInv == SignersTypeOK /\ TotalExact /\ Indexed

LEMMA SignersStart == SignersInit => SignersInv
<1> SUFFICES ASSUME SignersInit PROVE SignersInv
    OBVIOUS
<1> USE SignerAssumption DEF SignersInit
<1> DEFINE place(x) == CHOOSE k \in 1 .. Len(Founders) : Founders[k] = x
<1>1. \A k \in 1 .. Len(Founders) : Founders[k] \in People
    OBVIOUS
<1>2. \A x \in hasSignerRole : place(x) \in 1 .. Len(Founders) /\ Founders[place(x)] = x
    OBVIOUS
<1>3. \A x \in hasSignerRole : _signerIndex[x] = place(x) - 1
    BY <1>1
<1>4. \A k \in 1 .. Len(Founders) : place(Founders[k]) = k
    OBVIOUS
<1>5. _signerIndex \in [People -> Nat]
  <2> SUFFICES ASSUME NEW x \in People PROVE _signerIndex[x] \in Nat
      OBVIOUS
  <2>1. CASE x \in hasSignerRole
    <3>1. place(x) - 1 \in Nat
        BY <1>2, <2>1
    <3> QED BY <1>3, <2>1, <3>1
  <2>2. CASE x \notin hasSignerRole
      BY <2>2
  <2> QED BY <2>1, <2>2
<1>6. SignersTypeOK
  <2>1. signerConfig \in SignerConfig
      BY DEF SignerConfig
  <2>2. delegations \in [People -> Delegation]
      BY DEF NoDelegation, Delegation
  <2> QED BY <1>1, <1>5, <2>1, <2>2 DEF SignersTypeOK
<1>7. TotalExact
    BY DEF TotalExact
<1>8. Indexed
  <2>1. \A k \in 1 .. Len(signers) :
          signers[k] \in hasSignerRole /\ _signerIndex[signers[k]] = k - 1
    <3> TAKE k \in 1 .. Len(signers)
    <3>1. signers[k] = Founders[k] /\ Founders[k] \in hasSignerRole
        OBVIOUS
    <3>2. place(Founders[k]) = k
        BY <1>4
    <3> HIDE DEF place
    <3> QED BY <1>3, <3>1, <3>2
  <2>2. \A x \in hasSignerRole :
          _signerIndex[x] + 1 \in 1 .. Len(signers) /\ signers[_signerIndex[x] + 1] = x
    <3> TAKE x \in hasSignerRole
    <3>1. _signerIndex[x] = place(x) - 1 /\ place(x) \in 1 .. Len(Founders) /\ Founders[place(x)] = x
        BY <1>2, <1>3
    <3> HIDE DEF place
    <3> QED BY <3>1
  <2> QED BY <2>1, <2>2 DEF Indexed
<1> QED BY <1>6, <1>7, <1>8 DEF SignersInv

LEMMA AddKeepsSigners ==
    ASSUME SignersInv, NEW x \in People, addSigner(x)
    PROVE  SignersInv'
<1> USE DEF addSigner
<1>0. signers \in Seq(People) /\ Len(signers) \in Nat
    BY DEF SignersInv, SignersTypeOK
<1>1. /\ signerConfig' \in SignerConfig /\ signerConfig'.threshold = signerConfig.threshold
      /\ signerConfig'.totalSigners = signerConfig.totalSigners + 1
  <2>1. signerConfig \in SignerConfig
        /\ signerConfig' = [signerConfig EXCEPT !.totalSigners = @ + 1]
      BY DEF SignersInv, SignersTypeOK
  <2> QED BY <2>1 DEF SignerConfig
<1>2. signers' \in Seq(People) /\ Len(signers') = Len(signers) + 1
    BY <1>0
<1>3. SignersTypeOK'
  <2>1. _signerIndex' \in [People -> Nat]
      BY <1>0 DEF SignersInv, SignersTypeOK
  <2> QED BY <1>1, <1>2, <2>1 DEF SignersInv, SignersTypeOK
<1>4. TotalExact'
  <2>1. signerConfig.threshold \in [TxTier -> Nat] /\ signerConfig.totalSigners \in Nat
      BY DEF SignersInv, SignersTypeOK, SignerConfig
  <2>2. signerConfig.threshold["LARGE"] \in Nat
      BY <2>1 DEF TxTier
  <2>3. ValidThresholds(signerConfig.threshold, signerConfig.totalSigners + 1)
      BY <2>1, <2>2 DEF SignersInv, TotalExact, ValidThresholds
  <2> QED BY <1>1, <1>2, <2>3 DEF SignersInv, TotalExact
<1>5. Indexed'
  <2> SUFFICES ASSUME ~rolesEdited PROVE Indexed'
      BY DEF Indexed
  <2>1. /\ Len(signers) \in Nat /\ Len(signers') = Len(signers) + 1
        /\ signers'[Len(signers) + 1] = x
        /\ \A k \in 1 .. Len(signers) : signers'[k] = signers[k]
      BY DEF SignersInv, SignersTypeOK
  <2>2. /\ _signerIndex'[x] = Len(signers)
        /\ \A y \in People \ {x} : _signerIndex'[y] = _signerIndex[y]
      BY DEF SignersInv, SignersTypeOK
  <2>3. \A k \in 1 .. Len(signers') :
          signers'[k] \in hasSignerRole' /\ _signerIndex'[signers'[k]] = k - 1
    <3> TAKE k \in 1 .. Len(signers')
    <3>1. CASE k = Len(signers) + 1
        BY <2>1, <2>2, <3>1
    <3>2. CASE k \in 1 .. Len(signers)
      <4>1. signers[k] \in hasSignerRole /\ signers[k] # x /\ signers[k] \in People
          BY <3>2 DEF SignersInv, Indexed, SignersTypeOK
      <4> QED BY <2>1, <2>2, <3>2, <4>1 DEF SignersInv, Indexed
    <3> QED BY <2>1, <3>1, <3>2
  <2>4. \A y \in hasSignerRole' :
          _signerIndex'[y] + 1 \in 1 .. Len(signers') /\ signers'[_signerIndex'[y] + 1] = y
    <3> TAKE y \in hasSignerRole'
    <3>1. CASE y = x
        BY <2>1, <2>2, <3>1
    <3>2. CASE y # x
      <4>1. y \in hasSignerRole /\ y \in People \ {x}
          BY <3>2 DEF SignersInv, SignersTypeOK
      <4>2. _signerIndex[y] + 1 \in 1 .. Len(signers) /\ signers[_signerIndex[y] + 1] = y
          BY <4>1 DEF SignersInv, Indexed
      <4> QED BY <2>1, <2>2, <4>1, <4>2
    <3> QED BY <3>1, <3>2
  <2> QED BY <2>3, <2>4 DEF Indexed
<1> QED BY <1>3, <1>4, <1>5 DEF SignersInv

\* The last signer takes the removed one's place, and keeps being found.
LEMMA RemoveKeepsSigners ==
    ASSUME SignersInv, NEW x \in People, removeSigner(x)
    PROVE  SignersInv'
<1> USE DEF removeSigner
<1> DEFINE n == Len(signers)
           k == _signerIndex[x] + 1
           z == signers[n]
<1>1. n \in Nat /\ n >= 2 /\ k \in Nat /\ z \in People
  <2>1. /\ n \in Nat /\ signerConfig.totalSigners = n
        /\ signerConfig.threshold \in [TxTier -> Nat]
        /\ signerConfig.threshold["SMALL"] # 0
        /\ signerConfig.threshold["SMALL"] <= signerConfig.threshold["MEDIUM"]
        /\ signerConfig.threshold["MEDIUM"] <= signerConfig.threshold["LARGE"]
      BY DEF SignersInv, SignersTypeOK, SignerConfig, TotalExact, ValidThresholds
  <2>2. n > signerConfig.threshold["LARGE"]
      BY <2>1
  <2>3. n >= 2
      BY <2>1, <2>2 DEF TxTier
  <2> QED BY <2>1, <2>3 DEF SignersInv, SignersTypeOK
<1>2. /\ Len(signers') = n - 1
      /\ \A j \in 1 .. n - 1 : signers'[j] = IF j = k THEN z ELSE signers[j]
      /\ signers' \in Seq(People)
  <2>1. \A j \in 1 .. n - 1 : SwapAndPop(k)[j] \in People
      BY <1>1 DEF SwapAndPop, SignersInv, SignersTypeOK
  <2>2. n - 1 \in Nat /\ DOMAIN SwapAndPop(k) = 1 .. n - 1
      BY <1>1 DEF SwapAndPop
  <2>3. SwapAndPop(k) \in [1 .. n - 1 -> People]
      BY <2>1, <2>2 DEF SwapAndPop
  <2>4. SwapAndPop(k) \in Seq(People) /\ Len(SwapAndPop(k)) = n - 1
    <3> HIDE DEF n, k
    <3> QED BY <2>2, <2>3
  <2>5. signers' = SwapAndPop(k)
      OBVIOUS
  <2> QED BY <2>4, <2>5 DEF SwapAndPop
<1>3. /\ _signerIndex' \in [People -> Nat] /\ _signerIndex'[x] = 0
      /\ z # x => _signerIndex'[z] = _signerIndex[x]
      /\ \A y \in People \ {x, z} : _signerIndex'[y] = _signerIndex[y]
    BY <1>1 DEF SignersInv, SignersTypeOK
<1>4. /\ signerConfig'.totalSigners = n - 1
      /\ signerConfig'.threshold = signerConfig.threshold
      /\ signerConfig' \in SignerConfig
  <2>1. signerConfig \in SignerConfig /\ signerConfig.totalSigners = n
      BY DEF SignersInv, SignersTypeOK, TotalExact
  <2>2. signerConfig' = [signerConfig EXCEPT !.totalSigners = @ - 1] /\ n - 1 \in Nat
      BY <1>1
  <2> HIDE DEF n
  <2> QED BY <2>1, <2>2 DEF SignerConfig
<1>5. SignersTypeOK'
    BY <1>2, <1>3, <1>4 DEF SignersInv, SignersTypeOK
<1>6. TotalExact'
  <2>1. signerConfig.threshold \in [TxTier -> Nat]
      BY DEF SignersInv, SignersTypeOK, SignerConfig
  <2>2. signerConfig.threshold["LARGE"] <= n - 1
      BY <1>1, <2>1 DEF SignersInv, TotalExact, TxTier
  <2>3. ValidThresholds(signerConfig.threshold, n - 1)
      BY <2>2 DEF SignersInv, TotalExact, ValidThresholds
  <2> QED BY <1>2, <1>4, <2>3 DEF TotalExact
<1>7. Indexed'
  <2> SUFFICES ASSUME ~rolesEdited PROVE Indexed'
      BY DEF Indexed
  <2>0. /\ \A j \in 1 .. n : signers[j] \in hasSignerRole /\ _signerIndex[signers[j]] = j - 1
        /\ \A y \in hasSignerRole : _signerIndex[y] + 1 \in 1 .. n /\ signers[_signerIndex[y] + 1] = y
        /\ hasSignerRole \subseteq People /\ \A y \in People : _signerIndex[y] \in Nat
      BY DEF SignersInv, SignersTypeOK, Indexed
  <2>1. k \in 1 .. n /\ signers[k] = x /\ _signerIndex[z] = n - 1
    <3>1. k \in 1 .. n /\ signers[k] = x
        BY <2>0
    <3>2. n \in 1 .. n
        BY <1>1
    <3> HIDE DEF n, k
    <3> QED BY <2>0, <3>1, <3>2
  <2>2. \A j \in 1 .. n - 1 : j # k => signers[j] # x /\ signers[j] # z
      BY <1>1, <2>0, <2>1
  <2>3. k # n => z # x
      BY <1>1, <2>0, <2>1
  <2>4. \A j \in 1 .. n - 1 :
          signers'[j] \in hasSignerRole' /\ _signerIndex'[signers'[j]] = j - 1
    <3> TAKE j \in 1 .. n - 1
    <3>1. CASE j = k
      <4>1. signers'[j] = z /\ z # x /\ z \in hasSignerRole
          BY <1>1, <1>2, <2>0, <2>1, <2>3, <3>1
      <4>2. _signerIndex'[z] = k - 1
          BY <1>1, <1>3, <2>0, <4>1
      <4> HIDE DEF n, k, z
      <4> QED BY <4>1, <4>2, <3>1
    <3>2. CASE j # k
      <4>1. signers'[j] = signers[j] /\ signers[j] \in hasSignerRole \ {x, z}
          BY <1>1, <1>2, <2>0, <2>2, <3>2
      <4>2. _signerIndex[signers[j]] = j - 1
          BY <1>1, <2>0
      <4>3. _signerIndex'[signers[j]] = _signerIndex[signers[j]]
          BY <1>3, <2>0, <4>1
      <4> QED BY <4>1, <4>2, <4>3
    <3> QED BY <3>1, <3>2
  <2>5. \A y \in hasSignerRole' :
          _signerIndex'[y] + 1 \in 1 .. n - 1 /\ signers'[_signerIndex'[y] + 1] = y
    <3> TAKE y \in hasSignerRole'
    <3>0. y \in hasSignerRole /\ y # x
        OBVIOUS
    <3>1. CASE y = z
      <4>1. k # n /\ _signerIndex'[y] = k - 1
        <5>1. k # n
            BY <2>1, <3>0, <3>1
        <5> QED BY <1>1, <1>3, <2>0, <3>0, <3>1, <5>1
      <4>2. k \in 1 .. n - 1
          BY <1>1, <2>1, <4>1
      <4> HIDE DEF n, k, z
      <4> QED BY <1>2, <3>1, <4>1, <4>2
    <3>2. CASE y # z
      <4> DEFINE j == _signerIndex[y] + 1
      <4>1. j \in 1 .. n /\ signers[j] = y
          BY <2>0, <3>0
      <4>2. j # n /\ j # k
          BY <2>1, <3>0, <3>2, <4>1
      <4>3. _signerIndex'[y] = _signerIndex[y]
          BY <1>3, <2>0, <3>0, <3>2
      <4>4. j \in 1 .. n - 1
          BY <1>1, <4>1, <4>2
      <4>5. signers'[j] = y
          BY <1>2, <4>1, <4>2, <4>4
      <4> QED BY <4>3, <4>4, <4>5
    <3> QED BY <3>1, <3>2
  <2> QED BY <1>2, <2>4, <2>5 DEF Indexed
<1> QED BY <1>5, <1>6, <1>7 DEF SignersInv

LEMMA ThresholdsKeepSigners ==
    ASSUME SignersInv, NEW t \in Thresholds, updateSignerConfig(t)
    PROVE  SignersInv'
<1> USE DEF updateSignerConfig
<1>1. signerConfig \in SignerConfig /\ t \in [TxTier -> Nat]
    BY SignerAssumption DEF SignersInv, SignersTypeOK
<1>2. /\ signerConfig' \in SignerConfig /\ signerConfig'.threshold = t
      /\ signerConfig'.totalSigners = signerConfig.totalSigners
    BY <1>1 DEF SignerConfig
<1>3. SignersTypeOK' /\ Indexed'
    BY <1>2 DEF SignersInv, SignersTypeOK, Indexed
<1>4. TotalExact'
    BY <1>2 DEF SignersInv, TotalExact
<1> QED BY <1>3, <1>4 DEF SignersInv

LEMMA DelegationsKeepSigners ==
    ASSUME SignersInv, delegations' \in [People -> Delegation],
           UNCHANGED <<signers, _signerIndex, hasSignerRole, signerConfig, rolesEdited>>
    PROVE  SignersInv'
    BY DEF SignersInv, SignersTypeOK, TotalExact, Indexed

\* Every step moves the signers as one of these does, or not at all.
SignersMove ==
    \/ ManageSigners \/ Delegate
    \/ /\ AgeDelegations
       /\ UNCHANGED <<signers, _signerIndex, hasSignerRole, signerConfig, rolesEdited>>
    \/ UNCHANGED signerVars

LEMMA SignersKept ==
    ASSUME SignersInv, SignersMove
    PROVE  SignersInv'
<1>1. CASE ManageSigners
  <2>1. CASE \E x \in People : addSigner(x) \/ removeSigner(x)
      BY <2>1, AddKeepsSigners, RemoveKeepsSigners
  <2>2. CASE \E t \in Thresholds : updateSignerConfig(t)
      BY <2>2, ThresholdsKeepSigners
  <2>3. CASE \E s \in People, d \in Delegates : revokeDelegation(s, d)
    <3>1. PICK s \in People, d \in Delegates : revokeDelegation(s, d)
        BY <2>3
    <3>2. delegations \in [People -> Delegation] /\ d \in People
        BY SignerAssumption DEF SignersInv, SignersTypeOK
    <3>3. delegations' \in [People -> Delegation]
        BY <3>1, <3>2 DEF revokeDelegation, Delegation
    <3> QED BY <3>1, <3>3, DelegationsKeepSigners DEF revokeDelegation
  <2>4. CASE RoleChanges
    <3>1. hasSignerRole' \subseteq People
        BY <2>4, SignerAssumption DEF RoleChanges, SignersInv, SignersTypeOK
    <3> QED BY <2>4, <3>1 DEF RoleChanges, SignersInv, SignersTypeOK, TotalExact, Indexed
  <2> QED BY <1>1, <2>1, <2>2, <2>3, <2>4 DEF ManageSigners
<1>2. CASE Delegate
  <2>1. PICK s \in People, d \in Delegates, n \in Durations : delegateSigningAuthority(s, d, n)
      BY <1>2 DEF Delegate
  <2>2. [delegator |-> s, left |-> n, active |-> TRUE] \in Delegation
      BY SignerAssumption DEF Delegation
  <2>3. delegations' \in [People -> Delegation]
      BY <2>1, <2>2 DEF delegateSigningAuthority, SignersInv, SignersTypeOK
  <2> QED BY <2>1, <2>3, DelegationsKeepSigners DEF delegateSigningAuthority
<1>3. CASE /\ AgeDelegations
           /\ UNCHANGED <<signers, _signerIndex, hasSignerRole, signerConfig, rolesEdited>>
  <2>1. delegations \in [People -> Delegation]
      BY DEF SignersInv, SignersTypeOK
  <2>2. delegations' \in [People -> Delegation]
      BY <1>3, <2>1 DEF AgeDelegations, Delegation
  <2> QED BY <1>3, <2>2, DelegationsKeepSigners
<1>4. CASE UNCHANGED signerVars
    BY <1>4 DEF signerVars, SignersInv, SignersTypeOK, TotalExact, Indexed
<1> QED BY <1>1, <1>2, <1>3, <1>4 DEF SignersMove

LEMMA SignersInvSound ==
    ASSUME SignersInv
    PROVE  SignersSound
<1> SUFFICES ASSUME ~rolesEdited PROVE SignersSound
    BY DEF SignersSound, SignersListed, ThresholdsReachable
<1> DEFINE n == Len(signers)
           f == [k \in 1 .. n |-> signers[k]]
<1>1. /\ n \in Nat /\ n = signerConfig.totalSigners
      /\ \A k \in 1 .. n : signers[k] \in hasSignerRole /\ _signerIndex[signers[k]] = k - 1
      /\ \A x \in hasSignerRole :
            _signerIndex[x] + 1 \in 1 .. n /\ signers[_signerIndex[x] + 1] = x
    BY DEF SignersInv, SignersTypeOK, TotalExact, Indexed
<1>2. \A k \in 1 .. n, j \in 1 .. n : signers[k] = signers[j] => k = j
  <2> HIDE DEF n
  <2> QED BY <1>1
<1>3. {signers[k] : k \in 1 .. n} = hasSignerRole
  <2> HIDE DEF n
  <2> QED BY <1>1
<1>4. SignersListed
    BY <1>1, <1>3 DEF SignersListed
<1>5. Cardinality(hasSignerRole) = n
  <2> HIDE DEF n
  <2>1. f \in Bijection(1 .. n, hasSignerRole)
    <3>1. f \in [1 .. n -> hasSignerRole] /\ DOMAIN f = 1 .. n
        BY <1>1
    <3>2. \A k \in 1 .. n : f[k] = signers[k]
        OBVIOUS
    <3>3. \A x \in hasSignerRole : \E k \in 1 .. n : f[k] = x
        BY <1>1, <3>2
    <3> HIDE DEF f
    <3>4. IsInjective(f)
        BY <1>2, <3>1, <3>2 DEF IsInjective
    <3>5. f \in Injection(1 .. n, hasSignerRole)
        BY <3>1, <3>4, Zenon DEF Injection
    <3>6. f \in Surjection(1 .. n, hasSignerRole)
        BY <3>1, <3>3 DEF Surjection
    <3> QED BY <3>5, <3>6 DEF Bijection
  <2>2. IsFiniteSet(1 .. n) /\ Cardinality(1 .. n) = n
    <3>1. 1 \in Int /\ n \in Int
        BY <1>1
    <3>2. IsFiniteSet(1 .. n) /\ Cardinality(1 .. n) = IF 1 > n THEN 0 ELSE n - 1 + 1
        BY <3>1, FS_Interval, Zenon
    <3> QED BY <1>1, <3>2
  <2>3. ExistsBijection(1 .. n, hasSignerRole)
      BY <2>1 DEF ExistsBijection
  <2> QED BY <2>2, <2>3, FS_Bijection
<1>6. ThresholdsReachable
  <2>1. signerConfig.threshold \in [TxTier -> Nat]
      BY DEF SignersInv, SignersTypeOK, SignerConfig
  <2>2. signerConfig.threshold["SMALL"] \in Nat
      BY <2>1 DEF TxTier
  <2>3. ValidThresholds(signerConfig.threshold, n)
      BY <1>1 DEF SignersInv, TotalExact
  <2> HIDE DEF n
  <2> QED BY <1>5, <2>2, <2>3 DEF ThresholdsReachable, ValidThresholds
<1> QED BY <1>4, <1>6 DEF SignersSound

\* Whoever may vote votes as a holder of the role.
LEMMA ApproverSigns ==
    ASSUME SignersTypeOK, NEW x, onlySignerOrDelegate(x)
    PROVE  _resolveApprover(x) \in hasSignerRole /\ _resolveApprover(x) \in People
    BY DEF SignersTypeOK, onlySignerOrDelegate, _resolveApprover

(***************************************************************************)
(* The budgets.                                                            *)
(***************************************************************************)
\* The trackers count what really left in the present windows, and nothing
\* ever left under a budget that does not exist yet.
TrackersExact ==
    /\ \A b \in BudgetIds, p \in Period : outflow[b][p] = SpentIn(b, p)
    /\ \A b \in BudgetIds : ~budgets[b].active =>
          budgets[b].spent = 0 /\ \A p \in Period : outflow[b][p] = 0

WithinAllocations == \A b \in BudgetIds : budgets[b].spent <= budgets[b].totalAllocation

BudgetsInv == BudgetsTypeOK /\ TrackersExact /\ WithinAllocations /\ WindowsHold

LEMMA BudgetsStart == BudgetsInit => BudgetsInv
<1> SUFFICES ASSUME BudgetsInit PROVE BudgetsInv
    OBVIOUS
<1> USE DEF BudgetsInit
<1>1. BudgetsTypeOK
  <2>1. Inactive \in Budget
      BY DEF Inactive, Budget, Nothing
  <2>2. Stale \in SpendingTracker
      BY DEF Stale, SpendingTracker
  <2>3. Nothing \in [Period -> Nat]
      BY DEF Nothing
  <2> QED BY <2>1, <2>2, <2>3 DEF BudgetsTypeOK
<1>2. \A b \in BudgetIds : /\ budgets[b].spent = 0 /\ budgets[b].totalAllocation = 0
                           /\ \A p \in Period : /\ outflow[b][p] = 0 /\ SpentIn(b, p) = 0
                                                /\ budgets[b].limit[p] = 0
    BY DEF Inactive, Stale, Nothing, SpentIn
<1>3. TrackersExact /\ WithinAllocations /\ WindowsHold
    BY <1>2 DEF TrackersExact, WithinAllocations, WindowsHold
<1> QED BY <1>1, <1>3 DEF BudgetsInv

LEMMA SpentInType ==
    ASSUME BudgetsTypeOK
    PROVE  \A b \in BudgetIds, p \in Period :
             /\ SpentIn(b, p) \in Nat /\ outflow[b][p] \in Nat /\ budgets[b].limit[p] \in Nat
             /\ spendingTrackers[b][p].spent \in Nat
<1> TAKE b \in BudgetIds, p \in Period
<1>1. spendingTrackers[b] \in SpendingTracker /\ budgets[b] \in Budget
      /\ outflow[b] \in [Period -> Nat]
    BY DEF BudgetsTypeOK
<1>2. spendingTrackers[b][p].spent \in Nat
    BY <1>1 DEF SpendingTracker
<1>3. budgets[b].limit[p] \in Nat /\ outflow[b][p] \in Nat
    BY <1>1 DEF Budget
<1> QED BY <1>2, <1>3 DEF SpentIn

LEMMA ChargeKeepsBudgets ==
    ASSUME BudgetsInv, NEW b \in BudgetIds, NEW amount \in Nat, _recordBudgetSpending(b, amount)
    PROVE  /\ BudgetsInv'
           /\ budgets'[b].spent = budgets[b].spent + amount
           /\ \A c \in BudgetIds \ {b} : budgets'[c].spent = budgets[c].spent
<1> USE DEF _recordBudgetSpending
<1>0. /\ budgets[b] \in Budget /\ budgets \in [BudgetIds -> Budget]
      /\ spendingTrackers \in [BudgetIds -> SpendingTracker]
      /\ outflow \in [BudgetIds -> [Period -> Nat]]
      /\ \A p \in Period : SpentIn(b, p) \in Nat /\ outflow[b][p] \in Nat
                           /\ budgets[b].limit[p] \in Nat
    BY SpentInType DEF BudgetsInv, BudgetsTypeOK
<1>1. /\ budgets' \in [BudgetIds -> Budget]
      /\ budgets'[b].spent = budgets[b].spent + amount
      /\ budgets'[b].totalAllocation = budgets[b].totalAllocation
      /\ budgets'[b].limit = budgets[b].limit /\ budgets'[b].active
      /\ \A c \in BudgetIds \ {b} : budgets'[c] = budgets[c]
  <2> DEFINE old == budgets[b]
             charged == [old EXCEPT !.spent = @ + amount]
  <2>0. old \in Budget /\ old.active
      BY <1>0
  <2>1. /\ charged \in Budget /\ charged.spent = old.spent + amount
        /\ charged.totalAllocation = old.totalAllocation
        /\ charged.limit = old.limit /\ charged.active
    <3> HIDE DEF old
    <3> QED BY <2>0 DEF Budget
  <2>2. budgets' = [budgets EXCEPT ![b] = charged]
      OBVIOUS
  <2> HIDE DEF charged
  <2> QED BY <1>0, <2>1, <2>2
<1>2. /\ spendingTrackers' \in [BudgetIds -> SpendingTracker]
      /\ \A p \in Period : spendingTrackers'[b][p].spent = SpentIn(b, p) + amount
                           /\ spendingTrackers'[b][p].current
      /\ \A c \in BudgetIds \ {b} : spendingTrackers'[c] = spendingTrackers[c]
  <2> DEFINE tracker == [p \in Period |-> [spent |-> SpentIn(b, p) + amount, current |-> TRUE]]
  <2>1. tracker \in SpendingTracker
      BY <1>0 DEF SpendingTracker
  <2>2. /\ spendingTrackers'[b] = tracker
        /\ \A c \in BudgetIds \ {b} : spendingTrackers'[c] = spendingTrackers[c]
      BY <1>0
  <2>3. \A p \in Period : tracker[p].spent = SpentIn(b, p) + amount /\ tracker[p].current
      OBVIOUS
  <2> HIDE DEF tracker
  <2>4. spendingTrackers' \in [BudgetIds -> SpendingTracker]
      BY <1>0, <2>1 DEF tracker
  <2> QED BY <2>2, <2>3, <2>4
<1>3. /\ outflow' \in [BudgetIds -> [Period -> Nat]]
      /\ \A p \in Period : outflow'[b][p] = outflow[b][p] + amount
      /\ \A c \in BudgetIds \ {b} : outflow'[c] = outflow[c]
    BY <1>0
<1>4. BudgetsTypeOK'
    BY <1>1, <1>2, <1>3 DEF BudgetsTypeOK
<1>5. \A p \in Period : SpentIn(b, p)' = SpentIn(b, p) + amount
    BY <1>2 DEF SpentIn
<1>6. \A c \in BudgetIds \ {b}, p \in Period : SpentIn(c, p)' = SpentIn(c, p)
    BY <1>2 DEF SpentIn
<1>7. TrackersExact'
  <2>1. ASSUME NEW c \in BudgetIds, NEW p \in Period PROVE outflow'[c][p] = SpentIn(c, p)'
    <3>1. CASE c = b
        BY <1>3, <1>5, <3>1 DEF BudgetsInv, TrackersExact
    <3>2. CASE c # b
        BY <1>3, <1>6, <3>2 DEF BudgetsInv, TrackersExact
    <3> QED BY <3>1, <3>2
  <2>2. ASSUME NEW c \in BudgetIds, ~budgets'[c].active
        PROVE  budgets'[c].spent = 0 /\ \A p \in Period : outflow'[c][p] = 0
    <3>1. c # b /\ ~budgets[c].active
        BY <1>1, <2>2
    <3> QED BY <1>1, <1>3, <3>1 DEF BudgetsInv, TrackersExact
  <2> QED BY <2>1, <2>2 DEF TrackersExact
<1>8. WithinAllocations'
  <2>1. amount <= budgets[b].totalAllocation - budgets[b].spent
      BY DEF remaining
  <2>2. budgets'[b].spent <= budgets'[b].totalAllocation
      BY <1>0, <1>1, <2>1 DEF Budget
  <2> QED BY <1>1, <2>2 DEF BudgetsInv, WithinAllocations
<1>9. WindowsHold'
  <2> SUFFICES ASSUME NEW c \in BudgetIds, NEW p \in Period, budgets'[c].limit[p] > 0
               PROVE  outflow'[c][p] <= budgets'[c].limit[p]
      BY DEF WindowsHold
  <2>1. CASE c = b
    <3>1. SpentIn(b, p) + amount <= budgets[b].limit[p] /\ outflow[b][p] = SpentIn(b, p)
        BY <1>1, <2>1 DEF BudgetsInv, TrackersExact
    <3> QED BY <1>1, <1>3, <2>1, <3>1
  <2>2. CASE c # b
      BY <1>1, <1>3, <2>2 DEF BudgetsInv, WindowsHold
  <2> QED BY <2>1, <2>2
<1> QED BY <1>1, <1>4, <1>7, <1>8, <1>9 DEF BudgetsInv

LEMMA CreateKeepsBudgets ==
    ASSUME BudgetsInv, NEW b \in BudgetIds, NEW n \in Allocations, NEW l \in SpendingLimits,
           createBudget(b, n, l)
    PROVE  BudgetsInv' /\ \A c \in BudgetIds : budgets'[c].spent = budgets[c].spent
<1> USE DEF createBudget
<1>0. n \in Nat /\ l \in [Period -> Nat]
    BY BudgetAssumption
<1>1. /\ budgets' \in [BudgetIds -> Budget] /\ budgets'[b].spent = 0
      /\ budgets'[b].totalAllocation = n /\ budgets'[b].limit = l /\ budgets'[b].active
      /\ \A c \in BudgetIds \ {b} : budgets'[c] = budgets[c]
    BY <1>0 DEF BudgetsInv, BudgetsTypeOK, Budget
<1>2. /\ spendingTrackers' \in [BudgetIds -> SpendingTracker]
      /\ \A p \in Period : spendingTrackers'[b][p].spent = 0
      /\ \A c \in BudgetIds \ {b} : spendingTrackers'[c] = spendingTrackers[c]
  <2>1. Reset \in SpendingTracker
      BY DEF Reset, SpendingTracker
  <2> QED BY <2>1 DEF BudgetsInv, BudgetsTypeOK, Reset
<1>3. BudgetsTypeOK'
    BY <1>1, <1>2 DEF BudgetsInv, BudgetsTypeOK
<1>4. budgets[b].spent = 0 /\ \A p \in Period : outflow'[b][p] = 0 /\ SpentIn(b, p)' = 0
    BY <1>2 DEF BudgetsInv, TrackersExact, SpentIn
<1>5. \A c \in BudgetIds \ {b}, p \in Period : SpentIn(c, p)' = SpentIn(c, p)
    BY <1>2 DEF SpentIn
<1>6. TrackersExact'
    BY <1>1, <1>4, <1>5 DEF BudgetsInv, TrackersExact
<1>7. WithinAllocations'
    BY <1>0, <1>1 DEF BudgetsInv, WithinAllocations
<1>8. WindowsHold'
    BY <1>0, <1>1, <1>4 DEF BudgetsInv, WindowsHold
<1> QED BY <1>1, <1>3, <1>4, <1>6, <1>7, <1>8 DEF BudgetsInv

LEMMA ClockKeepsBudgets ==
    ASSUME BudgetsInv, AgeBudgets
    PROVE  BudgetsInv'
<1>1. PICK over \in WindowsEnding :
        /\ spendingTrackers' = [b \in BudgetIds |-> [p \in Period |->
               [spendingTrackers[b][p] EXCEPT !.current = @ /\ p \notin over]]]
        /\ outflow' = [b \in BudgetIds |-> [p \in Period |-> IF p \in over THEN 0 ELSE outflow[b][p]]]
    BY DEF AgeBudgets
<1>2. \A b \in BudgetIds, p \in Period :
        spendingTrackers[b][p] \in [spent: Nat, current: BOOLEAN]
    BY DEF BudgetsInv, BudgetsTypeOK, SpendingTracker
<1>3. \A b \in BudgetIds, p \in Period :
        /\ spendingTrackers'[b][p] \in [spent: Nat, current: BOOLEAN]
        /\ spendingTrackers'[b][p].spent = spendingTrackers[b][p].spent
        /\ spendingTrackers'[b][p].current <=> spendingTrackers[b][p].current /\ p \notin over
    BY <1>1, <1>2
<1>4. spendingTrackers' \in [BudgetIds -> SpendingTracker]
    BY <1>1, <1>3 DEF SpendingTracker
<1>5. outflow' \in [BudgetIds -> [Period -> Nat]]
    BY <1>1 DEF BudgetsInv, BudgetsTypeOK
<1>6. budgets' = budgets
    BY DEF AgeBudgets
<1>7. \A b \in BudgetIds, p \in Period :
        /\ outflow'[b][p] = IF p \in over THEN 0 ELSE outflow[b][p]
        /\ SpentIn(b, p)' = IF p \in over THEN 0 ELSE SpentIn(b, p)
    BY <1>1, <1>3 DEF SpentIn
<1>8. BudgetsTypeOK'
    BY <1>4, <1>5, <1>6 DEF BudgetsInv, BudgetsTypeOK
<1>9. TrackersExact' /\ WithinAllocations'
    BY <1>6, <1>7 DEF BudgetsInv, TrackersExact, WithinAllocations
<1>10. WindowsHold'
  <2>1. \A b \in BudgetIds, p \in Period : budgets[b].limit[p] \in Nat
      BY SpentInType DEF BudgetsInv
  <2> QED BY <1>6, <1>7, <2>1 DEF BudgetsInv, WindowsHold
<1> QED BY <1>8, <1>9, <1>10 DEF BudgetsInv

(***************************************************************************)
(* Proposals and the votes on them.                                        *)
(***************************************************************************)
ProposalsTypeOK ==
    /\ proposals \in [ProposalIds -> Proposal]
    /\ proposalApprovals \in [ProposalIds -> SUBSET People]
    /\ proposalRejections \in [ProposalIds -> SUBSET People]

\* What the record of a proposal says of its voters.  An identifier nobody
\* proposed under yet has no rejections to start from.
VotesMatch(p, approvals, rejections) ==
    /\ p.status = "NONE" => rejections = {}
    /\ p.status # "NONE" => p.recipient \in Recipients /\ p.token \in Tokens
    /\ p.approvalCount = Cardinality(approvals) /\ p.rejectionCount = Cardinality(rejections)
    /\ p.status \in {"APPROVED", "EXECUTED"} => p.approvalCount >= p.requiredApprovals

ProposalsInv ==
    /\ ProposalsTypeOK
    /\ \A i \in ProposalIds : VotesMatch(proposals[i], proposalApprovals[i], proposalRejections[i])

ProposalVotesCast ==
    \A i \in ProposalIds :
        /\ proposalApprovals'[i] \ proposalApprovals[i] \subseteq hasSignerRole
        /\ proposalRejections'[i] \ proposalRejections[i] \subseteq hasSignerRole

LEMMA PeopleFinite ==
    /\ \A S \in SUBSET People : IsFiniteSet(S) /\ Cardinality(S) \in Nat
    /\ \A S \in SUBSET People, x \in People :
         x \notin S => Cardinality(S \cup {x}) = Cardinality(S) + 1
<1>1. \A S \in SUBSET People : IsFiniteSet(S)
    BY SignerAssumption, FS_Subset
<1> QED BY <1>1, FS_CardinalityType, FS_AddElement

LEMMA ThresholdType ==
    ASSUME SignersTypeOK, NEW amount, NEW e
    PROVE  Tier(amount, e) \in TxTier /\ Required(Tier(amount, e)) \in Nat
<1>1. Tier(amount, e) \in TxTier
    BY DEF Tier, TxTier
<1> QED BY <1>1 DEF SignersTypeOK, SignerConfig, Required

LEMMA ProposalsStart ==
    ASSUME proposals = [i \in ProposalIds |-> NoProposal],
           proposalApprovals = [i \in ProposalIds |-> {}],
           proposalRejections = [i \in ProposalIds |-> {}]
    PROVE  ProposalsInv
<1>1. NoProposal \in Proposal
    BY DEF NoProposal, Proposal, ProposalStatus, TxTier
<1>2. VotesMatch(NoProposal, {}, {})
    BY FS_EmptySet DEF VotesMatch, NoProposal
<1> QED BY <1>1, <1>2 DEF ProposalsInv, ProposalsTypeOK

\* The steps that touch one proposal and its voters.
LEMMA OneProposalKept ==
    ASSUME ProposalsInv, NEW i \in ProposalIds, NEW p \in Proposal,
           NEW A \in SUBSET People, NEW R \in SUBSET People, VotesMatch(p, A, R),
           proposals' = [proposals EXCEPT ![i] = p],
           proposalApprovals' = [proposalApprovals EXCEPT ![i] = A],
           proposalRejections' = [proposalRejections EXCEPT ![i] = R],
           A \ proposalApprovals[i] \subseteq hasSignerRole,
           R \ proposalRejections[i] \subseteq hasSignerRole
    PROVE  ProposalsInv' /\ ProposalVotesCast
<1>1. ProposalsTypeOK'
    BY DEF ProposalsInv, ProposalsTypeOK
<1>2. /\ proposals'[i] = p /\ proposalApprovals'[i] = A /\ proposalRejections'[i] = R
      /\ \A j \in ProposalIds \ {i} :
            /\ proposals'[j] = proposals[j] /\ proposalApprovals'[j] = proposalApprovals[j]
            /\ proposalRejections'[j] = proposalRejections[j]
    BY DEF ProposalsInv, ProposalsTypeOK
<1>3. \A j \in ProposalIds : VotesMatch(proposals[j], proposalApprovals[j], proposalRejections[j])'
  <2> TAKE j \in ProposalIds
  <2>1. CASE j = i
      BY <1>2, <2>1 DEF VotesMatch
  <2>2. CASE j # i
      BY <1>2, <2>2 DEF ProposalsInv, VotesMatch
  <2> QED BY <2>1, <2>2
<1>4. ProposalVotesCast
    BY <1>2 DEF ProposalVotesCast
<1> QED BY <1>1, <1>3, <1>4 DEF ProposalsInv

LEMMA CreateKeepsProposals ==
    ASSUME SignersTypeOK, ProposalsInv, NEW x \in People, NEW to \in Recipients,
           NEW token \in Tokens, NEW n \in Amounts, NEW e \in BOOLEAN, NEW b \in Charged,
           NEW i \in ProposalIds, createProposal(x, to, token, n, e, b, i)
    PROVE  ProposalsInv' /\ ProposalVotesCast
<1> DEFINE p == [recipient |-> to, token |-> token, amount |-> n, tier |-> Tier(n, e),
                 status |-> "PENDING", approvalCount |-> 1, rejectionCount |-> 0,
                 requiredApprovals |-> Required(Tier(n, e)), age |-> 0, budgetId |-> b]
           A == {_resolveApprover(x)}
<1>1. p \in Proposal
  <2>1. n \in Nat /\ Tier(n, e) \in TxTier /\ Required(Tier(n, e)) \in Nat
      BY TreasuryAssumption, ThresholdType
  <2> QED BY <2>1 DEF Proposal, ProposalStatus, Charged
<1>2. A \in SUBSET People /\ A \ proposalApprovals[i] \subseteq hasSignerRole
    BY ApproverSigns DEF createProposal
<1>3. proposalRejections[i] = {} /\ proposalRejections' = [proposalRejections EXCEPT ![i] = {}]
    BY DEF createProposal, ProposalsInv, ProposalsTypeOK, VotesMatch, proposalVars
<1>4. VotesMatch(p, A, {})
  <2>1. Cardinality(A) = 1 /\ Cardinality({}) = 0
      BY FS_Singleton, FS_EmptySet
  <2> HIDE DEF A
  <2> QED BY <2>1 DEF VotesMatch
<1>5. /\ proposals' = [proposals EXCEPT ![i] = p]
      /\ proposalApprovals' = [proposalApprovals EXCEPT ![i] = A]
    BY DEF createProposal
<1> HIDE DEF p, A
<1> QED BY <1>1, <1>2, <1>3, <1>4, <1>5, OneProposalKept

LEMMA ApproveKeepsProposals ==
    ASSUME SignersTypeOK, ProposalsInv, NEW x \in People, NEW i \in ProposalIds,
           approveProposal(x, i)
    PROVE  ProposalsInv' /\ ProposalVotesCast
<1> DEFINE o == proposals[i]
           status == IF o.approvalCount + 1 >= o.requiredApprovals THEN "APPROVED" ELSE o.status
           p == [o EXCEPT !.approvalCount = @ + 1, !.status = status]
           A == proposalApprovals[i] \cup {_resolveApprover(x)}
           R == proposalRejections[i]
<1>1. /\ o \in Proposal /\ o.status = "PENDING" /\ VotesMatch(o, proposalApprovals[i], R)
      /\ proposalApprovals[i] \in SUBSET People /\ R \in SUBSET People
    BY DEF ProposalsInv, ProposalsTypeOK, approveProposal
<1>2. /\ _resolveApprover(x) \in hasSignerRole /\ _resolveApprover(x) \in People
      /\ _resolveApprover(x) \notin proposalApprovals[i]
    BY ApproverSigns DEF approveProposal
<1>3. /\ p \in Proposal /\ p.approvalCount = o.approvalCount + 1 /\ p.status = status
      /\ p.rejectionCount = o.rejectionCount /\ p.requiredApprovals = o.requiredApprovals
      /\ p.recipient = o.recipient /\ p.token = o.token
  <2> HIDE DEF o
  <2>1. status \in {"PENDING", "APPROVED"}
      BY <1>1
  <2> HIDE DEF status
  <2>2. o \in Proposal
      BY <1>1
  <2>3. o.approvalCount + 1 \in Nat
      BY <2>2 DEF Proposal
  <2>4. p.approvalCount = o.approvalCount + 1 /\ p.status = status
      BY <2>2 DEF Proposal
  <2> QED BY <2>1, <2>2, <2>3, <2>4 DEF Proposal, ProposalStatus
<1>4. Cardinality(A) = Cardinality(proposalApprovals[i]) + 1
    BY <1>1, <1>2, PeopleFinite
<1>5. VotesMatch(p, A, R)
  <2> HIDE DEF p, A, R, o
  <2> QED BY <1>1, <1>3, <1>4 DEF VotesMatch
<1>6. /\ proposals' = [proposals EXCEPT ![i] = p]
      /\ proposalApprovals' = [proposalApprovals EXCEPT ![i] = A]
      /\ proposalRejections' = [proposalRejections EXCEPT ![i] = R]
    BY <1>1 DEF approveProposal, ProposalsInv, ProposalsTypeOK
<1>7. A \in SUBSET People /\ A \ proposalApprovals[i] \subseteq hasSignerRole
    BY <1>1, <1>2
<1> HIDE DEF p, A
<1> QED BY <1>1, <1>3, <1>5, <1>6, <1>7, OneProposalKept

LEMMA RejectKeepsProposals ==
    ASSUME SignersTypeOK, ProposalsInv, NEW x \in People, NEW i \in ProposalIds,
           rejectProposal(x, i)
    PROVE  ProposalsInv' /\ ProposalVotesCast
<1> DEFINE o == proposals[i]
           slack == signerConfig.totalSigners - o.requiredApprovals
           status == IF o.rejectionCount + 1 >= slack + 1 THEN "REJECTED" ELSE o.status
           p == [o EXCEPT !.rejectionCount = @ + 1, !.status = status]
           A == proposalApprovals[i]
           R == proposalRejections[i] \cup {_resolveApprover(x)}
<1>1. /\ o \in Proposal /\ o.status = "PENDING" /\ VotesMatch(o, A, proposalRejections[i])
      /\ proposalRejections[i] \in SUBSET People /\ A \in SUBSET People
    BY DEF ProposalsInv, ProposalsTypeOK, rejectProposal
<1>2. /\ _resolveApprover(x) \in hasSignerRole /\ _resolveApprover(x) \in People
      /\ _resolveApprover(x) \notin proposalRejections[i]
    BY ApproverSigns DEF rejectProposal
<1>3. /\ p \in Proposal /\ p.rejectionCount = o.rejectionCount + 1 /\ p.status = status
      /\ p.approvalCount = o.approvalCount /\ p.requiredApprovals = o.requiredApprovals
      /\ p.recipient = o.recipient /\ p.token = o.token
      /\ status \in {"PENDING", "REJECTED"}
  <2> HIDE DEF o
  <2>1. status \in {"PENDING", "REJECTED"}
      BY <1>1
  <2> HIDE DEF status
  <2>2. o \in Proposal
      BY <1>1
  <2>3. o.rejectionCount + 1 \in Nat
      BY <2>2 DEF Proposal
  <2>4. p.rejectionCount = o.rejectionCount + 1 /\ p.status = status
      BY <2>2 DEF Proposal
  <2> QED BY <2>1, <2>2, <2>3, <2>4 DEF Proposal, ProposalStatus
<1>4. Cardinality(R) = Cardinality(proposalRejections[i]) + 1
    BY <1>1, <1>2, PeopleFinite
<1>5. VotesMatch(p, A, R)
  <2> HIDE DEF p, A, R, o, status
  <2> QED BY <1>1, <1>3, <1>4 DEF VotesMatch
<1>6. /\ proposals' = [proposals EXCEPT ![i] = p]
      /\ proposalApprovals' = [proposalApprovals EXCEPT ![i] = A]
      /\ proposalRejections' = [proposalRejections EXCEPT ![i] = R]
    BY <1>1 DEF rejectProposal, ProposalsInv, ProposalsTypeOK
<1>7. R \in SUBSET People /\ R \ proposalRejections[i] \subseteq hasSignerRole
    BY <1>1, <1>2
<1> HIDE DEF p, R
<1> QED BY <1>1, <1>3, <1>5, <1>6, <1>7, OneProposalKept

\* Cancelling and executing change the status alone.
LEMMA ConcludeKeepsProposals ==
    ASSUME ProposalsInv, NEW i \in ProposalIds, NEW status \in {"CANCELLED", "EXECUTED"},
           proposals[i].status # "NONE", status = "EXECUTED" => proposals[i].status = "APPROVED",
           proposals' = [proposals EXCEPT ![i].status = status],
           UNCHANGED <<proposalApprovals, proposalRejections>>
    PROVE  ProposalsInv' /\ ProposalVotesCast
<1> DEFINE o == proposals[i]
           p == [o EXCEPT !.status = status]
           A == proposalApprovals[i]
           R == proposalRejections[i]
<1>1. o \in Proposal /\ VotesMatch(o, A, R) /\ A \in SUBSET People /\ R \in SUBSET People
    BY DEF ProposalsInv, ProposalsTypeOK
<1>2. /\ p \in Proposal /\ p.status = status
      /\ p.approvalCount = o.approvalCount /\ p.rejectionCount = o.rejectionCount
      /\ p.requiredApprovals = o.requiredApprovals
      /\ p.recipient = o.recipient /\ p.token = o.token
  <2> HIDE DEF o
  <2> QED BY <1>1 DEF Proposal, ProposalStatus
<1>3. VotesMatch(p, A, R)
  <2>1. status = "EXECUTED" => o.status = "APPROVED"
      OBVIOUS
  <2>2. o.status # "NONE"
      OBVIOUS
  <2> HIDE DEF p, A, R, o
  <2> QED BY <1>1, <1>2, <2>1, <2>2 DEF VotesMatch
<1>4. /\ proposals' = [proposals EXCEPT ![i] = p]
      /\ proposalApprovals' = [proposalApprovals EXCEPT ![i] = A]
      /\ proposalRejections' = [proposalRejections EXCEPT ![i] = R]
  <2>1. /\ proposals \in [ProposalIds -> Proposal]
        /\ proposalApprovals \in [ProposalIds -> SUBSET People]
        /\ proposalRejections \in [ProposalIds -> SUBSET People]
      BY DEF ProposalsInv, ProposalsTypeOK
  <2>2. proposals' = [proposals EXCEPT ![i] = p]
      BY <2>1
  <2> QED BY <2>1, <2>2
<1>5. A \ proposalApprovals[i] \subseteq hasSignerRole /\ R \ proposalRejections[i] \subseteq hasSignerRole
    OBVIOUS
<1> HIDE DEF p, A, R
<1> QED BY <1>1, <1>2, <1>3, <1>4, <1>5, OneProposalKept

LEMMA OlderType == \A age \in Nat : Older(age) \in Nat /\ (Expired(age) => Expired(Older(age)))
    BY TreasuryAssumption DEF Older, Expired

LEMMA ClockKeepsProposals ==
    ASSUME ProposalsInv, Tick
    PROVE  ProposalsInv' /\ ProposalVotesCast
<1>1. \A i \in ProposalIds :
        /\ proposals'[i] \in Proposal /\ proposals'[i].status = proposals[i].status
        /\ proposals'[i].approvalCount = proposals[i].approvalCount
        /\ proposals'[i].rejectionCount = proposals[i].rejectionCount
        /\ proposals'[i].requiredApprovals = proposals[i].requiredApprovals
        /\ proposals'[i].recipient = proposals[i].recipient
        /\ proposals'[i].token = proposals[i].token
  <2> TAKE i \in ProposalIds
  <2> DEFINE o == proposals[i]
             p == [o EXCEPT !.age = Older(@)]
  <2>1. o \in Proposal /\ proposals'[i] \in {o, p}
      BY DEF Tick, ProposalsInv, ProposalsTypeOK
  <2>2. /\ p \in Proposal /\ p.status = o.status /\ p.approvalCount = o.approvalCount
        /\ p.rejectionCount = o.rejectionCount /\ p.requiredApprovals = o.requiredApprovals
        /\ p.recipient = o.recipient /\ p.token = o.token
    <3> HIDE DEF o
    <3> QED BY <2>1, OlderType DEF Proposal
  <2> HIDE DEF o, p
  <2> QED BY <2>1, <2>2 DEF o
<1>2. UNCHANGED <<proposalApprovals, proposalRejections>>
    BY DEF Tick
<1>3. ProposalsTypeOK'
  <2>1. DOMAIN proposals' = ProposalIds /\ proposals' = [i \in ProposalIds |-> proposals'[i]]
      BY DEF Tick
  <2> QED BY <1>1, <1>2, <2>1 DEF ProposalsInv, ProposalsTypeOK
<1>4. \A i \in ProposalIds : VotesMatch(proposals[i], proposalApprovals[i], proposalRejections[i])'
    BY <1>1, <1>2 DEF ProposalsInv, VotesMatch
<1> QED BY <1>2, <1>3, <1>4 DEF ProposalsInv, ProposalVotesCast

LEMMA ProposalsKept ==
    ASSUME SignersTypeOK, ProposalsInv, [Next]_vars
    PROVE  ProposalsInv' /\ ProposalVotesCast
<1>1. CASE Propose
    BY <1>1, CreateKeepsProposals DEF Propose
<1>2. CASE \E i \in ProposalIds : Vote(i)
  <2>1. PICK i \in ProposalIds : Vote(i)
      BY <1>2
  <2>2. CASE \E x \in People : approveProposal(x, i) \/ rejectProposal(x, i)
      BY <2>2, ApproveKeepsProposals, RejectKeepsProposals
  <2>3. CASE cancelProposal(i)
      BY <2>3, ConcludeKeepsProposals DEF cancelProposal
  <2> QED BY <2>1, <2>2, <2>3 DEF Vote
<1>3. CASE \E i \in ProposalIds : Execute(i)
  <2>1. PICK i \in ProposalIds, x \in People : executeProposal(x, i)
      BY <1>3 DEF Execute
  <2> QED BY <2>1, ConcludeKeepsProposals DEF executeProposal
<1>4. CASE Tick
    BY <1>4, ClockKeepsProposals
<1>5. CASE UNCHANGED proposalVars
    BY <1>5 DEF proposalVars, ProposalsInv, ProposalsTypeOK, VotesMatch, ProposalVotesCast
<1>6. Recur \/ Yield \/ Signers \/ Allot \/ Administer \/ UNCHANGED vars => UNCHANGED proposalVars
    BY DEF Recur, Yield, Signers, Allot, Administer, vars, proposeRecurringPayment,
           createRecurringPayment, approveRecurringPayment, executeRecurringPayment,
           revokeRecurringPayment, approveYieldProtocol, allocateToYield, SetPaused,
           setSupportedToken
<1> QED BY <1>1, <1>2, <1>3, <1>4, <1>5, <1>6 DEF Next

(***************************************************************************)
(* Authorizations of recurring payments, the votes on them, and what they  *)
(* are consumed by.                                                        *)
(***************************************************************************)
MandatesTypeOK ==
    /\ recurringAuthorizations \in [AuthorizationIds -> RecurringAuthorization]
    /\ recurringAuthorizationApprovals \in [AuthorizationIds -> SUBSET People]
    /\ latestRecurringAuthorization \in [Terms -> AuthorizationIds \cup {None}]
    /\ recurringPayments \in [RecurringIds -> RecurringPayment]

ApprovalsMatch(auth, approvals) ==
    /\ auth.status = "NONE" => auth.terms = NoTerms
    /\ auth.status # "NONE" => auth.terms \in Terms
    /\ auth.approvalCount = Cardinality(approvals)
    /\ auth.status \in {"APPROVED", "CONSUMED"} => auth.approvalCount >= auth.requiredApprovals

Open(auth) == auth.status \in {"PENDING", "APPROVED"} /\ ~Expired(auth.age)

\* The one authorization that can be acted on for some terms is the latest.
LatestOpen ==
    \A t \in Terms :
        /\ latestRecurringAuthorization[t] # None =>
              recurringAuthorizations[latestRecurringAuthorization[t]].terms = t
        /\ \A a \in AuthorizationIds :
              recurringAuthorizations[a].terms = t /\ Open(recurringAuthorizations[a])
                => latestRecurringAuthorization[t] = a

AuthorizationsInv ==
    /\ \A a \in AuthorizationIds :
          ApprovalsMatch(recurringAuthorizations[a], recurringAuthorizationApprovals[a])
    /\ LatestOpen

PaymentSound(rp) ==
    /\ rp.active => rp.terms \in Terms
    /\ rp.terms \in Terms /\ rp.terms.maxExecutions > 0
         => rp.executionCount <= rp.terms.maxExecutions

PaymentsInv == \A r \in RecurringIds : PaymentSound(recurringPayments[r])

CreatedFor(t)  == {r \in RecurringIds : recurringPayments[r].terms = t}
ConsumedFor(t) == {a \in AuthorizationIds : recurringAuthorizations[a].terms = t
                                            /\ recurringAuthorizations[a].status = "CONSUMED"}
OneForOne == \A t \in Terms : Cardinality(CreatedFor(t)) = Cardinality(ConsumedFor(t))

MandatesInv == MandatesTypeOK /\ AuthorizationsInv /\ PaymentsInv /\ OneForOne

MandateVotesCast ==
    \A a \in AuthorizationIds :
        recurringAuthorizationApprovals'[a] \ recurringAuthorizationApprovals[a]
            \subseteq hasSignerRole

LEMMA TermsType ==
    \A t \in Terms : /\ t.recipient \in Recipients /\ t.token \in Tokens
                     /\ t.amount \in Nat /\ t.frequency \in Nat /\ t.maxExecutions \in Nat
                     /\ t.budgetId \in Charged
    BY TreasuryAssumption DEF Terms, Charged

LEMMA MandatesStart ==
    ASSUME recurringAuthorizations = [a \in AuthorizationIds |-> NoAuthorization],
           recurringAuthorizationApprovals = [a \in AuthorizationIds |-> {}],
           latestRecurringAuthorization = [t \in Terms |-> None],
           recurringPayments = [r \in RecurringIds |-> NoRecurring]
    PROVE  MandatesInv
<1>1. NoAuthorization \in RecurringAuthorization /\ NoRecurring \in RecurringPayment
    BY DEF NoAuthorization, RecurringAuthorization, RecurringAuthorizationStatus, TxTier,
           NoRecurring, RecurringPayment
<1>2. MandatesTypeOK
    BY <1>1 DEF MandatesTypeOK
<1>3. ApprovalsMatch(NoAuthorization, {})
    BY FS_EmptySet DEF ApprovalsMatch, NoAuthorization
<1>4. LatestOpen
    BY TermsAssumption DEF LatestOpen, NoAuthorization
<1>5. PaymentsInv
    BY TermsAssumption DEF PaymentsInv, PaymentSound, NoRecurring
<1>6. \A t \in Terms : CreatedFor(t) = {} /\ ConsumedFor(t) = {}
    BY TermsAssumption DEF CreatedFor, ConsumedFor, NoRecurring, NoAuthorization
<1> QED BY <1>2, <1>3, <1>4, <1>5, <1>6 DEF MandatesInv, AuthorizationsInv, OneForOne

\* Steps that leave the terms of all records alone, consume nothing, and open
\* no authorization.
LEMMA LatestStays ==
    ASSUME LatestOpen, UNCHANGED latestRecurringAuthorization,
           latestRecurringAuthorization \in [Terms -> AuthorizationIds \cup {None}],
           \A a \in AuthorizationIds :
              /\ recurringAuthorizations'[a].terms = recurringAuthorizations[a].terms
              /\ Open(recurringAuthorizations'[a]) => Open(recurringAuthorizations[a])
    PROVE  LatestOpen'
    BY DEF LatestOpen, Open, Expired

LEMMA CountsStay ==
    ASSUME OneForOne,
           \A a \in AuthorizationIds, t \in Terms : a \in ConsumedFor(t)' <=> a \in ConsumedFor(t),
           \A r \in RecurringIds, t \in Terms : r \in CreatedFor(t)' <=> r \in CreatedFor(t)
    PROVE  OneForOne'
<1> SUFFICES ASSUME NEW t \in Terms
             PROVE  CreatedFor(t)' = CreatedFor(t) /\ ConsumedFor(t)' = ConsumedFor(t)
    BY DEF OneForOne
<1>1. /\ CreatedFor(t) \subseteq RecurringIds /\ CreatedFor(t)' \subseteq RecurringIds
      /\ ConsumedFor(t) \subseteq AuthorizationIds /\ ConsumedFor(t)' \subseteq AuthorizationIds
    BY DEF CreatedFor, ConsumedFor
<1> QED BY <1>1

LEMMA ProposeKeepsMandates ==
    ASSUME SignersTypeOK, MandatesInv, NEW x \in People, NEW t \in Terms,
           NEW a \in AuthorizationIds, proposeRecurringPayment(x, t, a)
    PROVE  MandatesInv' /\ MandateVotesCast
<1> DEFINE tier == Tier(t.amount, FALSE)
           auth == [terms |-> t, approvalCount |-> 1, requiredApprovals |-> Required(tier),
                    tier |-> tier, age |-> 0,
                    status |-> IF Required(tier) = 1 THEN "APPROVED" ELSE "PENDING"]
           A == {_resolveApprover(x)}
<1>0. MandatesTypeOK /\ LatestOpen /\ OneForOne /\ PaymentsInv
      /\ \A c \in AuthorizationIds :
            ApprovalsMatch(recurringAuthorizations[c], recurringAuthorizationApprovals[c])
    BY DEF MandatesInv, AuthorizationsInv
<1>1. auth \in RecurringAuthorization /\ ApprovalsMatch(auth, A) /\ A \in SUBSET People
      /\ A \subseteq hasSignerRole /\ auth.terms = t /\ auth.status \in {"PENDING", "APPROVED"}
  <2>1. tier \in TxTier /\ Required(tier) \in Nat
      BY ThresholdType
  <2>2. A \in SUBSET People /\ A \subseteq hasSignerRole
      BY ApproverSigns DEF proposeRecurringPayment
  <2>3. Cardinality(A) = 1
      BY FS_Singleton
  <2> HIDE DEF tier, A
  <2> QED BY <2>1, <2>2, <2>3
          DEF RecurringAuthorization, RecurringAuthorizationStatus, ApprovalsMatch
<1>2. /\ recurringAuthorizations' = [recurringAuthorizations EXCEPT ![a] = auth]
      /\ recurringAuthorizationApprovals' = [recurringAuthorizationApprovals EXCEPT ![a] = A]
      /\ latestRecurringAuthorization' = [latestRecurringAuthorization EXCEPT ![t] = a]
      /\ recurringPayments' = recurringPayments
      /\ recurringAuthorizations[a].status = "NONE" /\ ~StillOpen(t)
    BY DEF proposeRecurringPayment
<1> HIDE DEF auth, A
<1>3. /\ recurringAuthorizations'[a] = auth /\ recurringAuthorizationApprovals'[a] = A
      /\ latestRecurringAuthorization'[t] = a
      /\ \A c \in AuthorizationIds \ {a} :
            /\ recurringAuthorizations'[c] = recurringAuthorizations[c]
            /\ recurringAuthorizationApprovals'[c] = recurringAuthorizationApprovals[c]
      /\ \A u \in Terms \ {t} : latestRecurringAuthorization'[u] = latestRecurringAuthorization[u]
    BY <1>0, <1>2 DEF MandatesTypeOK
<1>4. MandatesTypeOK'
    BY <1>0, <1>1, <1>2 DEF MandatesTypeOK
<1>5. \A c \in AuthorizationIds :
        ApprovalsMatch(recurringAuthorizations[c], recurringAuthorizationApprovals[c])'
  <2> TAKE c \in AuthorizationIds
  <2>1. CASE c = a
      BY <1>1, <1>3, <2>1 DEF ApprovalsMatch
  <2>2. CASE c # a
      BY <1>0, <1>3, <2>2 DEF ApprovalsMatch
  <2> QED BY <2>1, <2>2
<1>6. recurringAuthorizations[a].terms = NoTerms
    BY <1>0, <1>2 DEF ApprovalsMatch
<1>7. LatestOpen'
  <2>1. ASSUME NEW u \in Terms, latestRecurringAuthorization'[u] # None
        PROVE  recurringAuthorizations'[latestRecurringAuthorization'[u]].terms = u
    <3>1. CASE u = t
        BY <1>1, <1>3, <3>1
    <3>2. CASE u # t
      <4>1. latestRecurringAuthorization'[u] = latestRecurringAuthorization[u]
            /\ latestRecurringAuthorization[u] \in AuthorizationIds
          BY <1>0, <1>3, <2>1, <3>2 DEF MandatesTypeOK
      <4>2. recurringAuthorizations[latestRecurringAuthorization[u]].terms = u
          BY <1>0, <2>1, <4>1 DEF LatestOpen
      <4>3. latestRecurringAuthorization[u] # a
          BY <1>6, <4>2, TermsAssumption
      <4> QED BY <1>3, <4>1, <4>2, <4>3
    <3> QED BY <3>1, <3>2
  <2>2. ASSUME NEW u \in Terms, NEW c \in AuthorizationIds,
               recurringAuthorizations'[c].terms = u, Open(recurringAuthorizations'[c])
        PROVE  latestRecurringAuthorization'[u] = c
    <3>1. CASE c = a
        BY <1>1, <1>3, <2>2, <3>1
    <3>2. CASE c # a
      <4>1. recurringAuthorizations[c].terms = u /\ Open(recurringAuthorizations[c])
          BY <1>3, <2>2, <3>2
      <4>2. latestRecurringAuthorization[u] = c
          BY <1>0, <4>1 DEF LatestOpen
      <4>3. u # t
          BY <1>2, <4>1, <4>2, TreasuryAssumption DEF StillOpen, Open
      <4> QED BY <1>3, <4>2, <4>3
    <3> QED BY <3>1, <3>2
  <2> QED BY <2>1, <2>2 DEF LatestOpen, Open, Expired
<1>8. OneForOne'
  <2>1. \A c \in AuthorizationIds, u \in Terms : c \in ConsumedFor(u)' <=> c \in ConsumedFor(u)
    <3> TAKE c \in AuthorizationIds, u \in Terms
    <3>1. CASE c = a
        BY <1>1, <1>2, <1>3, <3>1 DEF ConsumedFor
    <3>2. CASE c # a
        BY <1>3, <3>2 DEF ConsumedFor
    <3> QED BY <3>1, <3>2
  <2>2. \A r \in RecurringIds, u \in Terms : r \in CreatedFor(u)' <=> r \in CreatedFor(u)
      BY <1>2 DEF CreatedFor
  <2> QED BY <1>0, <2>1, <2>2, CountsStay
<1>9. PaymentsInv'
    BY <1>0, <1>2 DEF PaymentsInv, PaymentSound
<1>10. MandateVotesCast
  <2> SUFFICES ASSUME NEW c \in AuthorizationIds
               PROVE  recurringAuthorizationApprovals'[c] \ recurringAuthorizationApprovals[c]
                          \subseteq hasSignerRole
      BY DEF MandateVotesCast
  <2>1. CASE c = a
      BY <1>1, <1>3, <2>1
  <2>2. CASE c # a
      BY <1>3, <2>2
  <2> QED BY <2>1, <2>2
<1> QED BY <1>4, <1>5, <1>7, <1>8, <1>9, <1>10 DEF MandatesInv, AuthorizationsInv

LEMMA ApproveKeepsMandates ==
    ASSUME SignersTypeOK, MandatesInv, NEW x \in People, NEW a \in AuthorizationIds,
           approveRecurringPayment(x, a)
    PROVE  MandatesInv' /\ MandateVotesCast
<1> DEFINE o == recurringAuthorizations[a]
           status == IF o.approvalCount + 1 >= o.requiredApprovals THEN "APPROVED" ELSE o.status
           auth == [o EXCEPT !.approvalCount = @ + 1, !.status = status]
           A == recurringAuthorizationApprovals[a] \cup {_resolveApprover(x)}
<1>0. MandatesTypeOK /\ LatestOpen /\ OneForOne /\ PaymentsInv
      /\ \A c \in AuthorizationIds :
            ApprovalsMatch(recurringAuthorizations[c], recurringAuthorizationApprovals[c])
    BY DEF MandatesInv, AuthorizationsInv
<1>1. /\ o \in RecurringAuthorization /\ o.status = "PENDING"
      /\ ApprovalsMatch(o, recurringAuthorizationApprovals[a])
      /\ recurringAuthorizationApprovals[a] \in SUBSET People
    BY <1>0 DEF MandatesTypeOK, approveRecurringPayment
<1>2. /\ _resolveApprover(x) \in hasSignerRole /\ _resolveApprover(x) \in People
      /\ _resolveApprover(x) \notin recurringAuthorizationApprovals[a]
    BY ApproverSigns DEF approveRecurringPayment
<1>3. /\ auth \in RecurringAuthorization /\ auth.approvalCount = o.approvalCount + 1
      /\ auth.status = status /\ auth.requiredApprovals = o.requiredApprovals
      /\ auth.terms = o.terms /\ auth.age = o.age /\ status \in {"PENDING", "APPROVED"}
  <2> HIDE DEF o
  <2>1. status \in {"PENDING", "APPROVED"} /\ o \in RecurringAuthorization
      BY <1>1
  <2> HIDE DEF status
  <2>2. o.approvalCount + 1 \in Nat
      BY <2>1 DEF RecurringAuthorization
  <2> QED BY <2>1, <2>2 DEF RecurringAuthorization, RecurringAuthorizationStatus
<1>4. A \in SUBSET People /\ Cardinality(A) = Cardinality(recurringAuthorizationApprovals[a]) + 1
      /\ A \ recurringAuthorizationApprovals[a] \subseteq hasSignerRole
    BY <1>1, <1>2, PeopleFinite
<1>5. ApprovalsMatch(auth, A)
  <2>1. status = "APPROVED" => o.approvalCount + 1 >= o.requiredApprovals
      BY <1>1
  <2> HIDE DEF auth, A, o, status
  <2> QED BY <1>1, <1>3, <1>4, <2>1 DEF ApprovalsMatch
<1>6. /\ recurringAuthorizations' = [recurringAuthorizations EXCEPT ![a] = auth]
      /\ recurringAuthorizationApprovals' = [recurringAuthorizationApprovals EXCEPT ![a] = A]
      /\ UNCHANGED <<latestRecurringAuthorization, recurringPayments>>
    BY <1>0 DEF approveRecurringPayment, MandatesTypeOK
<1> HIDE DEF auth, A, status
<1>7. /\ recurringAuthorizations'[a] = auth /\ recurringAuthorizationApprovals'[a] = A
      /\ \A c \in AuthorizationIds \ {a} :
            /\ recurringAuthorizations'[c] = recurringAuthorizations[c]
            /\ recurringAuthorizationApprovals'[c] = recurringAuthorizationApprovals[c]
    BY <1>0, <1>6 DEF MandatesTypeOK
<1>8. MandatesTypeOK'
    BY <1>0, <1>3, <1>4, <1>6 DEF MandatesTypeOK
<1>9. \A c \in AuthorizationIds :
        ApprovalsMatch(recurringAuthorizations[c], recurringAuthorizationApprovals[c])'
  <2> TAKE c \in AuthorizationIds
  <2>1. CASE c = a
      BY <1>5, <1>7, <2>1 DEF ApprovalsMatch
  <2>2. CASE c # a
      BY <1>0, <1>7, <2>2 DEF ApprovalsMatch
  <2> QED BY <2>1, <2>2
<1>10. \A c \in AuthorizationIds :
         /\ recurringAuthorizations'[c].terms = recurringAuthorizations[c].terms
         /\ recurringAuthorizations'[c].age = recurringAuthorizations[c].age
         /\ recurringAuthorizations'[c] = recurringAuthorizations[c]
            \/ /\ recurringAuthorizations'[c].status \in {"PENDING", "APPROVED"}
               /\ recurringAuthorizations[c].status = "PENDING"
    BY <1>1, <1>3, <1>7
<1>11. LatestOpen'
  <2>1. \A c \in AuthorizationIds :
          Open(recurringAuthorizations'[c]) => Open(recurringAuthorizations[c])
      BY <1>10 DEF Open
  <2> QED BY <1>0, <1>6, <1>10, <2>1, LatestStays DEF MandatesTypeOK
<1>12. OneForOne'
  <2>1. \A c \in AuthorizationIds, u \in Terms : c \in ConsumedFor(u)' <=> c \in ConsumedFor(u)
      BY <1>10 DEF ConsumedFor
  <2>2. \A r \in RecurringIds, u \in Terms : r \in CreatedFor(u)' <=> r \in CreatedFor(u)
      BY <1>6 DEF CreatedFor
  <2> QED BY <1>0, <2>1, <2>2, CountsStay
<1>13. PaymentsInv'
    BY <1>0, <1>6 DEF PaymentsInv, PaymentSound
<1>14. MandateVotesCast
  <2> SUFFICES ASSUME NEW c \in AuthorizationIds
               PROVE  recurringAuthorizationApprovals'[c] \ recurringAuthorizationApprovals[c]
                          \subseteq hasSignerRole
      BY DEF MandateVotesCast
  <2>1. CASE c = a
      BY <1>4, <1>7, <2>1
  <2>2. CASE c # a
      BY <1>7, <2>2
  <2> QED BY <2>1, <2>2
<1> QED BY <1>8, <1>9, <1>11, <1>12, <1>13, <1>14 DEF MandatesInv, AuthorizationsInv

\* The authorization is consumed and the payment created in one step, for the
\* same terms.
LEMMA ConsumeKeepsMandates ==
    ASSUME MandatesInv, NEW t \in Terms, NEW r \in RecurringIds, createRecurringPayment(t, r)
    PROVE  MandatesInv' /\ MandateVotesCast
<1> DEFINE a == latestRecurringAuthorization[t]
           o == recurringAuthorizations[a]
           auth == [o EXCEPT !.status = "CONSUMED"]
           rp == [terms |-> t, left |-> t.frequency, executionCount |-> 0, active |-> TRUE]
<1>0. MandatesTypeOK /\ LatestOpen /\ OneForOne /\ PaymentsInv
      /\ \A c \in AuthorizationIds :
            ApprovalsMatch(recurringAuthorizations[c], recurringAuthorizationApprovals[c])
    BY DEF MandatesInv, AuthorizationsInv
<1>1. /\ a \in AuthorizationIds /\ o \in RecurringAuthorization /\ o.status = "APPROVED"
      /\ o.terms = t /\ ApprovalsMatch(o, recurringAuthorizationApprovals[a])
  <2>1. a \in AuthorizationIds /\ a # None /\ o.status = "APPROVED"
      BY <1>0 DEF createRecurringPayment, MandatesTypeOK
  <2>2. o \in RecurringAuthorization
      BY <1>0, <2>1 DEF MandatesTypeOK
  <2>3. o.terms = t
      BY <1>0, <2>1 DEF LatestOpen
  <2> QED BY <1>0, <2>1, <2>2, <2>3
<1>2. /\ auth \in RecurringAuthorization /\ auth.status = "CONSUMED"
      /\ auth.approvalCount = o.approvalCount /\ auth.requiredApprovals = o.requiredApprovals
      /\ auth.terms = t
  <2> HIDE DEF o
  <2> QED BY <1>1 DEF RecurringAuthorization, RecurringAuthorizationStatus
<1>3. ApprovalsMatch(auth, recurringAuthorizationApprovals[a])
  <2> HIDE DEF auth, o, a
  <2> QED BY <1>1, <1>2 DEF ApprovalsMatch
<1>4. rp \in RecurringPayment /\ rp.terms = t /\ PaymentSound(rp)
    BY TermsType DEF RecurringPayment, PaymentSound
<1>5. /\ recurringAuthorizations' = [recurringAuthorizations EXCEPT ![a] = auth]
      /\ recurringPayments' = [recurringPayments EXCEPT ![r] = rp]
      /\ recurringPayments[r].terms = NoTerms
      /\ UNCHANGED <<recurringAuthorizationApprovals, latestRecurringAuthorization>>
    BY DEF createRecurringPayment
<1> HIDE DEF auth, rp, o, a
<1>6. /\ recurringAuthorizations'[a] = auth /\ recurringAuthorizations[a] = o
      /\ \A c \in AuthorizationIds \ {a} :
            recurringAuthorizations'[c] = recurringAuthorizations[c]
      /\ recurringPayments'[r] = rp
      /\ \A q \in RecurringIds \ {r} : recurringPayments'[q] = recurringPayments[q]
    BY <1>0, <1>1, <1>5 DEF MandatesTypeOK, o
<1>7. MandatesTypeOK'
    BY <1>0, <1>2, <1>4, <1>5 DEF MandatesTypeOK
<1>8. \A c \in AuthorizationIds :
        ApprovalsMatch(recurringAuthorizations[c], recurringAuthorizationApprovals[c])'
  <2> TAKE c \in AuthorizationIds
  <2>1. CASE c = a
      BY <1>3, <1>5, <1>6, <2>1 DEF ApprovalsMatch
  <2>2. CASE c # a
      BY <1>0, <1>5, <1>6, <2>2 DEF ApprovalsMatch
  <2> QED BY <2>1, <2>2
<1>9. LatestOpen'
  <2>1. \A c \in AuthorizationIds :
          /\ recurringAuthorizations'[c].terms = recurringAuthorizations[c].terms
          /\ Open(recurringAuthorizations'[c]) => Open(recurringAuthorizations[c])
    <3> TAKE c \in AuthorizationIds
    <3>1. CASE c = a
        BY <1>1, <1>2, <1>6, <3>1 DEF Open
    <3>2. CASE c # a
        BY <1>6, <3>2
    <3> QED BY <3>1, <3>2
  <2> QED BY <1>0, <1>5, <2>1, LatestStays DEF MandatesTypeOK
<1>10. PaymentsInv'
  <2> SUFFICES ASSUME NEW q \in RecurringIds PROVE PaymentSound(recurringPayments'[q])
      BY DEF PaymentsInv, PaymentSound
  <2>1. CASE q = r
      BY <1>4, <1>6, <2>1
  <2>2. CASE q # r
      BY <1>0, <1>6, <2>2 DEF PaymentsInv
  <2> QED BY <2>1, <2>2
<1>11. OneForOne'
  <2> SUFFICES ASSUME NEW u \in Terms
               PROVE  Cardinality(CreatedFor(u)') = Cardinality(ConsumedFor(u)')
      BY DEF OneForOne
  <2>0. /\ IsFiniteSet(CreatedFor(u)) /\ IsFiniteSet(ConsumedFor(u))
        /\ Cardinality(CreatedFor(u)) = Cardinality(ConsumedFor(u))
    <3>1. CreatedFor(u) \in SUBSET RecurringIds /\ ConsumedFor(u) \in SUBSET AuthorizationIds
        BY DEF CreatedFor, ConsumedFor
    <3> QED BY <1>0, <3>1, TreasuryAssumption, FS_Subset DEF OneForOne
  <2>1. CASE u = t
    <3>1. r \notin CreatedFor(u) /\ CreatedFor(u)' = CreatedFor(u) \cup {r}
      <4>1. r \notin CreatedFor(u) /\ r \in CreatedFor(u)'
          BY <1>4, <1>5, <1>6, <2>1, TermsAssumption DEF CreatedFor
      <4>2. \A q \in RecurringIds \ {r} : q \in CreatedFor(u)' <=> q \in CreatedFor(u)
          BY <1>6 DEF CreatedFor
      <4>3. CreatedFor(u) \subseteq RecurringIds /\ CreatedFor(u)' \subseteq RecurringIds
          BY DEF CreatedFor
      <4> QED BY <4>1, <4>2, <4>3
    <3>2. a \notin ConsumedFor(u) /\ ConsumedFor(u)' = ConsumedFor(u) \cup {a}
      <4>1. a \notin ConsumedFor(u) /\ a \in ConsumedFor(u)'
          BY <1>1, <1>2, <1>6, <2>1 DEF ConsumedFor
      <4>2. \A c \in AuthorizationIds \ {a} : c \in ConsumedFor(u)' <=> c \in ConsumedFor(u)
          BY <1>6 DEF ConsumedFor
      <4>3. ConsumedFor(u) \subseteq AuthorizationIds /\ ConsumedFor(u)' \subseteq AuthorizationIds
          BY DEF ConsumedFor
      <4> QED BY <4>1, <4>2, <4>3
    <3>3. /\ Cardinality(CreatedFor(u) \cup {r}) = Cardinality(CreatedFor(u)) + 1
          /\ Cardinality(ConsumedFor(u) \cup {a}) = Cardinality(ConsumedFor(u)) + 1
        BY <2>0, <3>1, <3>2, FS_AddElement
    <3> QED BY <2>0, <3>1, <3>2, <3>3
  <2>2. CASE u # t
    <3>1. \A q \in RecurringIds : q \in CreatedFor(u)' <=> q \in CreatedFor(u)
      <4> TAKE q \in RecurringIds
      <4>1. CASE q = r
          BY <1>4, <1>5, <1>6, <2>2, <4>1, TermsAssumption DEF CreatedFor
      <4>2. CASE q # r
          BY <1>6, <4>2 DEF CreatedFor
      <4> QED BY <4>1, <4>2
    <3>2. \A c \in AuthorizationIds : c \in ConsumedFor(u)' <=> c \in ConsumedFor(u)
      <4> TAKE c \in AuthorizationIds
      <4>1. CASE c = a
          BY <1>1, <1>2, <1>6, <2>2, <4>1 DEF ConsumedFor
      <4>2. CASE c # a
          BY <1>6, <4>2 DEF ConsumedFor
      <4> QED BY <4>1, <4>2
    <3>3. /\ CreatedFor(u) \subseteq RecurringIds /\ CreatedFor(u)' \subseteq RecurringIds
          /\ ConsumedFor(u) \subseteq AuthorizationIds /\ ConsumedFor(u)' \subseteq AuthorizationIds
        BY DEF CreatedFor, ConsumedFor
    <3>4. CreatedFor(u)' = CreatedFor(u) /\ ConsumedFor(u)' = ConsumedFor(u)
        BY <3>1, <3>2, <3>3
    <3> QED BY <2>0, <3>4
  <2> QED BY <2>1, <2>2
<1>12. MandateVotesCast
    BY <1>5 DEF MandateVotesCast
<1> QED BY <1>7, <1>8, <1>9, <1>10, <1>11, <1>12 DEF MandatesInv, AuthorizationsInv

\* Steps that change a payment, but not its terms.
LEMMA PaymentKeepsMandates ==
    ASSUME MandatesInv, NEW r \in RecurringIds, NEW rp \in RecurringPayment, PaymentSound(rp),
           rp.terms = recurringPayments[r].terms,
           recurringPayments' = [recurringPayments EXCEPT ![r] = rp],
           UNCHANGED <<recurringAuthorizations, recurringAuthorizationApprovals,
                       latestRecurringAuthorization>>
    PROVE  MandatesInv' /\ MandateVotesCast
<1>1. MandatesTypeOK'
    BY DEF MandatesInv, MandatesTypeOK
<1>2. /\ recurringPayments'[r] = rp
      /\ \A q \in RecurringIds \ {r} : recurringPayments'[q] = recurringPayments[q]
    BY DEF MandatesInv, MandatesTypeOK
<1>3. AuthorizationsInv'
    BY DEF MandatesInv, AuthorizationsInv, ApprovalsMatch, LatestOpen, Open, Expired
<1>4. PaymentsInv'
  <2> SUFFICES ASSUME NEW q \in RecurringIds PROVE PaymentSound(recurringPayments'[q])
      BY DEF PaymentsInv, PaymentSound
  <2> QED BY <1>2 DEF MandatesInv, PaymentsInv
<1>5. OneForOne'
  <2>1. \A c \in AuthorizationIds, u \in Terms : c \in ConsumedFor(u)' <=> c \in ConsumedFor(u)
      BY DEF ConsumedFor
  <2>2. \A q \in RecurringIds, u \in Terms : q \in CreatedFor(u)' <=> q \in CreatedFor(u)
      BY <1>2 DEF CreatedFor
  <2> QED BY <2>1, <2>2, CountsStay DEF MandatesInv
<1>6. MandateVotesCast
    BY DEF MandateVotesCast
<1> QED BY <1>1, <1>3, <1>4, <1>5, <1>6 DEF MandatesInv

LEMMA ExecuteKeepsMandates ==
    ASSUME MandatesInv, NEW r \in RecurringIds, executeRecurringPayment(r)
    PROVE  MandatesInv' /\ MandateVotesCast
<1> DEFINE o == recurringPayments[r]
           frequency == o.terms.frequency
           rp == [o EXCEPT !.executionCount = @ + 1, !.left = frequency]
<1>1. /\ o \in RecurringPayment /\ o.active /\ o.terms \in Terms /\ PaymentSound(o)
      /\ o.terms.maxExecutions > 0 => o.executionCount < o.terms.maxExecutions
    BY DEF executeRecurringPayment, MandatesInv, MandatesTypeOK, PaymentsInv, PaymentSound
<1>2. o.terms.frequency \in Nat /\ o.terms.maxExecutions \in Nat /\ o.executionCount \in Nat
    BY <1>1, TermsType DEF RecurringPayment
<1>3. recurringPayments' = [recurringPayments EXCEPT ![r] = rp]
    BY DEF executeRecurringPayment, MandatesInv, MandatesTypeOK
<1>4. rp \in RecurringPayment /\ rp.terms = o.terms /\ rp.executionCount = o.executionCount + 1
  <2>1. o \in RecurringPayment /\ frequency \in Nat /\ o.executionCount + 1 \in Nat
      BY <1>1, <1>2
  <2> HIDE DEF o, frequency
  <2> QED BY <2>1 DEF RecurringPayment
<1>5. PaymentSound(rp)
  <2> HIDE DEF rp, o
  <2> QED BY <1>1, <1>2, <1>4 DEF PaymentSound
<1> HIDE DEF rp
<1> QED BY <1>3, <1>4, <1>5, PaymentKeepsMandates DEF executeRecurringPayment

LEMMA RevokeKeepsMandates ==
    ASSUME MandatesInv, NEW x \in People, NEW r \in RecurringIds, revokeRecurringPayment(x, r)
    PROVE  MandatesInv' /\ MandateVotesCast
<1> DEFINE o == recurringPayments[r]
           rp == [o EXCEPT !.active = FALSE]
<1>1. o \in RecurringPayment /\ PaymentSound(o)
    BY DEF MandatesInv, MandatesTypeOK, PaymentsInv
<1>2. recurringPayments' = [recurringPayments EXCEPT ![r] = rp]
    BY DEF revokeRecurringPayment, MandatesInv, MandatesTypeOK
<1>3. rp \in RecurringPayment /\ rp.terms = o.terms /\ PaymentSound(rp)
  <2> HIDE DEF o
  <2> QED BY <1>1 DEF RecurringPayment, PaymentSound
<1> HIDE DEF rp
<1> QED BY <1>2, <1>3, PaymentKeepsMandates DEF revokeRecurringPayment

LEMMA ClockKeepsMandates ==
    ASSUME MandatesInv, Tick
    PROVE  MandatesInv' /\ MandateVotesCast
<1>0. MandatesTypeOK /\ LatestOpen /\ OneForOne /\ PaymentsInv
      /\ \A c \in AuthorizationIds :
            ApprovalsMatch(recurringAuthorizations[c], recurringAuthorizationApprovals[c])
    BY DEF MandatesInv, AuthorizationsInv
<1>1. UNCHANGED <<recurringAuthorizationApprovals, latestRecurringAuthorization>>
    BY DEF Tick
<1>2. \A c \in AuthorizationIds :
        /\ recurringAuthorizations'[c] \in RecurringAuthorization
        /\ recurringAuthorizations'[c].terms = recurringAuthorizations[c].terms
        /\ recurringAuthorizations'[c].status = recurringAuthorizations[c].status
        /\ recurringAuthorizations'[c].approvalCount = recurringAuthorizations[c].approvalCount
        /\ recurringAuthorizations'[c].requiredApprovals
             = recurringAuthorizations[c].requiredApprovals
        /\ Open(recurringAuthorizations'[c]) => Open(recurringAuthorizations[c])
  <2> TAKE c \in AuthorizationIds
  <2> DEFINE o == recurringAuthorizations[c]
             auth == [o EXCEPT !.age = Older(@)]
  <2>1. o \in RecurringAuthorization /\ recurringAuthorizations'[c] \in {o, auth}
      BY <1>0 DEF Tick, MandatesTypeOK
  <2>2. /\ auth \in RecurringAuthorization /\ auth.terms = o.terms /\ auth.status = o.status
        /\ auth.approvalCount = o.approvalCount /\ auth.requiredApprovals = o.requiredApprovals
        /\ Expired(o.age) => Expired(auth.age)
    <3> HIDE DEF o
    <3> QED BY <2>1, OlderType DEF RecurringAuthorization
  <2>3. Open(auth) => Open(o)
    <3> HIDE DEF o, auth
    <3> QED BY <2>2 DEF Open
  <2> HIDE DEF o, auth
  <2> QED BY <2>1, <2>2, <2>3 DEF o
<1>3. \A r \in RecurringIds :
        /\ recurringPayments'[r] \in RecurringPayment
        /\ recurringPayments'[r].terms = recurringPayments[r].terms
        /\ recurringPayments'[r].executionCount = recurringPayments[r].executionCount
        /\ recurringPayments'[r].active = recurringPayments[r].active
  <2> TAKE r \in RecurringIds
  <2> DEFINE o == recurringPayments[r]
             rp == [o EXCEPT !.left = @ - 1]
  <2>1. o \in RecurringPayment
        /\ recurringPayments'[r] = IF o.left > 0 THEN rp ELSE o
      BY <1>0 DEF Tick, MandatesTypeOK
  <2>2. o.left > 0 => rp \in RecurringPayment
    <3> HIDE DEF o
    <3> QED BY <2>1 DEF RecurringPayment
  <2>3. rp.terms = o.terms /\ rp.executionCount = o.executionCount /\ rp.active = o.active
    <3> HIDE DEF o
    <3> QED BY <2>1 DEF RecurringPayment
  <2> HIDE DEF o, rp
  <2> QED BY <2>1, <2>2, <2>3 DEF o
<1>4. MandatesTypeOK'
  <2>1. /\ recurringAuthorizations' = [c \in AuthorizationIds |-> recurringAuthorizations'[c]]
        /\ recurringPayments' = [r \in RecurringIds |-> recurringPayments'[r]]
      BY DEF Tick
  <2>2. recurringAuthorizations' \in [AuthorizationIds -> RecurringAuthorization]
      BY <1>2, <2>1
  <2>3. recurringPayments' \in [RecurringIds -> RecurringPayment]
      BY <1>3, <2>1
  <2> QED BY <1>0, <1>1, <2>2, <2>3 DEF MandatesTypeOK
<1>5. \A c \in AuthorizationIds :
        ApprovalsMatch(recurringAuthorizations[c], recurringAuthorizationApprovals[c])'
    BY <1>0, <1>1, <1>2 DEF ApprovalsMatch
<1>6. LatestOpen'
    BY <1>0, <1>1, <1>2, LatestStays DEF MandatesTypeOK
<1>7. PaymentsInv'
    BY <1>0, <1>3 DEF PaymentsInv, PaymentSound
<1>8. OneForOne'
  <2>1. \A c \in AuthorizationIds, u \in Terms : c \in ConsumedFor(u)' <=> c \in ConsumedFor(u)
      BY <1>2 DEF ConsumedFor
  <2>2. \A r \in RecurringIds, u \in Terms : r \in CreatedFor(u)' <=> r \in CreatedFor(u)
      BY <1>3 DEF CreatedFor
  <2> QED BY <1>0, <2>1, <2>2, CountsStay
<1>9. MandateVotesCast
    BY <1>1 DEF MandateVotesCast
<1> QED BY <1>4, <1>5, <1>6, <1>7, <1>8, <1>9 DEF MandatesInv, AuthorizationsInv

LEMMA MandatesKept ==
    ASSUME SignersTypeOK, MandatesInv, [Next]_vars
    PROVE  MandatesInv' /\ MandateVotesCast
<1>1. CASE Recur
  <2>1. CASE \E t \in Terms, x \in People, a \in AuthorizationIds :
               proposeRecurringPayment(x, t, a)
      BY <2>1, ProposeKeepsMandates
  <2>2. CASE \E t \in Terms, r \in RecurringIds : createRecurringPayment(t, r)
      BY <2>2, ConsumeKeepsMandates
  <2>3. CASE \E x \in People, a \in AuthorizationIds : approveRecurringPayment(x, a)
      BY <2>3, ApproveKeepsMandates
  <2>4. CASE \E r \in RecurringIds : executeRecurringPayment(r)
      BY <2>4, ExecuteKeepsMandates
  <2>5. CASE \E r \in RecurringIds, x \in People : revokeRecurringPayment(x, r)
      BY <2>5, RevokeKeepsMandates
  <2> QED BY <1>1, <2>1, <2>2, <2>3, <2>4, <2>5 DEF Recur
<1>2. CASE Tick
    BY <1>2, ClockKeepsMandates
<1>3. CASE UNCHANGED recurringVars
    BY <1>3 DEF recurringVars, MandatesInv, MandatesTypeOK, AuthorizationsInv, ApprovalsMatch,
                LatestOpen, Open, Expired, PaymentsInv, PaymentSound, OneForOne, CreatedFor,
                ConsumedFor, MandateVotesCast
<1>4. CASE Propose
    BY <1>3, <1>4 DEF Propose, createProposal
<1>5. CASE \E i \in ProposalIds : Vote(i) \/ Execute(i)
    BY <1>3, <1>5 DEF Vote, Execute, approveProposal, rejectProposal, cancelProposal,
                      executeProposal
<1>6. Yield \/ Signers \/ Allot \/ Administer \/ UNCHANGED vars => UNCHANGED recurringVars
    BY DEF Yield, Signers, Allot, Administer, vars, approveYieldProtocol, allocateToYield,
           SetPaused, setSupportedToken
<1> QED BY <1>1, <1>2, <1>3, <1>4, <1>5, <1>6 DEF Next

(***************************************************************************)
(* What was spent, and the ledger of the tokens.                           *)
(***************************************************************************)
LedgerTypeOK ==
    /\ yieldProtocols \in [Protocols -> YieldProtocol]
    /\ supportedTokens \subseteq Tokens \ {Native} /\ paused \in BOOLEAN
    /\ balanceOf \in [Tokens -> [Holders -> Nat]]

If(condition, value) == IF condition THEN value ELSE 0

LEMMA SpentSets == \A T, K, A :
    /\ ExecutedFor(T, K, A) \in SUBSET ProposalIds /\ IsFiniteSet(ExecutedFor(T, K, A))
    /\ RepeatedFor(T, K, A) \in SUBSET RecurringIds /\ IsFiniteSet(RepeatedFor(T, K, A))
<1> TAKE T, K, A
<1>1. ExecutedFor(T, K, A) \in SUBSET ProposalIds /\ RepeatedFor(T, K, A) \in SUBSET RecurringIds
    BY DEF ExecutedFor, RepeatedFor
<1> QED BY <1>1, TreasuryAssumption, FS_Subset

LEMMA SummandTypes ==
    ASSUME ProposalsTypeOK, MandatesTypeOK
    PROVE  /\ \A i \in ProposalIds : proposed[i] = proposals[i].amount /\ proposed[i] \in Nat
           /\ \A r \in RecurringIds :
                 /\ repeated[r] \in Nat
                 /\ recurringPayments[r].terms # NoTerms => repeated[r] =
                      recurringPayments[r].executionCount * recurringPayments[r].terms.amount
<1>1. \A i \in ProposalIds : proposed[i] = proposals[i].amount /\ proposed[i] \in Nat
    BY DEF ProposalsTypeOK, Proposal, proposed
<1>2. ASSUME NEW r \in RecurringIds
      PROVE  /\ repeated[r] \in Nat
             /\ recurringPayments[r].terms # NoTerms => repeated[r] =
                  recurringPayments[r].executionCount * recurringPayments[r].terms.amount
  <2>1. recurringPayments[r] \in RecurringPayment
      BY DEF MandatesTypeOK
  <2>2. CASE recurringPayments[r].terms = NoTerms
      BY <2>2 DEF repeated
  <2>3. CASE recurringPayments[r].terms # NoTerms
    <3> DEFINE count == recurringPayments[r].executionCount
               amount == recurringPayments[r].terms.amount
    <3>1. count \in Nat /\ amount \in Nat
        BY <2>1, <2>3, TermsType DEF RecurringPayment
    <3>2. repeated[r] = count * amount
        BY <2>3 DEF repeated
    <3> HIDE DEF count, amount
    <3>3. count * amount \in Nat
        BY <3>1
    <3> QED BY <3>2, <3>3 DEF count, amount
  <2> QED BY <2>2, <2>3
<1> QED BY <1>1, <1>2

LEMMA SpentType ==
    ASSUME ProposalsTypeOK, MandatesTypeOK
    PROVE  \A T, K, A : Spent(T, K, A) \in Nat
<1> TAKE T, K, A
<1> DEFINE S == ExecutedFor(T, K, A)
           R == RepeatedFor(T, K, A)
<1>1. /\ S \in SUBSET ProposalIds /\ IsFiniteSet(S) /\ R \in SUBSET RecurringIds /\ IsFiniteSet(R)
      /\ \A i \in S : proposed[i] \in Nat
      /\ \A r \in R : repeated[r] \in Nat
    BY SpentSets, SummandTypes
<1>2. Spent(T, K, A) = SumFunctionOnSet(proposed, S) + SumFunctionOnSet(repeated, R)
    BY DEF Spent
<1> HIDE DEF S, R
<1>3. SumFunctionOnSet(proposed, S) \in Nat
    BY <1>1, SumNat
<1>4. SumFunctionOnSet(repeated, R) \in Nat
    BY <1>1, SumNat
<1> QED BY <1>2, <1>3, <1>4

\* What a step that executes nothing and repeats nothing leaves as it is.
ProposalsSpendTheSame ==
    \A i \in ProposalIds :
        /\ proposals'[i].status = "EXECUTED" <=> proposals[i].status = "EXECUTED"
        /\ proposals[i].status = "EXECUTED" =>
              /\ proposals'[i].recipient = proposals[i].recipient
              /\ proposals'[i].token = proposals[i].token
              /\ proposals'[i].budgetId = proposals[i].budgetId
              /\ proposals'[i].amount = proposals[i].amount

PaymentsSpendTheSame ==
    \A r \in RecurringIds :
        /\ recurringPayments'[r].terms = recurringPayments[r].terms
        /\ recurringPayments'[r].executionCount = recurringPayments[r].executionCount

LEMMA ProposedStays ==
    ASSUME ProposalsTypeOK, MandatesTypeOK, ProposalsTypeOK', MandatesTypeOK',
           ProposalsSpendTheSame
    PROVE  \A T, K, A : SumFunctionOnSet(proposed', ExecutedFor(T, K, A)')
                          = SumFunctionOnSet(proposed, ExecutedFor(T, K, A))
<1> TAKE T, K, A
<1> DEFINE S == ExecutedFor(T, K, A)
           S1 == ExecutedFor(T, K, A)'
<1>1. S \in SUBSET ProposalIds /\ IsFiniteSet(S)
    BY SpentSets
<1>2. S1 = S
    BY DEF ExecutedFor, For, ProposalsSpendTheSame
<1>3. \A i \in S : proposed[i] = proposed'[i]
    BY DEF ExecutedFor, ProposalsSpendTheSame, proposed
<1> HIDE DEF S, S1
<1>4. SumFunctionOnSet(proposed, S) = SumFunctionOnSet(proposed', S)
    BY <1>1, <1>3, SumSame
<1> QED BY <1>2, <1>4 DEF S, S1

LEMMA RepeatedStays ==
    ASSUME PaymentsSpendTheSame
    PROVE  \A T, K, A : SumFunctionOnSet(repeated', RepeatedFor(T, K, A)')
                          = SumFunctionOnSet(repeated, RepeatedFor(T, K, A))
<1> TAKE T, K, A
<1> DEFINE R == RepeatedFor(T, K, A)
           R1 == RepeatedFor(T, K, A)'
<1>1. R \in SUBSET RecurringIds /\ IsFiniteSet(R)
    BY SpentSets
<1>2. R1 = R
    BY DEF RepeatedFor, For, PaymentsSpendTheSame
<1>3. \A r \in R : repeated[r] = repeated'[r]
    BY DEF RepeatedFor, PaymentsSpendTheSame, repeated
<1> HIDE DEF R, R1
<1>4. SumFunctionOnSet(repeated, R) = SumFunctionOnSet(repeated', R)
    BY <1>1, <1>3, SumSame
<1> QED BY <1>2, <1>4 DEF R, R1

LEMMA SpentStays ==
    ASSUME ProposalsTypeOK, MandatesTypeOK, ProposalsTypeOK', MandatesTypeOK',
           ProposalsSpendTheSame, PaymentsSpendTheSame
    PROVE  \A T, K, A : Spent(T, K, A)' = Spent(T, K, A)
<1> TAKE T, K, A
<1>1. SumFunctionOnSet(proposed', ExecutedFor(T, K, A)')
        = SumFunctionOnSet(proposed, ExecutedFor(T, K, A))
    BY ProposedStays
<1>2. SumFunctionOnSet(repeated', RepeatedFor(T, K, A)')
        = SumFunctionOnSet(repeated, RepeatedFor(T, K, A))
    BY RepeatedStays
<1> QED BY <1>1, <1>2 DEF Spent

LEMMA ProposalSpends ==
    ASSUME ProposalsTypeOK, MandatesTypeOK, ProposalsTypeOK', MandatesTypeOK',
           NEW i \in ProposalIds, proposals[i].status # "EXECUTED",
           proposals' = [proposals EXCEPT ![i].status = "EXECUTED"], PaymentsSpendTheSame
    PROVE  \A T, K, A : Spent(T, K, A)' = Spent(T, K, A)
                          + If(For(proposals[i], T, K, A), proposals[i].amount)
<1> TAKE T, K, A
<1> DEFINE S == ExecutedFor(T, K, A)
           S1 == ExecutedFor(T, K, A)'
           f == proposed
           g == proposed'
           charged == For(proposals[i], T, K, A)
<1>1. /\ proposals'[i].status = "EXECUTED" /\ proposals'[i].amount = proposals[i].amount
      /\ For(proposals'[i], T, K, A) <=> charged
      /\ \A j \in ProposalIds \ {i} : proposals'[j] = proposals[j]
    BY DEF ProposalsTypeOK, Proposal, For
<1>2. /\ S \in SUBSET ProposalIds /\ IsFiniteSet(S) /\ S1 \in SUBSET ProposalIds
      /\ IsFiniteSet(S1)
  <2>1. S1 \in SUBSET ProposalIds
      BY DEF ExecutedFor
  <2> QED BY <2>1, SpentSets, TreasuryAssumption, FS_Subset
<1>3. i \notin S /\ (i \in S1 <=> charged)
    BY <1>1 DEF ExecutedFor, For
<1>4. \A j \in ProposalIds \ {i} : j \in S1 <=> j \in S
    BY <1>1 DEF ExecutedFor, For
<1>5. \A j \in ProposalIds : f[j] \in Int /\ g[j] \in Int
  <2>1. \A j \in ProposalIds : proposed'[j] \in Int
      BY DEF ProposalsTypeOK, Proposal, proposed
  <2> QED BY <2>1, SummandTypes
<1>6. g[i] = proposals[i].amount /\ \A j \in ProposalIds \ {i} : f[j] = g[j]
    BY <1>1 DEF proposed
<1>7. SumFunctionOnSet(repeated', RepeatedFor(T, K, A)')
        = SumFunctionOnSet(repeated, RepeatedFor(T, K, A))
    BY RepeatedStays
<1>8. /\ Spent(T, K, A) = SumFunctionOnSet(f, S) + SumFunctionOnSet(repeated, RepeatedFor(T, K, A))
      /\ Spent(T, K, A)' = SumFunctionOnSet(g, S1)
            + SumFunctionOnSet(repeated', RepeatedFor(T, K, A)')
    BY DEF Spent
<1>9. SumFunctionOnSet(repeated, RepeatedFor(T, K, A)) \in Int
  <2>1. \A r \in RepeatedFor(T, K, A) : repeated[r] \in Int
      BY SpentSets, SummandTypes
  <2> QED BY <2>1, SpentSets, SumInt
<1> HIDE DEF S, S1, f, g, charged
<1>10. SumFunctionOnSet(f, S) \in Int
    BY <1>2, <1>5, SumInt
<1>11. CASE charged
  <2>1. S1 = S \cup {i}
      BY <1>2, <1>3, <1>4, <1>11
  <2>2. SumFunctionOnSet(g, S \cup {i}) = g[i] + SumFunctionOnSet(g, S)
      BY <1>2, <1>3, <1>5, SumAdd
  <2>3. SumFunctionOnSet(f, S) = SumFunctionOnSet(g, S)
      BY <1>2, <1>3, <1>6, SumSame
  <2>4. g[i] \in Int
      BY <1>5
  <2>5. If(charged, proposals[i].amount) = g[i]
      BY <1>6, <1>11 DEF If
  <2> QED BY <1>7, <1>8, <1>9, <1>10, <2>1, <2>2, <2>3, <2>4, <2>5 DEF charged
<1>12. CASE ~charged
  <2>1. S1 = S
      BY <1>2, <1>3, <1>4, <1>12
  <2>2. SumFunctionOnSet(f, S) = SumFunctionOnSet(g, S)
      BY <1>2, <1>3, <1>6, SumSame
  <2>3. If(charged, proposals[i].amount) = 0
      BY <1>12 DEF If
  <2> QED BY <1>7, <1>8, <1>9, <1>10, <2>1, <2>2, <2>3 DEF charged
<1> QED BY <1>11, <1>12

\* A payment is created, or repeated once more.
LEMMA PaymentSpends ==
    ASSUME ProposalsTypeOK, MandatesTypeOK, ProposalsTypeOK', MandatesTypeOK',
           NEW r \in RecurringIds, NEW t \in Terms, recurringPayments'[r].terms = t,
           recurringPayments[r].terms \in {NoTerms, t},
           \A q \in RecurringIds \ {r} : recurringPayments'[q] = recurringPayments[q],
           ProposalsSpendTheSame
    PROVE  \A T, K, A : Spent(T, K, A)' = Spent(T, K, A)
                          + If(For(t, T, K, A), repeated'[r] - repeated[r])
<1> TAKE T, K, A
<1> DEFINE R == RepeatedFor(T, K, A)
           R1 == RepeatedFor(T, K, A)'
           f == repeated
           g == repeated'
           charged == For(t, T, K, A)
           same == SumFunctionOnSet(proposed, ExecutedFor(T, K, A))
<1>1. /\ R \in SUBSET RecurringIds /\ IsFiniteSet(R) /\ R1 \in SUBSET RecurringIds
      /\ IsFiniteSet(R1)
  <2>1. R1 \in SUBSET RecurringIds
      BY DEF RepeatedFor
  <2> QED BY <2>1, SpentSets, TreasuryAssumption, FS_Subset
<1>2. R \ {r} = R1 \ {r}
    BY DEF RepeatedFor, For
<1>3. /\ r \in R1 <=> charged
      /\ r \in R => charged
      /\ charged /\ r \notin R => f[r] = 0
  <2>1. r \in R1 <=> charged
      BY TermsAssumption DEF RepeatedFor, For
  <2>2. CASE recurringPayments[r].terms = NoTerms
      BY <2>1, <2>2 DEF RepeatedFor, repeated
  <2>3. CASE recurringPayments[r].terms = t
      BY <2>1, <2>3, TermsAssumption DEF RepeatedFor, For
  <2> QED BY <2>1, <2>2, <2>3
<1>4. \A q \in RecurringIds : f[q] \in Int /\ g[q] \in Int
  <2>1. \A q \in RecurringIds : f[q] \in Int
      BY SummandTypes
  <2>2. ASSUME NEW q \in RecurringIds PROVE g[q] \in Int
    <3>1. CASE q = r
      <4> DEFINE count == recurringPayments'[r].executionCount
                 amount == t.amount
      <4>1. count \in Nat /\ amount \in Nat
          BY TermsType DEF MandatesTypeOK, RecurringPayment
      <4>2. g[r] = count * amount
          BY TermsAssumption DEF repeated
      <4> HIDE DEF count, amount, g
      <4> QED BY <3>1, <4>1, <4>2
    <3>2. CASE q # r
        BY <2>1, <3>2 DEF repeated
    <3> QED BY <3>1, <3>2
  <2> QED BY <2>1, <2>2
<1>5. \A q \in RecurringIds \ {r} : f[q] = g[q]
    BY DEF repeated
<1>6. SumFunctionOnSet(proposed', ExecutedFor(T, K, A)') = same
    BY ProposedStays
<1>7. same \in Int
  <2>1. \A i \in ExecutedFor(T, K, A) : proposed[i] \in Int
      BY SpentSets, SummandTypes
  <2> QED BY <2>1, SpentSets, SumInt
<1>8. /\ Spent(T, K, A) = same + SumFunctionOnSet(f, R)
      /\ Spent(T, K, A)' = same + SumFunctionOnSet(g, R1)
    BY <1>6 DEF Spent
<1> HIDE DEF R, R1, f, g, charged, same
<1>9. SumFunctionOnSet(f, R) \in Int
    BY <1>1, <1>4, SumInt
<1>10. SumFunctionOnSet(g, R1) = SumFunctionOnSet(f, R)
          + (IF r \in R1 THEN g[r] ELSE 0) - (IF r \in R THEN f[r] ELSE 0)
    BY <1>1, <1>2, <1>4, <1>5, SumMove
<1>11. f[r] \in Int /\ g[r] \in Int
    BY <1>4
<1>12. CASE charged
  <2>1. SumFunctionOnSet(g, R1) = SumFunctionOnSet(f, R) + g[r] - f[r]
      BY <1>3, <1>9, <1>10, <1>11, <1>12
  <2>2. If(charged, g[r] - f[r]) = g[r] - f[r]
      BY <1>12 DEF If
  <2> QED BY <1>7, <1>8, <1>9, <1>11, <2>1, <2>2 DEF charged, f, g
<1>13. CASE ~charged
  <2>1. SumFunctionOnSet(g, R1) = SumFunctionOnSet(f, R)
      BY <1>3, <1>9, <1>10, <1>11, <1>13
  <2>2. If(charged, g[r] - f[r]) = 0
      BY <1>13 DEF If
  <2> QED BY <1>7, <1>8, <1>9, <2>1, <2>2 DEF charged, f, g
<1> QED BY <1>12, <1>13

\* Every unit that a recipient holds, and every unit a budget has spent.
SpendingInv ==
    /\ \A t \in Tokens, r \in Recipients : balanceOf[t][r] = Spent({r}, {t}, Charged)
    /\ \A b \in BudgetIds : budgets[b].spent = Spent(Recipients, Tokens, {b})

LEMMA TransferMoves ==
    ASSUME LedgerTypeOK, NEW token \in Tokens, NEW to \in Recipients \cup Protocols,
           NEW amount \in Nat, Transfer(token, to, amount)
    PROVE  /\ balanceOf' \in [Tokens -> [Holders -> Nat]]
           /\ \A t \in Tokens, r \in Recipients :
                 balanceOf'[t][r] = balanceOf[t][r] + If(t = token /\ r = to, amount)
<1>1. /\ Treasury \in Holders /\ to \in Holders /\ to # Treasury /\ Recipients \subseteq Holders
      /\ Treasury \notin Recipients
    BY TreasuryAssumption DEF Holders
<1>2. balanceOf \in [Tokens -> [Holders -> Nat]] /\ amount <= balanceOf[token][Treasury]
      /\ balanceOf' = [balanceOf EXCEPT ![token][Treasury] = @ - amount,
                                        ![token][to] = @ + amount]
    BY DEF LedgerTypeOK, Transfer
<1>3. /\ \A h \in Holders : balanceOf'[token][h] =
             IF h = Treasury THEN balanceOf[token][h] - amount
             ELSE balanceOf[token][h] + If(h = to, amount)
      /\ \A t \in Tokens \ {token} : balanceOf'[t] = balanceOf[t]
      /\ DOMAIN balanceOf' = Tokens /\ DOMAIN balanceOf'[token] = Holders
      /\ balanceOf'[token] = [h \in Holders |-> balanceOf'[token][h]]
  <2> DEFINE row == balanceOf[token]
             new == [row EXCEPT ![Treasury] = @ - amount, ![to] = @ + amount]
  <2>1. row \in [Holders -> Nat]
      BY <1>2
  <2>2. balanceOf' = [balanceOf EXCEPT ![token] = new]
      BY <1>2
  <2>3. /\ DOMAIN new = Holders /\ new = [h \in Holders |-> new[h]]
        /\ \A h \in Holders : new[h] =
              IF h = Treasury THEN row[h] - amount ELSE row[h] + If(h = to, amount)
    <3> HIDE DEF row
    <3>1. DOMAIN new = Holders
        BY <2>1
    <3>2. new[Treasury] = row[Treasury] - amount
        BY <1>1, <2>1
    <3>3. new[to] = row[to] + amount
        BY <1>1, <2>1
    <3>4. \A h \in Holders \ {Treasury, to} : new[h] = row[h] /\ row[h] + 0 = row[h]
        BY <2>1
    <3>5. new = [h \in Holders |-> new[h]]
        BY <2>1
    <3> HIDE DEF new
    <3> QED BY <1>1, <3>1, <3>2, <3>3, <3>4, <3>5 DEF If
  <2>4. balanceOf'[token] = new /\ DOMAIN balanceOf' = Tokens
        /\ \A t \in Tokens \ {token} : balanceOf'[t] = balanceOf[t]
    <3> HIDE DEF new
    <3> QED BY <1>2, <2>2
  <2> HIDE DEF new
  <2> QED BY <2>3, <2>4
<1>4. \A h \in Holders : balanceOf'[token][h] \in Nat
  <2> TAKE h \in Holders
  <2>1. balanceOf[token][h] \in Nat
      BY <1>2
  <2> QED BY <1>2, <1>3, <2>1 DEF If
<1>5. balanceOf'[token] \in [Holders -> Nat]
    BY <1>3, <1>4
<1>6. balanceOf' \in [Tokens -> [Holders -> Nat]]
  <2>1. \A t \in Tokens : balanceOf'[t] \in [Holders -> Nat]
      BY <1>2, <1>3, <1>5
  <2>2. balanceOf' = [t \in Tokens |-> balanceOf'[t]]
      BY <1>2
  <2> QED BY <2>1, <2>2
<1>7. ASSUME NEW t \in Tokens, NEW r \in Recipients
      PROVE  balanceOf'[t][r] = balanceOf[t][r] + If(t = token /\ r = to, amount)
  <2>1. balanceOf[t][r] \in Nat /\ r \in Holders /\ r # Treasury
      BY <1>1, <1>2
  <2>2. CASE t = token
      BY <1>3, <2>1, <2>2 DEF If
  <2>3. CASE t # token
      BY <1>3, <2>1, <2>3 DEF If
  <2> QED BY <2>2, <2>3
<1> QED BY <1>6, <1>7

\* What the steps do to the budgets and to the balances, without the rest.
LEMMA ChargeKeepsInv ==
    ASSUME BudgetsInv, NEW b \in Charged, NEW amount \in Nat, Charge(b, amount)
    PROVE  /\ BudgetsInv'
           /\ \A c \in BudgetIds : budgets'[c].spent = budgets[c].spent + If(c = b, amount)
<1>0. \A c \in BudgetIds : budgets[c].spent \in Nat
    BY DEF BudgetsInv, BudgetsTypeOK, Budget
<1>1. CASE b = NoBudget
  <2>1. UNCHANGED budgetVars /\ b \notin BudgetIds
      BY <1>1, BudgetAssumption DEF Charge
  <2>2. BudgetsInv'
      BY <2>1 DEF budgetVars, BudgetsInv, BudgetsTypeOK, TrackersExact, WithinAllocations,
                  WindowsHold, SpentIn
  <2> QED BY <1>0, <2>1, <2>2 DEF budgetVars, If
<1>2. CASE b # NoBudget
  <2>1. b \in BudgetIds /\ _recordBudgetSpending(b, amount)
      BY <1>2 DEF Charge, Charged
  <2>2. /\ BudgetsInv' /\ budgets'[b].spent = budgets[b].spent + amount
        /\ \A c \in BudgetIds \ {b} : budgets'[c].spent = budgets[c].spent
      BY <2>1, ChargeKeepsBudgets
  <2> QED BY <1>0, <2>2 DEF If
<1> QED BY <1>1, <1>2

(***************************************************************************)
(* The inductive invariant.  The vote counters, the trackers and the       *)
(* counts of mandates each need only their own part; that the treasury's   *)
(* spending is explained needs the types of all of them.                   *)
(***************************************************************************)
Inv == /\ SignersInv /\ BudgetsInv /\ ProposalsInv /\ MandatesInv
       /\ LedgerTypeOK /\ SpendingInv

LEMMA SpendingMoves ==
    ASSUME SpendingInv, ProposalsTypeOK, MandatesTypeOK,
           NEW x, x.recipient \in Recipients, x.token \in Tokens, x.budgetId \in Charged,
           NEW amount \in Nat,
           \A t \in Tokens, r \in Recipients : balanceOf'[t][r] =
              balanceOf[t][r] + If(t = x.token /\ r = x.recipient, amount),
           \A b \in BudgetIds : budgets'[b].spent = budgets[b].spent + If(b = x.budgetId, amount),
           \A T, K, A : Spent(T, K, A)' = Spent(T, K, A) + If(For(x, T, K, A), amount)
    PROVE  SpendingInv'
<1>1. ASSUME NEW t \in Tokens, NEW r \in Recipients
      PROVE  balanceOf'[t][r] = Spent({r}, {t}, Charged)'
  <2>1. Spent({r}, {t}, Charged)' =
          Spent({r}, {t}, Charged) + If(For(x, {r}, {t}, Charged), amount)
      OBVIOUS
  <2>2. For(x, {r}, {t}, Charged) <=> t = x.token /\ r = x.recipient
      BY DEF For
  <2>3. balanceOf[t][r] = Spent({r}, {t}, Charged)
      BY DEF SpendingInv
  <2> QED BY <2>1, <2>2, <2>3 DEF If
<1>2. ASSUME NEW b \in BudgetIds
      PROVE  budgets'[b].spent = Spent(Recipients, Tokens, {b})'
  <2>1. Spent(Recipients, Tokens, {b})' =
          Spent(Recipients, Tokens, {b}) + If(For(x, Recipients, Tokens, {b}), amount)
      OBVIOUS
  <2>2. For(x, Recipients, Tokens, {b}) <=> b = x.budgetId
      BY DEF For
  <2>3. budgets[b].spent = Spent(Recipients, Tokens, {b})
      BY DEF SpendingInv
  <2> QED BY <2>1, <2>2, <2>3 DEF If
<1> QED BY <1>1, <1>2 DEF SpendingInv

LEMMA SpendingStays ==
    ASSUME SpendingInv, ProposalsTypeOK, MandatesTypeOK,
           \A t \in Tokens, r \in Recipients : balanceOf'[t][r] = balanceOf[t][r],
           \A b \in BudgetIds : budgets'[b].spent = budgets[b].spent,
           \A T, K, A : Spent(T, K, A)' = Spent(T, K, A)
    PROVE  SpendingInv'
<1>1. ASSUME NEW t \in Tokens, NEW r \in Recipients
      PROVE  balanceOf'[t][r] = Spent({r}, {t}, Charged)'
  <2>1. Spent({r}, {t}, Charged)' = Spent({r}, {t}, Charged)
      OBVIOUS
  <2> QED BY <2>1 DEF SpendingInv
<1>2. ASSUME NEW b \in BudgetIds
      PROVE  budgets'[b].spent = Spent(Recipients, Tokens, {b})'
  <2>1. Spent(Recipients, Tokens, {b})' = Spent(Recipients, Tokens, {b})
      OBVIOUS
  <2> QED BY <2>1 DEF SpendingInv
<1> QED BY <1>1, <1>2 DEF SpendingInv

LEMMA ExecuteKeepsSpending ==
    ASSUME Inv, ProposalsTypeOK', MandatesTypeOK', NEW x \in People, NEW i \in ProposalIds,
           executeProposal(x, i)
    PROVE  BudgetsInv' /\ LedgerTypeOK' /\ SpendingInv'
<1> DEFINE p == proposals[i]
<1>1. /\ p \in Proposal /\ p.status = "APPROVED"
      /\ p.recipient \in Recipients /\ p.token \in Tokens
      /\ p.amount \in Nat /\ p.budgetId \in Charged
  <2>1. p \in Proposal /\ p.status = "APPROVED"
        /\ VotesMatch(p, proposalApprovals[i], proposalRejections[i])
      BY DEF executeProposal, Inv, ProposalsInv, ProposalsTypeOK
  <2> HIDE DEF p
  <2> QED BY <2>1 DEF VotesMatch, Proposal, Charged
<1>2. /\ Charge(p.budgetId, p.amount) /\ Transfer(p.token, p.recipient, p.amount)
      /\ proposals' = [proposals EXCEPT ![i].status = "EXECUTED"]
      /\ UNCHANGED <<recurringPayments, yieldProtocols, supportedTokens, paused>>
    BY DEF executeProposal, recurringVars, otherVars
<1>3. /\ BudgetsInv'
      /\ \A b \in BudgetIds :
            budgets'[b].spent = budgets[b].spent + If(b = p.budgetId, p.amount)
  <2> HIDE DEF p
  <2> QED BY <1>1, <1>2, ChargeKeepsInv DEF Inv
<1>4. /\ balanceOf' \in [Tokens -> [Holders -> Nat]]
      /\ \A t \in Tokens, r \in Recipients : balanceOf'[t][r] =
            balanceOf[t][r] + If(t = p.token /\ r = p.recipient, p.amount)
  <2> HIDE DEF p
  <2> QED BY <1>1, <1>2, TransferMoves DEF Inv
<1>5. LedgerTypeOK'
    BY <1>2, <1>4 DEF Inv, LedgerTypeOK
<1>6. \A T, K, A : Spent(T, K, A)' = Spent(T, K, A) + If(For(p, T, K, A), p.amount)
  <2>1. PaymentsSpendTheSame
      BY <1>2 DEF PaymentsSpendTheSame
  <2>2. p.status # "EXECUTED"
      BY <1>1
  <2> QED BY <1>2, <2>1, <2>2, ProposalSpends DEF Inv, ProposalsInv, MandatesInv
<1>7. SpendingInv'
  <2> HIDE DEF p
  <2> QED BY <1>1, <1>3, <1>4, <1>6, SpendingMoves DEF Inv, ProposalsInv, MandatesInv
<1> QED BY <1>3, <1>5, <1>7

LEMMA RepeatKeepsSpending ==
    ASSUME Inv, ProposalsTypeOK', MandatesTypeOK', NEW r \in RecurringIds,
           executeRecurringPayment(r)
    PROVE  BudgetsInv' /\ LedgerTypeOK' /\ SpendingInv'
<1> DEFINE t == recurringPayments[r].terms
<1>1. /\ t \in Terms /\ t.recipient \in Recipients /\ t.token \in Tokens
      /\ t.amount \in Nat /\ t.budgetId \in Charged
  <2>1. t \in Terms
      BY DEF executeRecurringPayment, Inv, MandatesInv, PaymentsInv, PaymentSound
  <2> HIDE DEF t
  <2> QED BY <2>1, TermsType
<1>2. /\ Charge(t.budgetId, t.amount) /\ Transfer(t.token, t.recipient, t.amount)
      /\ recurringPayments' = [recurringPayments EXCEPT ![r].executionCount = @ + 1,
                                                        ![r].left = t.frequency]
      /\ UNCHANGED <<proposals, yieldProtocols, supportedTokens, paused>>
    BY DEF executeRecurringPayment, proposalVars, otherVars
<1>3. /\ BudgetsInv'
      /\ \A b \in BudgetIds :
            budgets'[b].spent = budgets[b].spent + If(b = t.budgetId, t.amount)
  <2> HIDE DEF t
  <2> QED BY <1>1, <1>2, ChargeKeepsInv DEF Inv
<1>4. /\ balanceOf' \in [Tokens -> [Holders -> Nat]]
      /\ \A k \in Tokens, h \in Recipients : balanceOf'[k][h] =
            balanceOf[k][h] + If(k = t.token /\ h = t.recipient, t.amount)
  <2> HIDE DEF t
  <2> QED BY <1>1, <1>2, TransferMoves DEF Inv
<1>5. LedgerTypeOK'
    BY <1>2, <1>4 DEF Inv, LedgerTypeOK
<1>6. /\ recurringPayments'[r].terms = t
      /\ recurringPayments'[r].executionCount = recurringPayments[r].executionCount + 1
      /\ \A q \in RecurringIds \ {r} : recurringPayments'[q] = recurringPayments[q]
      /\ recurringPayments[r].executionCount \in Nat
  <2>1. recurringPayments[r] \in RecurringPayment
        /\ recurringPayments \in [RecurringIds -> RecurringPayment]
      BY DEF Inv, MandatesInv, MandatesTypeOK
  <2> QED BY <1>2, <2>1 DEF RecurringPayment
<1>7. repeated'[r] - repeated[r] = t.amount
  <2> DEFINE count == recurringPayments[r].executionCount
             amount == t.amount
  <2>1. repeated[r] = count * amount /\ repeated'[r] = (count + 1) * amount
      BY <1>1, <1>6, TermsAssumption DEF repeated
  <2>2. count \in Nat /\ amount \in Nat
      BY <1>1, <1>6
  <2> HIDE DEF count, amount
  <2>3. (count + 1) * amount = count * amount + amount /\ count * amount \in Nat
      BY <2>2
  <2> QED BY <2>1, <2>2, <2>3 DEF amount
<1>8. \A T, K, A : Spent(T, K, A)' = Spent(T, K, A) + If(For(t, T, K, A), t.amount)
  <2>1. ProposalsSpendTheSame
      BY <1>2 DEF ProposalsSpendTheSame
  <2>2. recurringPayments[r].terms \in {NoTerms, t}
      OBVIOUS
  <2>3. \A T, K, A : Spent(T, K, A)' = Spent(T, K, A)
                       + If(For(t, T, K, A), repeated'[r] - repeated[r])
    <3> HIDE DEF t
    <3> QED BY <1>1, <1>6, <2>1, <2>2, PaymentSpends DEF Inv, ProposalsInv, MandatesInv
  <2> QED BY <1>7, <2>3
<1>9. SpendingInv'
  <2> HIDE DEF t
  <2> QED BY <1>1, <1>3, <1>4, <1>8, SpendingMoves DEF Inv, ProposalsInv, MandatesInv
<1> QED BY <1>3, <1>5, <1>9

\* A payment that has just been created has spent nothing.
LEMMA ConsumeKeepsSpending ==
    ASSUME Inv, ProposalsTypeOK', MandatesTypeOK', NEW t \in Terms, NEW r \in RecurringIds,
           createRecurringPayment(t, r)
    PROVE  SpendingInv'
<1> DEFINE rp == [terms |-> t, left |-> t.frequency, executionCount |-> 0, active |-> TRUE]
<1>1. /\ recurringPayments' = [recurringPayments EXCEPT ![r] = rp]
      /\ recurringPayments[r].terms = NoTerms
      /\ UNCHANGED <<proposals, budgets, balanceOf>>
    BY DEF createRecurringPayment, proposalVars, budgetVars
<1>2. rp.terms = t /\ rp.executionCount = 0
    OBVIOUS
<1> HIDE DEF rp
<1>3. /\ recurringPayments'[r] = rp
      /\ \A q \in RecurringIds \ {r} : recurringPayments'[q] = recurringPayments[q]
    BY <1>1 DEF Inv, MandatesInv, MandatesTypeOK
<1>4. repeated[r] = 0 /\ repeated'[r] = 0
  <2>1. repeated'[r] = 0 * t.amount
      BY <1>2, <1>3, TermsAssumption DEF repeated
  <2>2. t.amount \in Nat
      BY TermsType
  <2> QED BY <1>1, <2>1, <2>2 DEF repeated
<1>5. ProposalsSpendTheSame
    BY <1>1 DEF ProposalsSpendTheSame
<1>6. \A T, K, A : Spent(T, K, A)' = Spent(T, K, A)
                     + If(For(t, T, K, A), repeated'[r] - repeated[r])
    BY <1>1, <1>2, <1>3, <1>5, PaymentSpends DEF Inv, ProposalsInv, MandatesInv
<1>7. \A T, K, A : Spent(T, K, A)' = Spent(T, K, A)
  <2> TAKE T, K, A
  <2>1. If(For(t, T, K, A), repeated'[r] - repeated[r]) = 0
      BY <1>4 DEF If
  <2>2. Spent(T, K, A) \in Nat
      BY SpentType DEF Inv, ProposalsInv, MandatesInv
  <2> QED BY <1>6, <2>1, <2>2
<1> QED BY <1>1, <1>7, SpendingStays DEF Inv, ProposalsInv, MandatesInv

LEMMA AllocateKeepsLedger ==
    ASSUME LedgerTypeOK, Yield
    PROVE  LedgerTypeOK' /\ \A t \in Tokens, r \in Recipients : balanceOf'[t][r] = balanceOf[t][r]
<1>1. CASE \E y \in Protocols, n \in MaxAllocations : approveYieldProtocol(y, n)
  <2>1. PICK y \in Protocols, n \in MaxAllocations : approveYieldProtocol(y, n)
      BY <1>1
  <2>2. [maxAllocation |-> n, currentAllocation |-> 0, active |-> TRUE] \in YieldProtocol
      BY TreasuryAssumption DEF YieldProtocol
  <2>3. yieldProtocols' \in [Protocols -> YieldProtocol]
      BY <2>1, <2>2 DEF approveYieldProtocol, LedgerTypeOK
  <2> QED BY <2>1, <2>3 DEF approveYieldProtocol, LedgerTypeOK
<1>2. CASE \E y \in Protocols, t \in Tokens, n \in Amounts : allocateToYield(y, t, n)
  <2>1. PICK y \in Protocols, token \in Tokens, n \in Amounts : allocateToYield(y, token, n)
      BY <1>2
  <2>2. n \in Nat /\ y \notin Recipients
      BY TreasuryAssumption
  <2>3. /\ balanceOf' \in [Tokens -> [Holders -> Nat]]
        /\ \A t \in Tokens, r \in Recipients :
              balanceOf'[t][r] = balanceOf[t][r] + If(t = token /\ r = y, n)
      BY <2>1, <2>2, TransferMoves DEF allocateToYield
  <2>4. \A t \in Tokens, r \in Recipients : balanceOf'[t][r] = balanceOf[t][r]
    <3> TAKE t \in Tokens, r \in Recipients
    <3>1. If(t = token /\ r = y, n) = 0
        BY <2>2 DEF If
    <3>2. balanceOf[t][r] \in Nat
        BY DEF LedgerTypeOK, Holders
    <3> QED BY <2>3, <3>1, <3>2
  <2>5. yieldProtocols' \in [Protocols -> YieldProtocol]
    <3> DEFINE o == yieldProtocols[y]
               new == [o EXCEPT !.currentAllocation = @ + n]
    <3>1. yieldProtocols' = [yieldProtocols EXCEPT ![y] = new]
        BY <2>1 DEF allocateToYield
    <3>2. o \in YieldProtocol
        BY DEF LedgerTypeOK
    <3>3. new \in YieldProtocol
      <4> HIDE DEF o
      <4> QED BY <2>2, <3>2 DEF YieldProtocol
    <3> HIDE DEF new
    <3> QED BY <3>1, <3>3 DEF LedgerTypeOK
  <2> QED BY <2>1, <2>3, <2>4, <2>5 DEF allocateToYield, LedgerTypeOK
<1> QED BY <1>1, <1>2 DEF Yield

\* Every other step executes no proposal and repeats no payment.
LEMMA VotesSpendNothing ==
    ASSUME ProposalsTypeOK,
           Propose \/ (\E i \in ProposalIds : Vote(i)) \/ Tick \/ UNCHANGED proposals
    PROVE  ProposalsSpendTheSame
<1>1. CASE \E i \in ProposalIds : /\ proposals[i].status # "EXECUTED"
                                 /\ proposals'[i].status # "EXECUTED"
                                 /\ \A j \in ProposalIds \ {i} : proposals'[j] = proposals[j]
    BY <1>1 DEF ProposalsSpendTheSame
<1>2. CASE Propose
  <2>1. PICK x \in People, r \in Recipients, t \in Tokens, n \in Amounts, e \in BOOLEAN,
             b \in Charged, i \in ProposalIds : createProposal(x, r, t, n, e, b, i)
      BY <1>2 DEF Propose
  <2>2. /\ proposals[i].status # "EXECUTED" /\ proposals'[i].status # "EXECUTED"
        /\ \A j \in ProposalIds \ {i} : proposals'[j] = proposals[j]
      BY <2>1 DEF createProposal, ProposalsTypeOK
  <2> QED BY <1>1, <2>2
<1>3. CASE \E i \in ProposalIds : Vote(i)
  <2>1. PICK i \in ProposalIds : Vote(i)
      BY <1>3
  <2>2. proposals \in [ProposalIds -> Proposal]
      BY DEF ProposalsTypeOK
  <2>3. CASE \E x \in People : approveProposal(x, i)
    <3>1. /\ proposals[i].status # "EXECUTED" /\ proposals'[i].status # "EXECUTED"
          /\ \A j \in ProposalIds \ {i} : proposals'[j] = proposals[j]
        BY <2>2, <2>3 DEF approveProposal, Proposal
    <3> QED BY <1>1, <3>1
  <2>4. CASE \E x \in People : rejectProposal(x, i)
    <3>1. /\ proposals[i].status # "EXECUTED" /\ proposals'[i].status # "EXECUTED"
          /\ \A j \in ProposalIds \ {i} : proposals'[j] = proposals[j]
        BY <2>2, <2>4 DEF rejectProposal, Proposal
    <3> QED BY <1>1, <3>1
  <2>5. CASE cancelProposal(i)
    <3>1. /\ proposals[i].status # "EXECUTED" /\ proposals'[i].status # "EXECUTED"
          /\ \A j \in ProposalIds \ {i} : proposals'[j] = proposals[j]
        BY <2>2, <2>5 DEF cancelProposal, Proposal
    <3> QED BY <1>1, <3>1
  <2> QED BY <2>1, <2>3, <2>4, <2>5 DEF Vote
<1>4. CASE Tick
  <2> SUFFICES ASSUME NEW i \in ProposalIds
               PROVE  /\ proposals'[i].status = proposals[i].status
                      /\ proposals'[i].recipient = proposals[i].recipient
                      /\ proposals'[i].token = proposals[i].token
                      /\ proposals'[i].budgetId = proposals[i].budgetId
                      /\ proposals'[i].amount = proposals[i].amount
      BY DEF ProposalsSpendTheSame
  <2> DEFINE o == proposals[i]
  <2>1. o \in Proposal /\ proposals'[i] \in {o, [o EXCEPT !.age = Older(@)]}
      BY <1>4 DEF Tick, ProposalsTypeOK
  <2> HIDE DEF o
  <2>2. /\ proposals'[i].status = o.status /\ proposals'[i].recipient = o.recipient
        /\ proposals'[i].token = o.token /\ proposals'[i].budgetId = o.budgetId
        /\ proposals'[i].amount = o.amount
      BY <2>1 DEF Proposal
  <2> QED BY <2>2 DEF o
<1>5. CASE UNCHANGED proposals
    BY <1>5 DEF ProposalsSpendTheSame
<1> QED BY <1>2, <1>3, <1>4, <1>5

LEMMA RestSpendsNothing ==
    ASSUME MandatesTypeOK,
           \/ \E x \in People, r \in RecurringIds : revokeRecurringPayment(x, r)
           \/ Tick \/ UNCHANGED recurringPayments
    PROVE  PaymentsSpendTheSame
<1>1. CASE \E x \in People, r \in RecurringIds : revokeRecurringPayment(x, r)
  <2>1. PICK x \in People, r \in RecurringIds : revokeRecurringPayment(x, r)
      BY <1>1
  <2>2. recurringPayments \in [RecurringIds -> RecurringPayment]
        /\ recurringPayments' = [recurringPayments EXCEPT ![r].active = FALSE]
      BY <2>1 DEF revokeRecurringPayment, MandatesTypeOK
  <2> QED BY <2>2 DEF PaymentsSpendTheSame, RecurringPayment
<1>2. CASE Tick
  <2> SUFFICES ASSUME NEW r \in RecurringIds
               PROVE  /\ recurringPayments'[r].terms = recurringPayments[r].terms
                      /\ recurringPayments'[r].executionCount = recurringPayments[r].executionCount
      BY DEF PaymentsSpendTheSame
  <2> DEFINE o == recurringPayments[r]
  <2>1. o \in RecurringPayment /\ recurringPayments'[r] \in {o, [o EXCEPT !.left = @ - 1]}
      BY <1>2 DEF Tick, MandatesTypeOK
  <2> HIDE DEF o
  <2>2. /\ recurringPayments'[r].terms = o.terms
        /\ recurringPayments'[r].executionCount = o.executionCount
      BY <2>1 DEF RecurringPayment
  <2> QED BY <2>2 DEF o
<1>3. CASE UNCHANGED recurringPayments
    BY <1>3 DEF PaymentsSpendTheSame
<1> QED BY <1>1, <1>2, <1>3

LEMMA BudgetsUnchanged ==
    ASSUME BudgetsInv, UNCHANGED budgetVars
    PROVE  BudgetsInv' /\ \A b \in BudgetIds : budgets'[b].spent = budgets[b].spent
    BY DEF budgetVars, BudgetsInv, BudgetsTypeOK, TrackersExact, WithinAllocations, WindowsHold,
           SpentIn

LEMMA LedgerUnchanged ==
    ASSUME LedgerTypeOK, UNCHANGED <<otherVars, balanceOf>>
    PROVE  LedgerTypeOK' /\ \A t \in Tokens, r \in Recipients : balanceOf'[t][r] = balanceOf[t][r]
    BY DEF LedgerTypeOK, otherVars

LEMMA SpendingKept ==
    ASSUME Inv, ProposalsTypeOK', MandatesTypeOK', [Next]_vars
    PROVE  BudgetsInv' /\ LedgerTypeOK' /\ SpendingInv'
<1>0. /\ SpendingInv /\ BudgetsInv /\ LedgerTypeOK /\ ProposalsTypeOK /\ MandatesTypeOK
    BY DEF Inv, ProposalsInv, MandatesInv
<1>1. CASE \E i \in ProposalIds : Execute(i)
    BY <1>1, ExecuteKeepsSpending DEF Execute
<1>2. CASE \E r \in RecurringIds : executeRecurringPayment(r)
    BY <1>2, RepeatKeepsSpending
<1>3. CASE \E t \in Terms, r \in RecurringIds : createRecurringPayment(t, r)
  <2>1. UNCHANGED <<budgetVars, otherVars, balanceOf>>
      BY <1>3 DEF createRecurringPayment
  <2> QED BY <1>0, <1>3, <2>1, BudgetsUnchanged, LedgerUnchanged, ConsumeKeepsSpending
<1>4. ASSUME ProposalsSpendTheSame, PaymentsSpendTheSame,
             BudgetsInv', \A b \in BudgetIds : budgets'[b].spent = budgets[b].spent,
             LedgerTypeOK',
             \A t \in Tokens, r \in Recipients : balanceOf'[t][r] = balanceOf[t][r]
      PROVE  BudgetsInv' /\ LedgerTypeOK' /\ SpendingInv'
  <2>1. \A T, K, A : Spent(T, K, A)' = Spent(T, K, A)
      BY <1>0, <1>4, SpentStays
  <2> QED BY <1>0, <1>4, <2>1, SpendingStays
<1>5. CASE Tick
  <2>1. BudgetsInv' /\ \A b \in BudgetIds : budgets'[b].spent = budgets[b].spent
      BY <1>0, <1>5, ClockKeepsBudgets DEF Tick, AgeBudgets
  <2>2. UNCHANGED <<otherVars, balanceOf>>
      BY <1>5 DEF Tick
  <2> QED BY <1>0, <1>4, <1>5, <2>1, <2>2, LedgerUnchanged, VotesSpendNothing, RestSpendsNothing
<1>6. CASE Allot
  <2>1. BudgetsInv' /\ \A b \in BudgetIds : budgets'[b].spent = budgets[b].spent
      BY <1>0, <1>6, CreateKeepsBudgets DEF Allot, CreateBudget
  <2>2. UNCHANGED <<proposals, recurringPayments, otherVars, balanceOf>>
      BY <1>6 DEF Allot, proposalVars, recurringVars
  <2> QED BY <1>0, <1>4, <2>1, <2>2, LedgerUnchanged, VotesSpendNothing, RestSpendsNothing
<1>7. CASE Yield
  <2>1. UNCHANGED <<proposals, recurringPayments, budgetVars>>
      BY <1>7 DEF Yield, approveYieldProtocol, allocateToYield, proposalVars, recurringVars
  <2> QED BY <1>0, <1>4, <1>7, <2>1, AllocateKeepsLedger, BudgetsUnchanged, VotesSpendNothing,
             RestSpendsNothing
<1>8. CASE Administer
  <2>1. UNCHANGED <<proposals, recurringPayments, budgetVars, balanceOf, yieldProtocols>>
      BY <1>8 DEF Administer, SetPaused, setSupportedToken, proposalVars, recurringVars
  <2>2. supportedTokens' \subseteq Tokens \ {Native} /\ paused' \in BOOLEAN
      BY <1>0, <1>8, TreasuryAssumption DEF Administer, SetPaused, setSupportedToken, LedgerTypeOK
  <2>3. LedgerTypeOK'
      BY <1>0, <2>1, <2>2 DEF LedgerTypeOK
  <2> QED BY <1>0, <1>4, <2>1, <2>3, BudgetsUnchanged, VotesSpendNothing, RestSpendsNothing
<1>9. CASE Propose \/ \E i \in ProposalIds : Vote(i)
  <2>1. UNCHANGED <<recurringPayments, budgetVars, otherVars, balanceOf>>
      BY <1>9 DEF Propose, Vote, createProposal, approveProposal, rejectProposal, cancelProposal,
                  recurringVars
  <2> QED BY <1>0, <1>4, <1>9, <2>1, BudgetsUnchanged, LedgerUnchanged, VotesSpendNothing,
             RestSpendsNothing
<1>10. CASE \E x \in People, r \in RecurringIds : revokeRecurringPayment(x, r)
  <2>1. UNCHANGED <<proposals, budgetVars, otherVars, balanceOf>>
      BY <1>10 DEF revokeRecurringPayment, proposalVars
  <2> QED BY <1>0, <1>4, <1>10, <2>1, BudgetsUnchanged, LedgerUnchanged, VotesSpendNothing,
             RestSpendsNothing
<1>11. CASE UNCHANGED <<proposals, recurringPayments, budgetVars, otherVars, balanceOf>>
    BY <1>0, <1>4, <1>11, BudgetsUnchanged, LedgerUnchanged, VotesSpendNothing, RestSpendsNothing
<1>12. CASE \/ \E t \in Terms, x \in People, a \in AuthorizationIds :
                   proposeRecurringPayment(x, t, a)
            \/ \E x \in People, a \in AuthorizationIds : approveRecurringPayment(x, a)
            \/ Signers \/ UNCHANGED vars
  <2>1. UNCHANGED <<proposals, recurringPayments, budgetVars, otherVars, balanceOf>>
      BY <1>12 DEF proposeRecurringPayment, approveRecurringPayment, Signers, vars, proposalVars,
                   recurringVars
  <2> QED BY <1>11, <2>1
<1> QED BY <1>1, <1>2, <1>3, <1>5, <1>6, <1>7, <1>8, <1>9, <1>10, <1>12 DEF Next, Recur

LEMMA Start == Init => Inv
<1> SUFFICES ASSUME Init PROVE Inv
    OBVIOUS
<1>1. SignersInv /\ BudgetsInv /\ ProposalsInv /\ MandatesInv
    BY SignersStart, BudgetsStart, ProposalsStart, MandatesStart DEF Init
<1>2. LedgerTypeOK
  <2>1. NoProtocol \in YieldProtocol
      BY DEF NoProtocol, YieldProtocol
  <2> QED BY <2>1, TreasuryAssumption DEF Init, LedgerTypeOK
<1>3. \A T, K, A : Spent(T, K, A) = 0
  <2> TAKE T, K, A
  <2>1. ExecutedFor(T, K, A) = {} /\ RepeatedFor(T, K, A) = {}
      BY DEF Init, ExecutedFor, RepeatedFor, NoProposal, NoRecurring
  <2> QED BY <2>1, SumEmpty DEF Spent
<1>4. SpendingInv
  <2>1. \A t \in Tokens, r \in Recipients : balanceOf[t][r] = 0
      BY TreasuryAssumption DEF Init, Holders
  <2>2. \A b \in BudgetIds : budgets[b].spent = 0
      BY DEF Init, BudgetsInit, Inactive
  <2> QED BY <1>3, <2>1, <2>2 DEF SpendingInv
<1> QED BY <1>1, <1>2, <1>4 DEF Inv

LEMMA SignersMoved == [Next]_vars => SignersMove
    BY DEF Next, vars, SignersMove, Propose, Vote, Execute, Recur, Yield, Signers, Allot,
           Administer, Tick, createProposal, approveProposal, rejectProposal, cancelProposal,
           executeProposal, proposeRecurringPayment, createRecurringPayment,
           approveRecurringPayment, executeRecurringPayment, revokeRecurringPayment,
           approveYieldProtocol, allocateToYield, SetPaused, setSupportedToken

LEMMA Step == Inv /\ [Next]_vars => Inv'
<1> SUFFICES ASSUME Inv, [Next]_vars PROVE Inv'
    OBVIOUS
<1>1. SignersInv'
    BY SignersKept, SignersMoved DEF Inv
<1>2. ProposalsInv' /\ MandatesInv'
    BY ProposalsKept, MandatesKept DEF Inv, SignersInv
<1>3. BudgetsInv' /\ LedgerTypeOK' /\ SpendingInv'
    BY <1>2, SpendingKept DEF ProposalsInv, MandatesInv
<1> QED BY <1>1, <1>2, <1>3 DEF Inv

LEMMA TreasuryInvariant == Spec => []Inv
    BY Start, Step, PTL DEF Spec

(***************************************************************************)
(* The theorems.                                                           *)
(***************************************************************************)
LEMMA InvTypeOK == Inv => TypeOK
    BY DEF Inv, SignersInv, BudgetsInv, ProposalsInv, ProposalsTypeOK, MandatesInv,
           MandatesTypeOK, LedgerTypeOK, TypeOK

LEMMA InvVotes == Inv => VotesCounted
<1> SUFFICES ASSUME Inv PROVE VotesCounted
    OBVIOUS
<1>1. /\ \A i \in ProposalIds :
            VotesMatch(proposals[i], proposalApprovals[i], proposalRejections[i])
      /\ \A a \in AuthorizationIds :
            ApprovalsMatch(recurringAuthorizations[a], recurringAuthorizationApprovals[a])
    BY DEF Inv, ProposalsInv, MandatesInv, AuthorizationsInv
<1> QED BY <1>1 DEF VotesCounted, VotesMatch, ApprovalsMatch

OpenFor(t) == {a \in AuthorizationIds : recurringAuthorizations[a].terms = t
                                        /\ Open(recurringAuthorizations[a])}

LEMMA MandatesAreConsumed ==
    ASSUME \A t \in Terms :
              /\ Cardinality(CreatedFor(t)) = Cardinality(ConsumedFor(t))
              /\ Cardinality(OpenFor(t)) <= 1
              /\ t.maxExecutions > 0 => \A r \in CreatedFor(t) :
                    recurringPayments[r].executionCount <= t.maxExecutions
    PROVE  MandatesConsumed
<1> SUFFICES ASSUME NEW t \in Terms
    PROVE  LET Of(status) == {a \in AuthorizationIds : recurringAuthorizations[a].terms = t
                                 /\ recurringAuthorizations[a].status \in status}
               created    == {r \in RecurringIds : recurringPayments[r].terms = t}
           IN  /\ Cardinality(created) = Cardinality(Of({"CONSUMED"}))
               /\ Cardinality({a \in Of({"PENDING", "APPROVED"}) :
                                  ~Expired(recurringAuthorizations[a].age)}) <= 1
               /\ t.maxExecutions > 0 =>
                     \A r \in created : recurringPayments[r].executionCount <= t.maxExecutions
    BY DEF MandatesConsumed
<1> DEFINE Of(status) == {a \in AuthorizationIds : recurringAuthorizations[a].terms = t
                             /\ recurringAuthorizations[a].status \in status}
<1>1. Of({"CONSUMED"}) = ConsumedFor(t)
    BY DEF ConsumedFor
<1>2. {a \in Of({"PENDING", "APPROVED"}) : ~Expired(recurringAuthorizations[a].age)} = OpenFor(t)
    BY DEF OpenFor, Open
<1> QED BY <1>1, <1>2 DEF CreatedFor

LEMMA InvMandates == Inv => MandatesConsumed
<1> SUFFICES ASSUME Inv, NEW t \in Terms
             PROVE  /\ Cardinality(CreatedFor(t)) = Cardinality(ConsumedFor(t))
                    /\ Cardinality(OpenFor(t)) <= 1
                    /\ t.maxExecutions > 0 => \A r \in CreatedFor(t) :
                          recurringPayments[r].executionCount <= t.maxExecutions
    BY MandatesAreConsumed
<1>1. Cardinality(CreatedFor(t)) = Cardinality(ConsumedFor(t))
    BY DEF Inv, MandatesInv, OneForOne
<1>2. t.maxExecutions > 0 => \A r \in CreatedFor(t) :
        recurringPayments[r].executionCount <= t.maxExecutions
    BY DEF Inv, MandatesInv, PaymentsInv, PaymentSound, CreatedFor
<1> DEFINE latest == latestRecurringAuthorization[t]
<1>3. OpenFor(t) \in SUBSET {latest}
    BY DEF Inv, MandatesInv, AuthorizationsInv, LatestOpen, OpenFor
<1>4. Cardinality(OpenFor(t)) <= 1
  <2> HIDE DEF latest
  <2>1. IsFiniteSet({latest}) /\ Cardinality({latest}) = 1
      BY FS_Singleton
  <2> QED BY <1>3, <2>1, FS_Subset
<1> QED BY <1>1, <1>2, <1>4

LEMMA InvSpending == Inv => SpendingMandated
<1> SUFFICES ASSUME Inv PROVE SpendingMandated
    OBVIOUS
<1>1. SpendingExplained
    BY DEF Inv, SpendingInv, BudgetsInv, WithinAllocations, SpendingExplained
<1> QED BY <1>1, InvMandates DEF Inv, BudgetsInv, SpendingMandated

\* The storage of the treasury and the ledger keep their types.
THEOREM TreasuryTypes == Spec => []TypeOK
    BY TreasuryInvariant, InvTypeOK, PTL

\* Whatever is approved, executed or consumed has as many different approvers
\* as its tier required when it was proposed, however signers delegate, leave
\* and return in between.
THEOREM VotesAreCounted == Spec => []VotesCounted
    BY TreasuryInvariant, InvVotes, PTL

\* As long as the role only changes through addSigner and removeSigner, the
\* list and the role agree and every threshold but the emergency one can be
\* met.
THEOREM SignersStaySound == Spec => []SignersSound
<1>1. Inv => SignersSound
    BY SignersInvSound DEF Inv
<1> QED BY <1>1, TreasuryInvariant, PTL

\* Everything a recipient holds was spent by an executed proposal or under a
\* consumed mandate, no budget and no window is overspent, and no mandate is
\* used more often than it was approved for.
THEOREM SpendingIsMandated == Spec => []SpendingMandated
    BY TreasuryInvariant, InvSpending, PTL

\* Every vote is counted for an identity that holds the signer role when it is
\* cast.
THEOREM OnlySignersVote == Spec => VotesBySigners
<1> DEFINE Cast == /\ \A i \in ProposalIds :
                        /\ proposalApprovals'[i] \ proposalApprovals[i] \subseteq hasSignerRole
                        /\ proposalRejections'[i] \ proposalRejections[i] \subseteq hasSignerRole
                   /\ \A a \in AuthorizationIds :
                        recurringAuthorizationApprovals'[a] \ recurringAuthorizationApprovals[a]
                            \subseteq hasSignerRole
<1>1. Inv /\ [Next]_vars => Cast
    BY ProposalsKept, MandatesKept DEF Inv, SignersInv, ProposalVotesCast, MandateVotesCast
<1> QED BY <1>1, TreasuryInvariant, PTL DEF Spec, VotesBySigners
=============================================================================
