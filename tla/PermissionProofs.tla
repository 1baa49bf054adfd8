--------------------------- MODULE PermissionProofs ---------------------------
(***************************************************************************)
(* Proofs about the two contracts that say whether a payment may settle,   *)
(* BusinessRegistry and SealSettlementGate: for any finite set of          *)
(* businesses, any licenses, jurisdictions and tiers, any corridors and    *)
(* seals.                                                                  *)
(***************************************************************************)
EXTENDS BusinessRegistry, SealSettlementGate, FiniteSetTheorems, TLAPS

RegistryNext == RegistryCall \/ SetRegistryPaused \/ RegistryTick

Registered == {b \in Businesses : registered(b)}
Verified   == {b \in Businesses : businesses[b].kycStatus = "VERIFIED"}

\* A business is in some status exactly when it is registered: only then can
\* VERIFIED be reached, and only registration leaves "NONE". No tier is given
\* before registration, so registering lowers none.
StatusMeansRegistered ==
    \A b \in Businesses :
        /\ businesses[b].kycStatus = "NONE" <=> ~registered(b)
        /\ ~registered(b) => businesses[b].tier = 0

RegistryInv ==
    RegistryTypeOK /\ StatusMeansRegistered /\ LicenseExclusive /\ CountsExact

(***************************************************************************)
(* Counting.                                                               *)
(***************************************************************************)
LEMMA BusinessesFinite == \A S \in SUBSET Businesses : IsFiniteSet(S) /\ Cardinality(S) \in Nat
    BY RegistryAssumption, FS_Subset, FS_CardinalityType

\* One business enters, or leaves, a set that is counted.
LEMMA CountIn ==
    ASSUME NEW S \in SUBSET Businesses, NEW b \in Businesses, b \notin S
    PROVE  Cardinality(S \cup {b}) = Cardinality(S) + 1
    BY BusinessesFinite, FS_AddElement

LEMMA CountOut ==
    ASSUME NEW S \in SUBSET Businesses, NEW b \in S
    PROVE  Cardinality(S \ {b}) = Cardinality(S) - 1 /\ Cardinality(S) > 0
<1>1. Cardinality(S \ {b}) = Cardinality(S) - 1
    BY BusinessesFinite, FS_RemoveElement
<1>2. Cardinality(S \ {b}) \in Nat /\ Cardinality(S) \in Nat
    BY BusinessesFinite
<1> QED BY <1>1, <1>2

LEMMA RegistryInitInv == RegistryInit => RegistryInv
<1> SUFFICES ASSUME RegistryInit PROVE RegistryInv
    OBVIOUS
<1>1. /\ NoBusiness \in Business /\ NoBusiness.license = None
      /\ NoBusiness.kycStatus = "NONE" /\ NoBusiness.tier = 0
    BY RegistryAssumption DEF NoBusiness, Business, KYCStatus
<1>2. \A b \in Businesses : businesses[b] = NoBusiness
    BY DEF RegistryInit
<1>3. RegistryTypeOK
    BY <1>1 DEF RegistryInit, RegistryTypeOK
<1>4. StatusMeansRegistered /\ LicenseExclusive
    BY <1>1, <1>2 DEF StatusMeansRegistered, LicenseExclusive, registered
<1>5. Registered = {} /\ Verified = {}
    BY <1>1, <1>2 DEF Registered, Verified, registered
<1>6. CountsExact
    BY <1>5, FS_EmptySet DEF CountsExact, Registered, Verified, RegistryInit
<1> QED BY <1>3, <1>4, <1>6 DEF RegistryInv

(***************************************************************************)
(* The effect of a call on one business b: every other record, and b's     *)
(* license once it has one, stay what they were.                           *)
(***************************************************************************)
LEMMA CountsFollow ==
    ASSUME RegistryInv, NEW b \in Businesses,
           businesses' \in [Businesses -> Business],
           \A a \in Businesses : a # b => businesses'[a] = businesses[a],
           registered(b), registered(b)',
           UNCHANGED totalBusinesses,
           verifiedBusinessCount' = verifiedBusinessCount
                + (IF businesses'[b].kycStatus = "VERIFIED" THEN 1 ELSE 0)
                - (IF businesses[b].kycStatus = "VERIFIED" THEN 1 ELSE 0)
    PROVE  CountsExact'
<1>1. Registered' = Registered
    BY DEF Registered, registered
<1>2. Verified \in SUBSET Businesses /\ verifiedBusinessCount = Cardinality(Verified)
    BY DEF Verified, RegistryInv, CountsExact
<1>3. verifiedBusinessCount \in Nat
    BY DEF RegistryInv, RegistryTypeOK
<1>4. verifiedBusinessCount' = Cardinality(Verified')
  <2>1. CASE businesses[b].kycStatus = "VERIFIED" /\ businesses'[b].kycStatus # "VERIFIED"
    <3>1. b \in Verified /\ Verified' = Verified \ {b}
        BY <2>1 DEF Verified
    <3> QED BY <2>1, <3>1, <1>2, <1>3, CountOut
  <2>2. CASE businesses[b].kycStatus # "VERIFIED" /\ businesses'[b].kycStatus = "VERIFIED"
    <3>1. b \notin Verified /\ Verified' = Verified \cup {b}
        BY <2>2 DEF Verified
    <3> QED BY <2>2, <3>1, <1>2, <1>3, CountIn
  <2>3. CASE businesses[b].kycStatus = "VERIFIED" <=> businesses'[b].kycStatus = "VERIFIED"
    <3>1. Verified' = Verified
        BY <2>3 DEF Verified
    <3> QED BY <2>3, <3>1, <1>2, <1>3
  <2> QED BY <2>1, <2>2, <2>3
<1> QED BY <1>1, <1>4 DEF CountsExact, Registered, Verified, RegistryInv

\* A call that replaces the record of one registered business, keeping its
\* license, and counts it in or out as its status says.
LEMMA RewriteInv ==
    ASSUME RegistryInv, NEW b \in Businesses, registered(b), NEW new \in Business,
           new.license = businesses[b].license, new.kycStatus # "NONE",
           businesses' = [businesses EXCEPT ![b] = new],
           verifiedBusinessCount' \in Nat,
           verifiedBusinessCount' = verifiedBusinessCount
                + (IF new.kycStatus = "VERIFIED" THEN 1 ELSE 0)
                - (IF businesses[b].kycStatus = "VERIFIED" THEN 1 ELSE 0),
           UNCHANGED <<licenseToWallet, totalBusinesses, registryPaused>>
    PROVE  RegistryInv'
<1>1. businesses \in [Businesses -> Business]
    BY DEF RegistryInv, RegistryTypeOK
<1>2. /\ businesses' \in [Businesses -> Business]
      /\ \A a \in Businesses : a # b => businesses'[a] = businesses[a]
      /\ businesses'[b] = new
    BY <1>1
<1>3. RegistryTypeOK'
    BY <1>2 DEF RegistryInv, RegistryTypeOK
<1>4. StatusMeansRegistered'
    BY <1>2 DEF RegistryInv, StatusMeansRegistered, registered
<1>5. LicenseExclusive'
    BY <1>2 DEF RegistryInv, LicenseExclusive, registered
<1>6. CountsExact'
    BY <1>2, CountsFollow DEF registered
<1> QED BY <1>3, <1>4, <1>5, <1>6 DEF RegistryInv

LEMMA RegisterInv ==
    ASSUME RegistryInv, NEW b \in Businesses, NEW l \in Licenses, NEW j \in Jurisdictions,
           NEW o \in Wallets, registerBusiness(b, l, j, o)
    PROVE  RegistryInv'
<1> DEFINE new == [license |-> l, jurisdiction |-> j, kycStatus |-> "PENDING", tier |-> 0,
                   left |-> 0, complianceOfficer |-> o]
<1>1. new \in Business /\ l # None
    BY RegistryAssumption DEF Business, KYCStatus
<1>2. /\ businesses \in [Businesses -> Business]
      /\ licenseToWallet \in [Licenses -> Businesses \cup {None}]
      /\ totalBusinesses \in Nat
    BY DEF RegistryInv, RegistryTypeOK
<1>3. /\ businesses' = [businesses EXCEPT ![b] = new] /\ ~registered(b)
      /\ licenseToWallet' = [licenseToWallet EXCEPT ![l] = b] /\ licenseToWallet[l] = None
      /\ totalBusinesses' = totalBusinesses + 1
      /\ UNCHANGED <<verifiedBusinessCount, registryPaused>>
    BY DEF registerBusiness
<1>4. \A a \in Businesses : businesses'[a] = IF a = b THEN new ELSE businesses[a]
    BY <1>2, <1>3
<1>5. RegistryTypeOK'
    BY <1>1, <1>2, <1>3 DEF RegistryInv, RegistryTypeOK
<1>6. StatusMeansRegistered'
    BY <1>1, <1>4 DEF RegistryInv, StatusMeansRegistered, registered
<1>7. LicenseExclusive'
  <2> SUFFICES ASSUME NEW a \in Businesses, registered(a)'
               PROVE  licenseToWallet'[businesses'[a].license] = a
      BY DEF LicenseExclusive
  <2>1. CASE a = b
      BY <2>1, <1>2, <1>3, <1>4
  <2>2. CASE a # b
    <3>1. registered(a) /\ businesses'[a] = businesses[a]
        BY <2>2, <1>4 DEF registered
    <3>2. licenseToWallet[businesses[a].license] = a
        BY <3>1 DEF RegistryInv, LicenseExclusive
    <3>3. a # None
        BY RegistryAssumption
    <3> QED BY <3>1, <3>2, <3>3, <1>2, <1>3
  <2> QED BY <2>1, <2>2
<1>8. CountsExact'
  <2>1. Registered' = Registered \cup {b} /\ b \notin Registered
      BY <1>1, <1>3, <1>4 DEF Registered, registered
  <2>2. Verified' = Verified
    <3>1. businesses[b].kycStatus # "VERIFIED"
        BY <1>3 DEF RegistryInv, StatusMeansRegistered
    <3> QED BY <3>1, <1>4 DEF Verified
  <2>3. Cardinality(Registered') = Cardinality(Registered) + 1
      BY <2>1, CountIn DEF Registered
  <2> QED BY <2>2, <2>3, <1>3 DEF CountsExact, Registered, Verified, RegistryInv
<1> QED BY <1>5, <1>6, <1>7, <1>8 DEF RegistryInv

\* Every call on a registered business is such a rewriting.
LEMMA StatusCallInv ==
    ASSUME RegistryInv, NEW b \in Businesses,
           \/ verifyBusiness(b) \/ suspendBusiness(b) \/ reinstateBusiness(b)
           \/ revokeBusiness(b) \/ \E tier \in Tiers : upgradeTier(b, tier)
           \/ \E o \in Wallets : updateComplianceOfficer(b, o)
    PROVE  RegistryInv'
<1> DEFINE biz == businesses[b]
<1>1. /\ businesses \in [Businesses -> Business] /\ biz \in Business
      /\ verifiedBusinessCount \in Nat
    BY DEF RegistryInv, RegistryTypeOK
<1>2. REVERIFICATION_INTERVAL \in 0 .. REVERIFICATION_INTERVAL
    BY RegistryAssumption
<1>3. registered(b) => biz.kycStatus # "NONE"
    BY DEF RegistryInv, StatusMeansRegistered
<1>4. CASE verifyBusiness(b)
  <2> DEFINE new == [biz EXCEPT !.kycStatus = "VERIFIED", !.left = REVERIFICATION_INTERVAL]
  <2>1. /\ new \in Business /\ new.license = biz.license
        /\ new.kycStatus = "VERIFIED" /\ "VERIFIED" # "NONE"
      BY <1>1, <1>2, <1>3, <1>4 DEF Business, KYCStatus, verifyBusiness, SetVerified
  <2>2. registered(b) /\ businesses' = [businesses EXCEPT ![b] = new]
      BY <1>1, <1>4 DEF verifyBusiness, SetVerified
  <2>3. /\ verifiedBusinessCount' \in Nat
        /\ verifiedBusinessCount' = verifiedBusinessCount
                + (IF new.kycStatus = "VERIFIED" THEN 1 ELSE 0)
                - (IF biz.kycStatus = "VERIFIED" THEN 1 ELSE 0)
      BY <1>1, <1>4, <2>1 DEF verifyBusiness, SetVerified
  <2>4. UNCHANGED <<licenseToWallet, totalBusinesses, registryPaused>>
      BY <1>4 DEF verifyBusiness, SetVerified
  <2> HIDE DEF new
  <2> QED BY <2>1, <2>2, <2>3, <2>4, RewriteInv
<1>5. CASE suspendBusiness(b)
  <2> DEFINE new == [biz EXCEPT !.kycStatus = "SUSPENDED"]
  <2>1. /\ new \in Business /\ new.license = biz.license
        /\ new.kycStatus = "SUSPENDED" /\ "SUSPENDED" # "NONE"
      BY <1>1, <1>2, <1>3, <1>5 DEF Business, KYCStatus, suspendBusiness
  <2>2. registered(b) /\ businesses' = [businesses EXCEPT ![b] = new]
      BY <1>1, <1>5 DEF suspendBusiness
  <2>3. /\ verifiedBusinessCount' \in Nat
        /\ verifiedBusinessCount' = verifiedBusinessCount
                + (IF new.kycStatus = "VERIFIED" THEN 1 ELSE 0)
                - (IF biz.kycStatus = "VERIFIED" THEN 1 ELSE 0)
      BY <1>1, <1>5, <2>1 DEF suspendBusiness
  <2>4. UNCHANGED <<licenseToWallet, totalBusinesses, registryPaused>>
      BY <1>5 DEF suspendBusiness
  <2> HIDE DEF new
  <2> QED BY <2>1, <2>2, <2>3, <2>4, RewriteInv
<1>6. CASE reinstateBusiness(b)
  <2> DEFINE new == [biz EXCEPT !.kycStatus = "VERIFIED", !.left = REVERIFICATION_INTERVAL]
  <2>1. /\ new \in Business /\ new.license = biz.license
        /\ new.kycStatus = "VERIFIED" /\ "VERIFIED" # "NONE"
      BY <1>1, <1>2, <1>3, <1>6 DEF Business, KYCStatus, reinstateBusiness, SetVerified
  <2>2. registered(b) /\ businesses' = [businesses EXCEPT ![b] = new]
      BY <1>1, <1>6 DEF reinstateBusiness, SetVerified
  <2>3. /\ verifiedBusinessCount' \in Nat
        /\ verifiedBusinessCount' = verifiedBusinessCount
                + (IF new.kycStatus = "VERIFIED" THEN 1 ELSE 0)
                - (IF biz.kycStatus = "VERIFIED" THEN 1 ELSE 0)
      BY <1>1, <1>6, <2>1 DEF reinstateBusiness, SetVerified
  <2>4. UNCHANGED <<licenseToWallet, totalBusinesses, registryPaused>>
      BY <1>6 DEF reinstateBusiness, SetVerified
  <2> HIDE DEF new
  <2> QED BY <2>1, <2>2, <2>3, <2>4, RewriteInv
<1>7. CASE revokeBusiness(b)
  <2> DEFINE new == [biz EXCEPT !.kycStatus = "REVOKED"]
  <2>1. /\ new \in Business /\ new.license = biz.license
        /\ new.kycStatus = "REVOKED" /\ "REVOKED" # "NONE"
      BY <1>1, <1>2, <1>3, <1>7 DEF Business, KYCStatus, revokeBusiness
  <2>2. registered(b) /\ businesses' = [businesses EXCEPT ![b] = new]
      BY <1>1, <1>7 DEF revokeBusiness
  <2>3. /\ verifiedBusinessCount' \in Nat
        /\ verifiedBusinessCount' = verifiedBusinessCount
                + (IF new.kycStatus = "VERIFIED" THEN 1 ELSE 0)
                - (IF biz.kycStatus = "VERIFIED" THEN 1 ELSE 0)
      BY <1>1, <1>7, <2>1 DEF revokeBusiness
  <2>4. UNCHANGED <<licenseToWallet, totalBusinesses, registryPaused>>
      BY <1>7 DEF revokeBusiness
  <2> HIDE DEF new
  <2> QED BY <2>1, <2>2, <2>3, <2>4, RewriteInv
<1>8. CASE \E tier \in Tiers : upgradeTier(b, tier)
  <2>0. PICK tier \in Tiers : upgradeTier(b, tier)
      BY <1>8
  <2> DEFINE new == [biz EXCEPT !.tier = tier]
  <2>1. /\ new \in Business /\ new.license = biz.license
        /\ new.kycStatus = "VERIFIED" /\ "VERIFIED" # "NONE"
      BY <1>1, <1>2, <1>3, <2>0 DEF Business, KYCStatus, upgradeTier
  <2>2. registered(b) /\ businesses' = [businesses EXCEPT ![b] = new]
      BY <1>1, <2>0 DEF upgradeTier
  <2>3. /\ verifiedBusinessCount' \in Nat
        /\ verifiedBusinessCount' = verifiedBusinessCount
                + (IF new.kycStatus = "VERIFIED" THEN 1 ELSE 0)
                - (IF biz.kycStatus = "VERIFIED" THEN 1 ELSE 0)
      BY <1>1, <2>0, <2>1 DEF upgradeTier
  <2>4. UNCHANGED <<licenseToWallet, totalBusinesses, registryPaused>>
      BY <2>0 DEF upgradeTier
  <2> HIDE DEF new
  <2> QED BY <2>1, <2>2, <2>3, <2>4, RewriteInv
<1>9. CASE \E o \in Wallets : updateComplianceOfficer(b, o)
  <2>0. PICK o \in Wallets : updateComplianceOfficer(b, o)
      BY <1>9
  <2> DEFINE new == [biz EXCEPT !.complianceOfficer = o]
  <2>1. /\ new \in Business /\ new.license = biz.license
        /\ new.kycStatus = biz.kycStatus /\ biz.kycStatus # "NONE"
      BY <1>1, <1>2, <1>3, <2>0 DEF Business, KYCStatus, updateComplianceOfficer
  <2>2. registered(b) /\ businesses' = [businesses EXCEPT ![b] = new]
      BY <1>1, <2>0 DEF updateComplianceOfficer
  <2>3. /\ verifiedBusinessCount' \in Nat
        /\ verifiedBusinessCount' = verifiedBusinessCount
                + (IF new.kycStatus = "VERIFIED" THEN 1 ELSE 0)
                - (IF biz.kycStatus = "VERIFIED" THEN 1 ELSE 0)
      BY <1>1, <2>0, <2>1 DEF updateComplianceOfficer
  <2>4. UNCHANGED <<licenseToWallet, totalBusinesses, registryPaused>>
      BY <2>0 DEF updateComplianceOfficer
  <2> HIDE DEF new
  <2> QED BY <2>1, <2>2, <2>3, <2>4, RewriteInv
<1> QED BY <1>4, <1>5, <1>6, <1>7, <1>8, <1>9

\* Time and the pause touch no license, status or counter.
LEMMA TickInv ==
    ASSUME RegistryInv, AgeVerifications,
           UNCHANGED <<licenseToWallet, totalBusinesses, verifiedBusinessCount, registryPaused>>
    PROVE  RegistryInv'
<1>1. businesses \in [Businesses -> Business]
    BY DEF RegistryInv, RegistryTypeOK
<1>2. \A b \in Businesses :
          /\ businesses'[b] = [businesses[b] EXCEPT !.left = IF @ > 0 THEN @ - 1 ELSE 0]
          /\ businesses'[b] \in Business
          /\ businesses'[b].license = businesses[b].license
          /\ businesses'[b].kycStatus = businesses[b].kycStatus
          /\ businesses'[b].tier = businesses[b].tier
  <2> SUFFICES ASSUME NEW b \in Businesses
               PROVE  /\ businesses'[b] = [businesses[b] EXCEPT !.left = IF @ > 0 THEN @ - 1 ELSE 0]
                      /\ businesses'[b] \in Business
                      /\ businesses'[b].license = businesses[b].license
                      /\ businesses'[b].kycStatus = businesses[b].kycStatus
                      /\ businesses'[b].tier = businesses[b].tier
      OBVIOUS
  <2>1. businesses'[b] = [businesses[b] EXCEPT !.left = IF @ > 0 THEN @ - 1 ELSE 0]
      BY DEF AgeVerifications
  <2>2. businesses[b] \in Business
      BY <1>1
  <2>3. (IF businesses[b].left > 0 THEN businesses[b].left - 1 ELSE 0) \in 0 .. REVERIFICATION_INTERVAL
      BY <2>2, RegistryAssumption DEF Business
  <2> QED BY <2>1, <2>2, <2>3 DEF Business
<1>3. businesses' \in [Businesses -> Business]
    BY <1>2 DEF AgeVerifications
<1>4. RegistryTypeOK'
    BY <1>3 DEF RegistryInv, RegistryTypeOK
<1>5. StatusMeansRegistered' /\ LicenseExclusive'
    BY <1>2 DEF RegistryInv, StatusMeansRegistered, LicenseExclusive, registered
<1>6. Registered' = Registered /\ Verified' = Verified
    BY <1>2 DEF Registered, Verified, registered
<1>7. CountsExact'
    BY <1>6 DEF RegistryInv, CountsExact, Registered, Verified
<1> QED BY <1>4, <1>5, <1>7 DEF RegistryInv

LEMMA RegistryStepInv == RegistryInv /\ [RegistryNext]_registryVars => RegistryInv'
<1> SUFFICES ASSUME RegistryInv, [RegistryNext]_registryVars PROVE RegistryInv'
    OBVIOUS
<1>1. CASE RegistryCall
    BY <1>1, RegisterInv, StatusCallInv DEF RegistryCall
<1>2. CASE SetRegistryPaused
    BY <1>2, RegistryAssumption DEF SetRegistryPaused, RegistryInv, RegistryTypeOK,
        StatusMeansRegistered, LicenseExclusive, CountsExact, registered
<1>3. CASE RegistryTick
    BY <1>3, TickInv DEF RegistryTick
<1>4. CASE UNCHANGED registryVars
    BY <1>4 DEF registryVars, RegistryInv, RegistryTypeOK, StatusMeansRegistered,
        LicenseExclusive, CountsExact, registered
<1> QED BY <1>1, <1>2, <1>3, <1>4 DEF RegistryNext

LEMMA RegistryInvariant == RegistrySpec => []RegistryInv
<1> QED BY RegistryInitInv, RegistryStepInv, PTL DEF RegistrySpec, RegistryNext

\* The registry's storage keeps its types.
THEOREM RegistryTypes == RegistrySpec => []RegistryTypeOK
<1>1. RegistryInv => RegistryTypeOK
    BY DEF RegistryInv
<1> QED BY <1>1, RegistryInvariant, PTL

\* A trade license belongs to one business (licenseToWallet, lines 197-206 of
\* BusinessRegistry.sol).
THEOREM LicensesAreExclusive == RegistrySpec => []LicenseExclusive
<1>1. RegistryInv => LicenseExclusive
    BY DEF RegistryInv
<1> QED BY <1>1, RegistryInvariant, PTL

\* The cached counters are exact for any number of businesses, so the checked
\* decrements of suspendBusiness and revokeBusiness never revert.
THEOREM CountersAreExact == RegistrySpec => []CountsExact
<1>1. RegistryInv => CountsExact
    BY DEF RegistryInv
<1> QED BY <1>1, RegistryInvariant, PTL

\* What the registry caches for its readers never leaves the records it is of:
\* no counter drifts and no license is indexed under another wallet, so the
\* checked decrements of a revocation or a suspension never revert.
THEOREM IndexesAreExact == RegistrySpec => []IndexesExact
BY CountersAreExact, LicensesAreExclusive, PTL DEF IndexesExact

(***************************************************************************)
(* Revocation is final.                                                    *)
(***************************************************************************)
StaysRevoked ==
    \A b \in Businesses :
        /\ businesses[b].kycStatus = "REVOKED" => businesses'[b].kycStatus = "REVOKED"
        /\ businesses'[b].tier >= businesses[b].tier

LEMMA StepIsFinal == RegistryInv /\ [RegistryNext]_registryVars => StaysRevoked
<1> SUFFICES ASSUME RegistryInv, [RegistryNext]_registryVars, NEW b \in Businesses
             PROVE  /\ businesses[b].kycStatus = "REVOKED" => businesses'[b].kycStatus = "REVOKED"
                    /\ businesses'[b].tier >= businesses[b].tier
    BY DEF StaysRevoked
<1>1. /\ businesses \in [Businesses -> Business] /\ businesses[b] \in Business
      /\ businesses[b].tier \in Nat
    BY RegistryAssumption DEF RegistryInv, RegistryTypeOK, Business
<1>2. ASSUME NEW a \in Businesses, NEW l \in Licenses, NEW j \in Jurisdictions,
             NEW o \in Wallets, registerBusiness(a, l, j, o)
      PROVE  /\ businesses[b].kycStatus = "REVOKED" => businesses'[b].kycStatus = "REVOKED"
             /\ businesses'[b].tier >= businesses[b].tier
    <2>1. CASE a # b
        BY <1>1, <1>2, <2>1 DEF registerBusiness
    <2>2. CASE a = b
      <3>1. businesses[b].kycStatus = "NONE" /\ businesses[b].tier = 0
          BY <1>2, <2>2 DEF registerBusiness, RegistryInv, StatusMeansRegistered
      <3>2. businesses'[b].tier = 0
          BY <1>1, <1>2, <2>2 DEF registerBusiness
      <3> QED BY <3>1, <3>2
    <2> QED BY <2>1, <2>2
<1>3. ASSUME NEW a \in Businesses,
             \/ verifyBusiness(a) \/ suspendBusiness(a) \/ reinstateBusiness(a)
             \/ revokeBusiness(a) \/ \E o \in Wallets : updateComplianceOfficer(a, o)
      PROVE  /\ businesses[b].kycStatus = "REVOKED" => businesses'[b].kycStatus = "REVOKED"
             /\ businesses'[b].tier = businesses[b].tier
    <2>1. CASE a # b
        BY <1>1, <1>3, <2>1 DEF verifyBusiness, SetVerified, suspendBusiness,
            reinstateBusiness, revokeBusiness, updateComplianceOfficer
    <2>2. CASE a = b
        BY <1>1, <1>3, <2>2 DEF verifyBusiness, SetVerified, suspendBusiness,
            reinstateBusiness, revokeBusiness, updateComplianceOfficer, Business
    <2> QED BY <2>1, <2>2
<1>4. ASSUME NEW a \in Businesses, NEW tier \in Tiers, upgradeTier(a, tier)
      PROVE  /\ businesses'[b].kycStatus = businesses[b].kycStatus
             /\ businesses'[b].tier >= businesses[b].tier
    BY <1>1, <1>4, RegistryAssumption DEF upgradeTier, Business
<1>5. CASE RegistryTick
    <2>1. businesses'[b] = [businesses[b] EXCEPT !.left = IF @ > 0 THEN @ - 1 ELSE 0]
        BY <1>5 DEF RegistryTick, AgeVerifications
    <2> QED BY <1>1, <2>1 DEF Business
<1>6. CASE UNCHANGED businesses
    BY <1>1, <1>6
<1>7. CASE RegistryCall
    BY <1>1, <1>2, <1>3, <1>4, <1>7 DEF RegistryCall
<1> QED
    BY <1>5, <1>6, <1>7 DEF RegistryNext, SetRegistryPaused, registryVars

\* A revoked business is never active again and no tier is ever lowered, under
\* any sequence of calls.
THEOREM RevocationIsFinal == RegistrySpec => RevokedForever
<1>1. RegistryInv /\ [RegistryNext]_registryVars => [StaysRevoked]_registryVars
    BY StepIsFinal
<1> QED BY <1>1, RegistryInvariant, PTL DEF RegistrySpec, RegistryNext, RevokedForever, StaysRevoked
-----------------------------------------------------------------------------
(***************************************************************************)
(* The settlement gate.                                                    *)
(***************************************************************************)
(***************************************************************************)
(* The strengthening.  A clearance that exists names a seal, that seal is  *)
(* used, and a used seal has left "pending", so it can never become active *)
(* again once it is not.                                                   *)
(***************************************************************************)
UsedIsSpent ==
    /\ \A k \in Corridors : clearances[k].exists =>
          clearances[k].sealId \in sealUsed /\ Purpose[clearances[k].sealId] = k
    /\ \A s \in sealUsed : sealStatus[s] # "pending"

GateInv == GateTypeOK /\ UsedIsSpent

LEMMA GateInitInv == GateInit => GateInv
<1> SUFFICES ASSUME GateInit PROVE GateInv
    OBVIOUS
<1>1. NoClearance \in Clearance /\ ~NoClearance.exists
    BY DEF NoClearance, Clearance
<1>2. GateTypeOK
    BY <1>1 DEF GateInit, GateTypeOK, SealStatus
<1>3. UsedIsSpent
    BY <1>1 DEF GateInit, UsedIsSpent
<1> QED BY <1>2, <1>3 DEF GateInv

LEMMA ClearInv ==
    ASSUME GateInv, NEW payer \in Payers, NEW payee \in Payees, NEW s \in Seals,
           clear(payer, payee, s)
    PROVE  GateInv'
<1> DEFINE k == <<payer, payee>>
           new == [sealId |-> s, exists |-> TRUE, revoked |-> FALSE]
<1>1. k \in Corridors /\ new \in Clearance
    BY DEF Corridors, Clearance
<1>2. /\ clearances' = [clearances EXCEPT ![k] = new]
      /\ sealUsed' = sealUsed \cup {s} /\ UNCHANGED <<policy, gatePaused, sealStatus>>
    BY DEF clear, Admit
<1>3. sealStatus[s] = "active" /\ Purpose[s] = k
    BY DEF clear, verifySeal
<1>4. GateTypeOK'
    BY <1>1, <1>2 DEF GateInv, GateTypeOK
<1>5. \A m \in Corridors : clearances'[m] = IF m = k THEN new ELSE clearances[m]
    BY <1>1, <1>2 DEF GateInv, GateTypeOK
<1>6. UsedIsSpent'
    BY <1>2, <1>3, <1>5 DEF GateInv, UsedIsSpent
<1> QED BY <1>4, <1>6 DEF GateInv

LEMMA RevokeInv ==
    ASSUME GateInv, NEW payer \in Payers, NEW payee \in Payees, revoke(payer, payee)
    PROVE  GateInv'
<1> DEFINE k == <<payer, payee>>
<1>1. k \in Corridors
    BY DEF Corridors
<1>2. /\ clearances' = [clearances EXCEPT ![k] = [@ EXCEPT !.revoked = TRUE]]
      /\ UNCHANGED <<sealUsed, policy, gatePaused, sealStatus>>
    BY DEF revoke
<1>3. \A m \in Corridors : /\ clearances'[m] \in Clearance
                           /\ clearances'[m].exists = clearances[m].exists
                           /\ clearances'[m].sealId = clearances[m].sealId
    BY <1>1, <1>2 DEF GateInv, GateTypeOK, Clearance
<1>4. GateTypeOK'
    BY <1>1, <1>2, <1>3 DEF GateInv, GateTypeOK
<1>5. UsedIsSpent'
    BY <1>2, <1>3 DEF GateInv, UsedIsSpent
<1> QED BY <1>4, <1>5 DEF GateInv

LEMMA SealMovesInv ==
    ASSUME GateInv, NEW s \in Seals, SealMoves(s)
    PROVE  GateInv'
<1>1. PICK t \in {"active", "revoked", "expired"} :
          sealStatus' = [sealStatus EXCEPT ![s] = t]
    BY DEF SealMoves
<1>2. UNCHANGED <<clearances, sealUsed, policy, gatePaused>>
    BY DEF SealMoves
<1>3. GateTypeOK'
    BY <1>1, <1>2 DEF GateInv, GateTypeOK, SealStatus
<1>4. UsedIsSpent'
    BY <1>1, <1>2 DEF GateInv, GateTypeOK, UsedIsSpent
<1> QED BY <1>3, <1>4 DEF GateInv

LEMMA GateStepInv == GateInv /\ [GateCall]_gateVars => GateInv'
<1> SUFFICES ASSUME GateInv, [GateCall]_gateVars PROVE GateInv'
    OBVIOUS
<1>1. CASE \E payer \in Payers, payee \in Payees : revoke(payer, payee)
    BY <1>1, RevokeInv
<1>2. CASE \E payer \in Payers, payee \in Payees, s \in Seals : clear(payer, payee, s)
    BY <1>2, ClearInv
<1>3. CASE \E p \in Policies : setCompliancePolicy(p)
    BY <1>3 DEF setCompliancePolicy, GateInv, GateTypeOK, UsedIsSpent
<1>4. CASE SetGatePaused
    BY <1>4, GateAssumption DEF SetGatePaused, GateInv, GateTypeOK, UsedIsSpent
<1>5. CASE \E s \in Seals : SealMoves(s)
    BY <1>5, SealMovesInv
<1>6. CASE UNCHANGED gateVars
    BY <1>6 DEF gateVars, GateInv, GateTypeOK, UsedIsSpent
<1> QED BY <1>1, <1>2, <1>3, <1>4, <1>5, <1>6 DEF GateCall

LEMMA GateInvariant == GateSpec => []GateInv
<1> QED BY GateInitInv, GateStepInv, PTL DEF GateSpec

\* The gate's storage keeps its types.
THEOREM GateTypes == GateSpec => []GateTypeOK
<1>1. GateInv => GateTypeOK
    BY DEF GateInv
<1> QED BY <1>1, GateInvariant, PTL

\* Every clearance rests on a used seal of its own corridor and no seal carries
\* two corridors: the purpose a seal was minted with decides (clear, lines
\* 104-144 of SealSettlementGate.sol).
THEOREM OneCorridorPerSeal == GateSpec => []SealCarriesOneCorridor
<1>1. GateInv => SealCarriesOneCorridor
    BY DEF GateInv, UsedIsSpent, SealCarriesOneCorridor
<1> QED BY <1>1, GateInvariant, PTL

(***************************************************************************)
(* A corridor that is closed stays closed.                                 *)
(***************************************************************************)
Stays == \A k \in Corridors :
    clearances[k].exists /\ ~isCleared(k[1], k[2]) => ~isCleared(k[1], k[2])'

\* Clearing never touches a corridor that has a clearance, revoking only
\* closes, and a seal that is neither pending nor active never moves.
LEMMA StaysClosed == GateInv /\ [GateCall]_gateVars => Stays
<1> SUFFICES ASSUME GateInv, [GateCall]_gateVars, NEW k \in Corridors,
                    clearances[k].exists, ~isCleared(k[1], k[2])
             PROVE  ~isCleared(k[1], k[2])'
    BY DEF Stays
<1> DEFINE c == clearances[k]
<1>1. k = <<k[1], k[2]>> /\ k[1] \in Payers /\ k[2] \in Payees
    BY DEF Corridors
<1>2. c.revoked \/ sealStatus[c.sealId] # "active"
    BY <1>1 DEF isCleared, verifySeal, GateInv, UsedIsSpent, GateTypeOK
<1>3. /\ c.sealId \in Seals /\ sealStatus[c.sealId] # "pending"
      /\ clearances \in [Corridors -> Clearance] /\ sealStatus \in [Seals -> SealStatus]
    BY DEF GateInv, UsedIsSpent, GateTypeOK
<1>4. SUFFICES clearances'[k].revoked \/ sealStatus'[clearances'[k].sealId] # "active"
    BY <1>1 DEF isCleared, verifySeal
<1>5. CASE \E payer \in Payers, payee \in Payees : revoke(payer, payee)
  <2>1. PICK payer \in Payers, payee \in Payees : revoke(payer, payee)
      BY <1>5
  <2>2. /\ clearances'[k].sealId = c.sealId /\ sealStatus' = sealStatus
        /\ c.revoked => clearances'[k].revoked
      BY <2>1, <1>3 DEF revoke, Clearance, Corridors
  <2> QED BY <1>2, <2>2
<1>6. CASE \E payer \in Payers, payee \in Payees, s \in Seals : clear(payer, payee, s)
  <2>1. PICK payer \in Payers, payee \in Payees, s \in Seals : clear(payer, payee, s)
      BY <1>6
  <2>2. k # <<payer, payee>>
      BY <2>1 DEF clear
  <2>3. clearances'[k] = c /\ sealStatus' = sealStatus
      BY <2>1, <2>2, <1>3 DEF clear, Admit
  <2> QED BY <1>2, <2>3
<1>7. CASE \E s \in Seals : SealMoves(s)
  <2>1. PICK s \in Seals : SealMoves(s)
      BY <1>7
  <2>2. clearances' = clearances
      BY <2>1 DEF SealMoves
  <2>3. CASE s = c.sealId
      BY <1>2, <1>3, <2>1, <2>2, <2>3 DEF SealMoves
  <2>4. CASE s # c.sealId
      BY <1>2, <1>3, <2>1, <2>2, <2>4 DEF SealMoves
  <2> QED BY <2>3, <2>4
<1>8. CASE UNCHANGED <<clearances, sealStatus>>
    BY <1>2, <1>8
<1> QED
    BY <1>5, <1>6, <1>7, <1>8 DEF GateCall, gateVars, setCompliancePolicy, SetGatePaused

\* A corridor that a revocation or an expiry has closed is never open again,
\* for any number of seals and under any sequence of policies (the set-once
\* slot of clear, lines 114-116 of SealSettlementGate.sol).
THEOREM ClosureIsFinal == GateSpec => ClosedForGood
<1>1. GateInv /\ [GateCall]_gateVars => [Stays]_gateVars
    BY StaysClosed
<1> QED BY <1>1, GateInvariant, PTL DEF GateSpec, ClosedForGood, Stays
===============================================================================
