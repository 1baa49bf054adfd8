--------------------------- MODULE BusinessRegistry ---------------------------
(***************************************************************************)
(* The BusinessRegistry contract (contracts/src/BusinessRegistry.sol):     *)
(* KYC status, tier and annual re-verification of every business, read     *)
(* live by NoblePay and PaymentChannels.                                   *)
(*                                                                         *)
(* A verification is kept as the days it is still good for: left = 0 is    *)
(* "lastVerified + REVERIFICATION_INTERVAL <= block.timestamp".            *)
(***************************************************************************)
EXTENDS Integers, FiniteSets

CONSTANTS
    Wallets,                  \* every address that may hold tokens or register
    Businesses,               \* the wallets that may register
    None,                     \* address(0) and absent values
    Licenses,                 \* trade license numbers
    Jurisdictions,
    WellFormed,               \* jurisdiction -> the license numbers it accepts
    REVERIFICATION_INTERVAL,
    Tiers,                    \* 0 .. max: STANDARD, PREMIUM, ENTERPRISE
    RegistryPauses            \* values the registry's pause flag may take

ASSUME RegistryAssumption ==
    /\ Businesses \subseteq Wallets /\ IsFiniteSet(Businesses)
    /\ None \notin Wallets /\ None \notin Licenses
    /\ WellFormed \in [Jurisdictions -> SUBSET Licenses]
    /\ REVERIFICATION_INTERVAL \in Nat \ {0}
    /\ Tiers \subseteq Nat /\ 0 \in Tiers
    /\ RegistryPauses \subseteq BOOLEAN

VARIABLES
    businesses,             \* wallet -> Business
    licenseToWallet,        \* license -> wallet or None
    totalBusinesses, verifiedBusinessCount,
    registryPaused

registryVars == <<businesses, licenseToWallet, totalBusinesses,
                  verifiedBusinessCount, registryPaused>>

KYCStatus == {"NONE", "PENDING", "VERIFIED", "SUSPENDED", "REVOKED"}

Business == [license: Licenses \cup {None}, jurisdiction: Jurisdictions \cup {None},
             kycStatus: KYCStatus, tier: Tiers, left: 0 .. REVERIFICATION_INTERVAL,
             complianceOfficer: Wallets \cup {None}]

NoBusiness == [license |-> None, jurisdiction |-> None, kycStatus |-> "NONE",
               tier |-> 0, left |-> 0, complianceOfficer |-> None]

RegistryInit ==
    /\ businesses = [b \in Businesses |-> NoBusiness]
    /\ licenseToWallet = [l \in Licenses |-> None]
    /\ totalBusinesses = 0 /\ verifiedBusinessCount = 0
    /\ registryPaused = FALSE

\* registeredAt # 0
registered(b) == businesses[b].license # None

isBusinessActive(b) == /\ b \in Businesses
                       /\ businesses[b].kycStatus = "VERIFIED"
                       /\ businesses[b].left > 0

getBusinessTier(b) == businesses[b].tier
-----------------------------------------------------------------------------
\* Mutant: the license is not checked against those already registered.
registerAnyLicense(b, l, j, officer) ==
    /\ ~registryPaused /\ ~registered(b) /\ officer # None /\ l \in WellFormed[j]
    /\ businesses' = [businesses EXCEPT ![b] =
            [license |-> l, jurisdiction |-> j, kycStatus |-> "PENDING", tier |-> 0,
             left |-> 0, complianceOfficer |-> officer]]
    /\ licenseToWallet' = [licenseToWallet EXCEPT ![l] = b]
    /\ totalBusinesses' = totalBusinesses + 1
    /\ UNCHANGED <<verifiedBusinessCount, registryPaused>>

registerBusiness(b, l, j, officer) ==
    /\ ~registryPaused
    /\ ~registered(b)
    /\ officer # None
    /\ l \in WellFormed[j]
    /\ licenseToWallet[l] = None
    /\ businesses' = [businesses EXCEPT ![b] =
            [license |-> l, jurisdiction |-> j, kycStatus |-> "PENDING", tier |-> 0,
             left |-> 0, complianceOfficer |-> officer]]
    /\ licenseToWallet' = [licenseToWallet EXCEPT ![l] = b]
    /\ totalBusinesses' = totalBusinesses + 1
    /\ UNCHANGED <<verifiedBusinessCount, registryPaused>>

\* The business passes verification now, whatever its state before.
SetVerified(b) ==
    businesses' = [businesses EXCEPT ![b].kycStatus = "VERIFIED",
                                     ![b].left = REVERIFICATION_INTERVAL]

\* First verification and annual re-verification.
verifyBusiness(b) ==
    /\ ~registryPaused
    /\ registered(b)
    /\ businesses[b].kycStatus \in {"PENDING", "VERIFIED"}
    /\ verifiedBusinessCount' = verifiedBusinessCount
            + (IF businesses[b].kycStatus = "PENDING" THEN 1 ELSE 0)
    /\ SetVerified(b)
    /\ UNCHANGED <<licenseToWallet, totalBusinesses, registryPaused>>

\* Checked arithmetic: the decrement reverts at zero.
suspendBusiness(b) ==
    /\ ~registryPaused
    /\ registered(b)
    /\ businesses[b].kycStatus = "VERIFIED"
    /\ verifiedBusinessCount > 0
    /\ businesses' = [businesses EXCEPT ![b].kycStatus = "SUSPENDED"]
    /\ verifiedBusinessCount' = verifiedBusinessCount - 1
    /\ UNCHANGED <<licenseToWallet, totalBusinesses, registryPaused>>

\* Mutant: reinstates from any status but VERIFIED.
reinstateAnyBusiness(b) ==
    /\ ~registryPaused /\ registered(b) /\ businesses[b].kycStatus # "VERIFIED"
    /\ SetVerified(b)
    /\ verifiedBusinessCount' = verifiedBusinessCount + 1
    /\ UNCHANGED <<licenseToWallet, totalBusinesses, registryPaused>>

reinstateBusiness(b) ==
    /\ ~registryPaused
    /\ registered(b)
    /\ businesses[b].kycStatus = "SUSPENDED"
    /\ SetVerified(b)
    /\ verifiedBusinessCount' = verifiedBusinessCount + 1
    /\ UNCHANGED <<licenseToWallet, totalBusinesses, registryPaused>>

\* Mutant: a suspended business is counted out a second time.
revokeUncounting(b) ==
    /\ registered(b)
    /\ verifiedBusinessCount > 0
    /\ verifiedBusinessCount' = verifiedBusinessCount - 1
    /\ businesses' = [businesses EXCEPT ![b].kycStatus = "REVOKED"]
    /\ UNCHANGED <<licenseToWallet, totalBusinesses, registryPaused>>

\* From every status and while paused.
revokeBusiness(b) ==
    /\ registered(b)
    /\ \/ businesses[b].kycStatus = "VERIFIED" /\ verifiedBusinessCount > 0
            /\ verifiedBusinessCount' = verifiedBusinessCount - 1
       \/ businesses[b].kycStatus # "VERIFIED" /\ UNCHANGED verifiedBusinessCount
    /\ businesses' = [businesses EXCEPT ![b].kycStatus = "REVOKED"]
    /\ UNCHANGED <<licenseToWallet, totalBusinesses, registryPaused>>

upgradeTier(b, tier) ==
    /\ ~registryPaused
    /\ registered(b)
    /\ businesses[b].kycStatus = "VERIFIED"
    /\ tier > businesses[b].tier
    /\ businesses' = [businesses EXCEPT ![b].tier = tier]
    /\ UNCHANGED <<licenseToWallet, totalBusinesses, verifiedBusinessCount, registryPaused>>

updateComplianceOfficer(b, officer) ==
    /\ ~registryPaused
    /\ officer # None
    /\ registered(b)
    /\ businesses' = [businesses EXCEPT ![b].complianceOfficer = officer]
    /\ UNCHANGED <<licenseToWallet, totalBusinesses, verifiedBusinessCount, registryPaused>>

SetRegistryPaused ==
    /\ registryPaused' \in RegistryPauses \ {registryPaused}
    /\ UNCHANGED <<businesses, licenseToWallet, totalBusinesses, verifiedBusinessCount>>

\* Mutant: the age of a verification is not compared before it is reduced.
AgeBelowZero ==
    businesses' = [b \in Businesses |-> [businesses[b] EXCEPT !.left = @ - 1]]

\* A day passes.
AgeVerifications ==
    businesses' = [b \in Businesses |->
        [businesses[b] EXCEPT !.left = IF @ > 0 THEN @ - 1 ELSE 0]]

RegistryTick ==
    /\ \E b \in Businesses : businesses[b].left > 0
    /\ AgeVerifications
    /\ UNCHANGED <<licenseToWallet, totalBusinesses, verifiedBusinessCount, registryPaused>>

RegistryCall ==
    \E b \in Businesses :
        \/ \E l \in Licenses, j \in Jurisdictions, o \in Wallets : registerBusiness(b, l, j, o)
        \/ verifyBusiness(b) \/ suspendBusiness(b) \/ reinstateBusiness(b) \/ revokeBusiness(b)
        \/ \E tier \in Tiers : upgradeTier(b, tier)
        \/ \E o \in Wallets : updateComplianceOfficer(b, o)

RegistrySpec == RegistryInit /\ [][RegistryCall \/ SetRegistryPaused \/ RegistryTick]_registryVars
-----------------------------------------------------------------------------
\* The types of the registry's storage.
RegistryTypeOK ==
    /\ businesses \in [Businesses -> Business]
    /\ licenseToWallet \in [Licenses -> Businesses \cup {None}]
    /\ totalBusinesses \in Nat /\ verifiedBusinessCount \in Nat
    /\ registryPaused \in BOOLEAN

\* The two cached counters agree with the records through every order of
\* verifying, suspending, reinstating and revoking, so the checked decrement
\* of a suspension or a revocation never reverts (BusinessRegistry.sol:233-310).
CountsExact ==
    /\ totalBusinesses = Cardinality({b \in Businesses : registered(b)})
    /\ verifiedBusinessCount =
            Cardinality({b \in Businesses : businesses[b].kycStatus = "VERIFIED"})

\* One license, one business: the reverse index is exact, so a license can
\* never be registered by two wallets, not even after a revocation.
LicenseExclusive ==
    \A b \in Businesses : registered(b) => licenseToWallet[businesses[b].license] = b

\* What the registry caches for its readers, the counters and the index of
\* licenses, never leaves the records it is of (BusinessRegistry.sol:186-360).
IndexesExact == CountsExact /\ LicenseExclusive

\* Revocation is final: a revoked business is never active again, whatever is
\* called afterwards, and its tier never falls while it lasts.
RevokedForever ==
    [][\A b \in Businesses :
        /\ businesses[b].kycStatus = "REVOKED" => businesses'[b].kycStatus = "REVOKED"
        /\ businesses'[b].tier >= businesses[b].tier]_registryVars
=============================================================================
