---------------------------- MODULE MCServices ----------------------------
(***************************************************************************)
(* What the backend keeps besides the records of transactions, the scripts *)
(* that deploy, and the two contracts that permit payments: parts that     *)
(* share no state.  A scenario exercises one of them while the others rest.*)
(***************************************************************************)
EXTENDS AuditTrail, Admission, TravelRecords, ChainViews, Sockets, Reports,
        Ceremony, TokenProvisioning, SocketClient, Feeds, Listings, ReleaseConfig,
        BusinessRegistry, SealSettlementGate, TLC

CONSTANTS Scenarios, l1, l2, e1, e2, s1, s2, s3

\* The order in which a ceremony deploys.
MCOrder == <<"gate", "noblePay">>

\* l2 holds a character only an international license may have; s3 is a seal
\* for the opposite direction.
MCWellFormed == [j \in Jurisdictions |-> IF j = "UAE" THEN {l1} ELSE {l1, l2}]
MCPurpose    == [s \in Seals |-> IF s = s3 THEN <<e2, e1>> ELSE <<e1, e2>>]
MCPolicies   == {Seals, {s1, s3}}

VARIABLE scenario

services == <<log, sessionVars, limitVars, travelVars, blocks, socketVars, reportVars, ceremonyVars,
             provisionVars, clientVars, feedVars,
             listingVars, releaseVars, registryVars, gateVars>>
allVars == <<scenario, shared, services>>

MCInit ==
    /\ scenario \in Scenarios
    /\ RequestsInit
    /\ AuditInit
    /\ SessionInit
    /\ LimitInit
    /\ TravelInit
    /\ ViewInit
    /\ SocketInit
    /\ ReportInit
    /\ CeremonyInit
    /\ ProvisionInit /\ (scenario = "provisioning" \/ existing = {})
    /\ ClientInit
    /\ FeedInit /\ (scenario = "feeds" \/ ~evaluating)
    /\ RegistryInit
    /\ GateInit /\ (scenario = "gate" \/ policy = Seals)
    /\ ReleaseInit
    /\ ListingInit /\ (scenario = "lists" \/ list.of = "reports")

RegistryStep == RegistryCall \/ SetRegistryPaused \/ RegistryTick

MCNext ==
    /\ \/ scenario = "audit" /\ AuditNext
       \/ scenario = "sessions" /\ SessionNext
       \/ scenario = "limits" /\ LimitNext
       \/ scenario = "travel" /\ TravelNext
       \/ scenario = "views" /\ ViewNext
       \/ scenario = "sockets" /\ SocketNext
       \/ scenario = "reports" /\ ReportNext
       \/ scenario = "ceremony" /\ CeremonyNext /\ UNCHANGED shared
       \/ scenario = "provisioning" /\ ProvisionNext /\ UNCHANGED shared
       \/ scenario = "client" /\ ClientNext /\ UNCHANGED shared
       \/ scenario = "feeds" /\ FeedNext
       \/ scenario = "lists" /\ ListingNext /\ UNCHANGED shared
       \/ scenario = "release" /\ ReleaseNext /\ UNCHANGED shared
       \/ scenario = "registry" /\ RegistryStep /\ UNCHANGED shared
       \/ scenario = "gate" /\ GateCall /\ UNCHANGED shared
    /\ scenario # "audit" => UNCHANGED log
    /\ scenario # "sessions" => UNCHANGED sessionVars
    /\ scenario # "limits" => UNCHANGED limitVars
    /\ scenario # "travel" => UNCHANGED travelVars
    /\ scenario # "views" => UNCHANGED blocks
    /\ scenario # "sockets" => UNCHANGED socketVars
    /\ scenario # "reports" => UNCHANGED reportVars
    /\ scenario # "ceremony" => UNCHANGED ceremonyVars
    /\ scenario # "provisioning" => UNCHANGED provisionVars
    /\ scenario # "client" => UNCHANGED clientVars
    /\ scenario # "feeds" => UNCHANGED feedVars
    /\ scenario # "lists" => UNCHANGED listingVars
    /\ scenario # "release" => UNCHANGED releaseVars
    /\ scenario # "registry" => UNCHANGED registryVars
    /\ scenario # "gate" => UNCHANGED gateVars

MCSpec == MCInit /\ [][MCNext /\ UNCHANGED scenario]_allVars

\* The types of the part in use; the others keep their initial values.
TypesOK ==
    /\ RequestsTypeOK
    /\ scenario = "audit" => AuditTypeOK
    /\ scenario = "sessions" => SessionTypeOK
    /\ scenario = "limits" => LimitTypeOK
    /\ scenario = "travel" => TravelTypeOK
    /\ scenario = "views" => ViewTypeOK
    /\ scenario = "sockets" => SocketTypeOK
    /\ scenario = "reports" => ReportTypeOK
    /\ scenario = "ceremony" => CeremonyTypeOK
    /\ scenario = "provisioning" => ProvisionTypeOK
    /\ scenario = "client" => ClientTypeOK
    /\ scenario = "feeds" => FeedTypeOK
    /\ scenario = "lists" => ListingTypeOK
    /\ scenario = "release" => ReleaseTypeOK
    /\ scenario = "registry" => RegistryTypeOK
    /\ scenario = "gate" => GateTypeOK

----------------------------------------------------------------------------
(* What the services promise together. *)

\* Who is let in, who is still served and who is told: a challenge opens one
\* session (routes/auth.ts), a request goes on only in the standing its wallet
\* and role have now (middleware/auth.ts, rbac.ts), no caller exceeds its rate
\* limit (middleware/auth.ts), and an event reaches only sockets vouched for
\* since it was published (services/websocket.ts).
AccessHolds ==
    /\ OneSessionPerChallenge
    /\ AdmittedInStanding
    /\ WithinLimit
    /\ DeliveredInStanding

\* What is reported to a regulator or a counterparty, whatever is retried: a
\* report is filed once (services/reporting.ts), a suspicion is in it, and the
\* personal data of a travel-rule form leave for one recorded destination
\* (services/travel-rule.ts).
FilingsHold == FiledOnce /\ SuspicionReported /\ TravelDataAccounted

\* What a caller is shown is a state that was: limits and balances of one block
\* (lib/strict-block-rpc.ts), feeds as fresh as they are called (services/
\* compliance.ts, fx.ts, readiness.ts), lists read to their last page without a
\* gap (services/payment.ts), events over one live socket (useWebSocket.ts).
ViewsTrue == OneBlockPerView /\ FeedsTrue /\ NothingSkipped /\ OneLiveSocket

\* However the deployment scripts stop and are run again, over reorganisations:
\* no contract is left to a renounced or foreign administrator, no token is
\* deployed twice (scripts/deploy-devnet-core.mjs, provision-testnet-tokens.mjs),
\* what a manifest says stays true, and the checks between it and the services
\* judge the settings of a release alike at every edit, application, build and
\* start (validate-production-config.mjs).
DeploymentsHold ==
    /\ ManifestTrue
    /\ []NeverUngoverned /\ []OneContractPerToken
    /\ [][ReleaseHolds']_releaseVars

\* Bounds: only the reports read what is audited; at most one business is
\* suspended, or its session over, while its sockets are served.
Small ==
    /\ scenario # "reports" => trail = {}
    /\ Cardinality(suspended) + Cardinality(lapsed) <= 1

\* The elements of several sets of two, all swapped at once.
Together(G) == [x \in UNION G |-> LET S == CHOOSE T \in G : x \in T
                                  IN CHOOSE y \in S : y # x]
ServicesSymmetry ==
    {Together(G) : G \in {{Workers}, {TravelData, References}}}
=============================================================================
