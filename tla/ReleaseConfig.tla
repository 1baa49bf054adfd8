--------------------------- MODULE ReleaseConfig ---------------------------
(***************************************************************************)
(* From the manifest a deployment publishes to the services it configures. *)
(* The manifest's release values are written into the production file      *)
(* (scripts/apply-finalized-manifest.mjs) beside the operator's own; the   *)
(* file is checked (scripts/validate-production-config.mjs), then the      *)
(* frontend is built from it (next.config.js) and the backend started from *)
(* it (backend/src/lib/env-validation.ts).  Four programs judge the same   *)
(* settings, each by rules of its own.                                     *)
(*                                                                         *)
(* A setting is the class its checks put it in: of a URL, its transport or *)
(* what its host is ("loopback" stands for every host both checks refuse); *)
(* of a keyring, the identifiers it has.                                   *)
(***************************************************************************)
EXTENDS Naturals

CONSTANTS
    KeyIds,     \* identifiers of travel-rule keys
    MaxEdits    \* bound: edits of the operator

ASSUME ReleaseAssumption == KeyIds # {} /\ MaxEdits \in Nat

VARIABLES
    envFile,    \* the production file
    finalized,  \* the release values of the finalized manifest, or Template
    update,     \* the file the applier has written beside it, or None of it
    site,       \* the release values the frontend was built with, or Template
    server,     \* the file the running backend was started from, or Unbuilt
    edits       \* how many edits there were

releaseVars == <<envFile, finalized, update, site, server, edits>>

Testnet == 7332

\* What the operator may make of a setting of his own, the sound value among
\* them.  The origin is the manifest's, and may be retouched.
OperatorSettings ==
    [rpc        |-> {"https", "http"},
     service    |-> {"external", "none", "private", "reserved", "loopback"},
     evaluation |-> BOOLEAN,     \* COMPLIANCE_EVALUATION_ACKNOWLEDGEMENT
     plaintext  |-> BOOLEAN,     \* ALLOW_INSECURE_TESTNET_RPC
     apiKey     |-> BOOLEAN,     \* COMPLIANCE_API_KEY has 32 bytes
     secrets    |-> BOOLEAN,     \* so have the two others
     maxAge     |-> {"24", "0"},
     threshold  |-> {"1000", "0"},
     keys       |-> SUBSET KeyIds,
     active     |-> KeyIds]
ReleaseSettings ==
    [network   : {"testnet", "mainnet", "devnet"}, chain : {Testnet, Testnet + 1},
     publicRpc : {"https", "http"}]

\* deploy/production.env.example: no chain is named yet.
Template == [network |-> "testnet", chain |-> 0, publicRpc |-> "https"]

Filled ==
    [rpc |-> "https", service |-> "external", evaluation |-> FALSE, plaintext |-> FALSE,
     apiKey |-> TRUE, secrets |-> TRUE, maxAge |-> "24", threshold |-> "1000",
     keys |-> KeyIds, active |-> CHOOSE k \in KeyIds : TRUE,
     origin |-> "exact", release |-> Template]
Unbuilt == [Filled EXCEPT !.origin = "none"]

ReleaseInit ==
    /\ envFile = Filled
    /\ finalized = Template
    /\ update = Unbuilt
    /\ site = Template /\ server = Unbuilt
    /\ edits = 0

ReleaseTypeOK ==
    /\ {finalized, site} \subseteq ReleaseSettings \cup {Template}
    /\ \A e \in {envFile, update, server} :
           /\ e.release \in {finalized, Template}
           /\ e.origin \in {"exact", "slash", "none"}
           /\ \A s \in DOMAIN OperatorSettings : e[s] \in OperatorSettings[s]
    /\ edits \in 0..MaxEdits

----------------------------------------------------------------------------
(* The checks: by setting, whether it passes. *)

Faults(checks) == {s \in DOMAIN checks : ~checks[s]}

\* A plaintext RPC passes where it was acknowledged, on a testnet.
validatePrivateRpcTransport(url, network, acknowledged) ==
    \/ url = "https"
    \/ network = "devnet"
    \/ network = "testnet" /\ acknowledged

\* Mutant: the acknowledgement counts on every chain
AcknowledgedAnywhere(e) == e.evaluation

\* Preflight and backend each decide whether a release may do without a
\* compliance service.
complianceEvaluation(e) == e.evaluation /\ e.release.chain = Testnet
complianceEvaluationAcknowledged(e) == e.evaluation /\ e.release.chain = Testnet

validateExternalComplianceOrigin(e) == e.service \notin {"loopback", "reserved"}
parseExternalComplianceUrl(e) == e.service \notin {"none", "loopback", "private"}

validatePublicURL(transport) == transport = "https"
validatePrivateRPCURL(e) == e.rpc = "https"

TravelRuleKeyring(e) == e.keys # {} /\ e.active \in e.keys
loadTravelRuleEncryptionConfiguration(e) == e.keys # {} /\ e.active \in e.keys

\* scripts/validate-production-config.mjs --env-file.
PreflightChecks(e) ==
    [rpc       |-> validatePrivateRPCURL(e),
     service   |-> IF e.service = "none" THEN complianceEvaluation(e)
                   ELSE validateExternalComplianceOrigin(e),
     maxAge    |-> e.maxAge # "0",
     threshold |-> e.threshold # "0",
     keyring   |-> TravelRuleKeyring(e),
     chain     |-> e.release.chain > 0,
     publicRpc |-> validatePublicURL(e.release.publicRpc)]

\* What the backend parses of the chain it is to serve.
loadNoblePayChainConfiguration(e) == e.release.chain > 0

collectProductionEnvErrors(e) ==
    LET evaluation == complianceEvaluationAcknowledged(e) IN
    Faults([secrets   |-> e.secrets,
            apiKey    |-> evaluation \/ e.apiKey,
            rpc       |-> e.rpc = "https",
            chain     |-> loadNoblePayChainConfiguration(e),
            service   |-> \/ evaluation /\ e.service = "none"
                          \/ parseExternalComplianceUrl(e),
            maxAge    |-> e.maxAge # "0",
            keyring   |-> loadTravelRuleEncryptionConfiguration(e),
            threshold |-> e.threshold # "0",
            origin    |-> e.origin = "exact"])

\* next.config.js: plaintext passes on the public testnet alone.
validateProductionEnvironment(e) ==
    LET acknowledged == /\ e.plaintext
                        /\ e.release.network = "testnet" /\ e.release.chain = Testnet IN
    Faults([chain     |-> e.release.chain > 0,
            publicRpc |-> e.release.publicRpc = "https" \/ acknowledged])

----------------------------------------------------------------------------
(* The operator, the deployment and the services. *)

Edit ==
    /\ edits < MaxEdits /\ edits' = edits + 1
    /\ \/ \E s \in DOMAIN OperatorSettings : \E v \in OperatorSettings[s] \ {envFile[s]} :
              envFile' = [envFile EXCEPT ![s] = v]
       \/ envFile.origin = "exact" /\ envFile' = [envFile EXCEPT !.origin = "slash"]
    /\ UNCHANGED <<finalized, update, site, server>>

\* The ceremony that finalizes: mainnet has an id of its own.
Finalize ==
    /\ finalized = Template
    /\ \E r \in ReleaseSettings, acknowledged \in BOOLEAN :
           /\ validatePrivateRpcTransport(r.publicRpc, r.network, acknowledged)
           /\ r.network = "mainnet" => r.chain # Testnet
           /\ finalized' = r
    /\ UNCHANGED <<envFile, update, site, server, edits>>

applyFinalizedEnvironment(e, values) == [e EXCEPT !.release = values, !.origin = "exact"]

\* The applier reads the file and writes the updated one under another name...
WriteUpdate ==
    /\ finalized # Template /\ update = Unbuilt
    /\ update' = applyFinalizedEnvironment(envFile, finalized)
    /\ UNCHANGED <<envFile, finalized, site, server, edits>>

\* ... which then takes the file's place, whatever was edited meanwhile.
RenameUpdate ==
    /\ update # Unbuilt
    /\ envFile' = update /\ update' = Unbuilt
    /\ UNCHANGED <<finalized, site, server, edits>>

\* The applier ends in between: the other file is never read again.
StopApplying ==
    /\ update # Unbuilt
    /\ update' = Unbuilt
    /\ UNCHANGED <<envFile, finalized, site, server, edits>>

BuildFrontend ==
    /\ validateProductionEnvironment(envFile) = {}
    /\ site' = envFile.release
    /\ UNCHANGED <<envFile, finalized, update, server, edits>>

\* The backend is started again, or refuses and stays down.
StartBackend ==
    /\ server' = IF collectProductionEnvErrors(envFile) = {} THEN envFile ELSE Unbuilt
    /\ UNCHANGED <<envFile, finalized, update, site, edits>>

ReleaseNext ==
    Edit \/ Finalize \/ WriteUpdate \/ RenameUpdate \/ StopApplying \/ BuildFrontend \/ StartBackend

----------------------------------------------------------------------------
(* Safety. *)

\* A file the preflight accepts is one the frontend builds from, and one the
\* backend starts from as far as the preflight looks: it is not shown the
\* secrets, and passes an origin with a slash and a private service.
PreflightSuffices ==
    Faults(PreflightChecks(envFile)) = {} =>
        /\ validateProductionEnvironment(envFile) = {}
        /\ collectProductionEnvErrors(envFile) \subseteq
               {"secrets", "apiKey"}
               \cup (IF envFile.service = "private" THEN {"service"} ELSE {})
               \cup (IF envFile.origin = "slash" THEN {"origin"} ELSE {})

\* However the file is edited, and whichever manifest is applied to it, a
\* backend without a compliance service is one of the public testnet.
UnscreenedOnTestnet ==
    server # Unbuilt /\ server.service = "none" => server.release.chain = Testnet

\* A frontend that reaches its chain in plaintext was built for a manifest
\* whose ceremony acknowledged that, for the public testnet.
PlaintextOnTestnet ==
    site.publicRpc = "http" =>
        /\ site = finalized
        /\ finalized.network = "testnet" /\ finalized.chain = Testnet

\* Neither a build nor a start ever sees a file half applied.
ReleaseWhole ==
    /\ site \in {finalized, Template}
    /\ server # Unbuilt => server.release = finalized

ReleaseHolds == PreflightSuffices /\ UnscreenedOnTestnet /\ PlaintextOnTestnet /\ ReleaseWhole

=============================================================================
