----------------------------- MODULE Ceremony -----------------------------
(***************************************************************************)
(* The two-phase governance ceremony (scripts/deploy-devnet-core.mjs):     *)
(* bootstrap deploys, configures and grants the final roles, the governance*)
(* account accepts the gate, and finalize renounces what the deployer      *)
(* holds and publishes the manifest.  A run may stop anywhere, also while  *)
(* it waits for a receipt (its transaction may still be mined), and is run *)
(* again from the checkpoint file.  The last block may be replaced; what   *)
(* it held is mined again, since the deployer's transactions have nonces   *)
(* and are mined in the order they were sent.                              *)
(* DEFAULT_ADMIN_ROLE and ADMIN_ROLE of a contract go together here as     *)
(* "default", its operational role is "operator".                          *)
(***************************************************************************)
EXTENDS Naturals, Sequences, FiniteSets, SequencesExt

CONSTANTS
    Order,      \* CORE_CONTRACT_KEYS
    MaxStops,   \* bound: runs that stop
    MaxForks    \* bound: blocks replaced

Kinds == {Order[k] : k \in DOMAIN Order}

ASSUME CeremonyAssumption ==
    /\ Order \in Seq(STRING) /\ "gate" \in Kinds
    /\ \A i, j \in DOMAIN Order : Order[i] = Order[j] => i = j
    /\ MaxStops \in Nat /\ MaxForks \in Nat

VARIABLES
    devnet,     \* the chain: per block the contracts after it, its transaction
    forks,      \* how many blocks were replaced
    pool,       \* the deployer's transactions not mined, by nonce
    checkpoint, \* the checkpoint file: per contract its deployment, or none
    run,        \* the script that runs: its phase and where it is
    stops,      \* how many runs stopped
    manifest    \* the release block of the finalized manifest, or none

ceremonyVars == <<devnet, forks, pool, checkpoint, run, stops, manifest>>

CoreRoles == {"default", "operator"}
Final == [default |-> "governance", operator |-> "operator"]
NoTx == [do |-> "none"]
NotDeployed == [address |-> 0, number |-> 0, fork |-> 0]
NoRun == [phase |-> "none", at |-> "idle", task |-> 0, nonce |-> 0, block |-> NotDeployed]

Genesis == [contracts |-> <<>>, fork |-> 0, tx |-> NoTx, nonce |-> 0, ok |-> TRUE]

CeremonyInit ==
    /\ devnet = <<Genesis>> /\ forks = 0 /\ pool = <<>>
    /\ checkpoint = [k \in Kinds |-> NotDeployed]
    /\ run = NoRun /\ stops = 0
    /\ manifest = NotDeployed

Records == [address : Nat, number : Nat, fork : Nat]

CeremonyTypeOK ==
    /\ Len(devnet) >= 1 /\ forks \in 0..MaxForks /\ stops \in 0..MaxStops
    /\ checkpoint \in [Kinds -> Records] /\ manifest \in Records
    /\ run.phase \in {"none", "bootstrap", "finalize"}
    /\ run.at \in {"idle", "task", "receipt", "record", "verify", "publish"}

----------------------------------------------------------------------------
(* The chain. *)

Latest == devnet[Len(devnet)].contracts
MinedAt(n) == [address |-> 0, number |-> n, fork |-> devnet[n].fork]
StillMined(r) == r.number \in DOMAIN devnet /\ devnet[r.number].fork = r.fork

\* The constructors give the deployer every role and the gate.
Deployed(kind) ==
    [kind |-> kind, configured |-> FALSE,
     holders |-> [r \in CoreRoles |-> IF kind = "gate" THEN {} ELSE {"deployer"}],
     owner |-> IF kind = "gate" THEN "deployer" ELSE "none", pending |-> "none"]

\* What a contract requires of a transaction of the deployer.
Accepts(contracts, tx) ==
    tx.do # "deploy" =>
       /\ tx.to \in DOMAIN contracts
       /\ LET c == contracts[tx.to] IN
          CASE tx.do = "configure" ->
                  IF c.kind = "gate" THEN c.owner = "deployer"
                  ELSE "deployer" \in c.holders["default"] /\ ~c.configured
            [] tx.do = "grant" -> "deployer" \in c.holders["default"]
            [] tx.do = "transfer" -> c.owner = "deployer"
            [] tx.do = "renounce" -> TRUE

Apply(contracts, tx) ==
    CASE tx.do = "deploy" -> Append(contracts, Deployed(tx.kind))
      [] tx.do = "configure" -> [contracts EXCEPT ![tx.to].configured = TRUE]
      [] tx.do = "grant" ->
            [contracts EXCEPT ![tx.to].holders[tx.role] = @ \cup {Final[tx.role]}]
      [] tx.do = "transfer" -> [contracts EXCEPT ![tx.to].pending = "governance"]
      [] tx.do = "renounce" -> [contracts EXCEPT ![tx.to].holders[tx.role] = @ \ {"deployer"}]

Nonce == 1 + Len(pool) + Cardinality({n \in DOMAIN devnet : devnet[n].nonce # 0})

Extend(contracts, tx, nonce, ok) ==
    devnet' = Append(devnet, [contracts |-> contracts, fork |-> forks, tx |-> tx,
                              nonce |-> nonce, ok |-> ok])

Mined ==
    /\ pool # <<>>
    /\ LET tx == Head(pool)
           ok == Accepts(Latest, tx)
       IN Extend(IF ok THEN Apply(Latest, tx) ELSE Latest, tx, Nonce - Len(pool), ok)
    /\ pool' = Tail(pool)
    /\ UNCHANGED <<forks, checkpoint, run, stops, manifest>>

Replaced ==
    /\ forks < MaxForks /\ Len(devnet) > 1 /\ forks' = forks + 1
    /\ devnet' = SubSeq(devnet, 1, Len(devnet) - 1)
    /\ pool' = LET last == devnet[Len(devnet)] IN
               IF last.nonce = 0 THEN pool ELSE <<last.tx>> \o pool
    /\ UNCHANGED <<checkpoint, run, stops, manifest>>

\* The governance account accepts the gate (submit-governance-acceptance.mjs),
\* and may itself take from the deployer what it was granted.
Governance(a, contract) ==
    /\ Latest[a] # contract
    /\ Extend([Latest EXCEPT ![a] = contract], NoTx, 0, TRUE)
    /\ UNCHANGED <<forks, pool, checkpoint, run, stops, manifest>>

AcceptOwnership(a) ==
    /\ Latest[a].pending = "governance"
    /\ Governance(a, [Latest[a] EXCEPT !.owner = "governance", !.pending = "none"])

RevokeDeployer(a, role) ==
    /\ "governance" \in Latest[a].holders["default"]
    /\ Governance(a, [Latest[a] EXCEPT !.holders[role] = @ \ {"deployer"}])

----------------------------------------------------------------------------
(* What a phase does, task by task. *)

Owned == RemoveAt(Order, CHOOSE k \in DOMAIN Order : Order[k] = "gate")
Each(kinds, do, role) ==
    [k \in DOMAIN kinds |-> [do |-> do, kind |-> kinds[k], role |-> role]]

Tasks(phase) ==
    IF phase = "bootstrap"
    THEN Each(Order, "deploy", "none") \o Each(Order, "configure", "none")
            \o Each(Owned, "grant", "default") \o Each(Owned, "grant", "operator")
            \o Each(<<"gate">>, "transfer", "none")
    ELSE Each(Owned, "renounce", "operator") \o Each(Owned, "renounce", "default")

Task == Tasks(run.phase)[run.task]
Contract(kind) == Latest[checkpoint[kind].address]
InChain(kind) == checkpoint[kind].address \in DOMAIN Latest

\* What the deployer need not do, or did in an earlier run.
Met ==
    CASE Task.do = "deploy" -> checkpoint[Task.kind] # NotDeployed
      [] Task.do = "configure" -> Contract(Task.kind).configured
      [] Task.do = "grant" -> Final[Task.role] \in Contract(Task.kind).holders[Task.role]
      [] Task.do = "transfer" ->
            <<Contract("gate").owner, Contract("gate").pending>> \in
                {<<"deployer", "governance">>, <<"governance", "none">>}
      [] Task.do = "renounce" -> "deployer" \notin Contract(Task.kind).holders[Task.role]

----------------------------------------------------------------------------
(* What is verified. *)

RecordTrue(kind) ==
    LET r == checkpoint[kind] IN
    r # NotDeployed =>
        /\ StillMined(r) /\ devnet[r.number].tx = [do |-> "deploy", kind |-> kind]
        /\ Len(devnet[r.number].contracts) = r.address

FinalRoles(contracts) ==
    \A k \in Kinds \ {"gate"}, r \in CoreRoles :
        Final[r] \in contracts[checkpoint[k].address].holders[r]

OnlyFinalRoles(contracts, alsoDeployer) ==
    \A k \in Kinds \ {"gate"}, r \in CoreRoles :
        contracts[checkpoint[k].address].holders[r] \subseteq
            {Final[r]} \cup (IF alsoDeployer THEN {"deployer"} ELSE {})

ConfiguredAndAccepted(contracts) ==
    /\ \A k \in Kinds : contracts[checkpoint[k].address].configured
    /\ LET gate == contracts[checkpoint["gate"].address] IN
       gate.owner = "governance" /\ gate.pending = "none"

\* verifyDeploymentState, before the renunciations (pending) and after.
StateVerified(contracts, pending) ==
    /\ \A k \in Kinds : checkpoint[k].address \in DOMAIN contracts
    /\ FinalRoles(contracts) /\ OnlyFinalRoles(contracts, pending)
    /\ ConfiguredAndAccepted(contracts)

\* Mutant: the renunciations begin whatever the contracts say
HandoverUnverified == TRUE

HandoverVerified == StateVerified(Latest, TRUE)

----------------------------------------------------------------------------
(* A run. *)

StartBootstrap ==
    /\ run = NoRun /\ \A k \in Kinds : RecordTrue(k)
    /\ run' = [NoRun EXCEPT !.phase = "bootstrap", !.at = "task", !.task = 1]
    /\ UNCHANGED <<devnet, forks, pool, checkpoint, stops, manifest>>

StartFinalize ==
    /\ run = NoRun /\ manifest = NotDeployed
    /\ \A k \in Kinds : checkpoint[k] # NotDeployed /\ RecordTrue(k)
    /\ HandoverVerified
    /\ run' = [NoRun EXCEPT !.phase = "finalize", !.at = "task", !.task = 1]
    /\ UNCHANGED <<devnet, forks, pool, checkpoint, stops, manifest>>

AtTask == run.at = "task" /\ run.task <= Len(Tasks(run.phase))
Ready == Task.do # "deploy" => InChain(Task.kind)

Skip ==
    /\ AtTask /\ Ready /\ Met
    /\ run' = [run EXCEPT !.task = @ + 1]
    /\ UNCHANGED <<devnet, forks, pool, checkpoint, stops, manifest>>

\* Simulated at the head, then sent.
SendTask ==
    /\ AtTask /\ Ready /\ ~Met
    /\ LET tx == IF Task.do = "deploy" THEN [do |-> "deploy", kind |-> Task.kind]
                 ELSE [do |-> Task.do, to |-> checkpoint[Task.kind].address,
                       role |-> Task.role]
       IN Accepts(Latest, tx) /\ pool' = Append(pool, tx)
    /\ run' = [run EXCEPT !.at = "receipt", !.nonce = Nonce]
    /\ UNCHANGED <<devnet, forks, checkpoint, stops, manifest>>

\* One confirmation is waited for, and a role is read back.
Receipt ==
    /\ run.at = "receipt"
    /\ \E n \in DOMAIN devnet :
          /\ devnet[n].nonce = run.nonce /\ devnet[n].ok
          /\ IF Task.do = "deploy"
             THEN run' = [run EXCEPT !.at = "record",
                             !.block = [MinedAt(n) EXCEPT !.address = Len(devnet[n].contracts)]]
             ELSE /\ Task.do \in {"grant", "renounce"} => Met
                  /\ run' = [run EXCEPT !.at = "task", !.task = @ + 1]
    /\ UNCHANGED <<devnet, forks, pool, checkpoint, stops, manifest>>

\* The file is replaced by a rename: a run that stops leaves the old or the new.
Persist ==
    /\ run.at = "record"
    /\ checkpoint' = [checkpoint EXCEPT ![Task.kind] = run.block]
    /\ run' = [run EXCEPT !.at = "task", !.task = @ + 1, !.block = NotDeployed]
    /\ UNCHANGED <<devnet, forks, pool, stops, manifest>>

AllDone == run.at = "task" /\ run.task > Len(Tasks(run.phase))

\* HANDOFF_PENDING_JSON changes nothing.
HandOff ==
    /\ AllDone /\ run.phase = "bootstrap"
    /\ run' = NoRun
    /\ UNCHANGED <<devnet, forks, pool, checkpoint, stops, manifest>>

CaptureRelease ==
    /\ AllDone /\ run.phase = "finalize"
    /\ run' = [run EXCEPT !.at = "verify", !.block = MinedAt(Len(devnet))]
    /\ UNCHANGED <<devnet, forks, pool, checkpoint, stops, manifest>>

VerifyRelease ==
    /\ run.at = "verify" /\ StillMined(run.block)
    /\ \A k \in Kinds : RecordTrue(k)
    /\ StateVerified(devnet[run.block.number].contracts, FALSE)
    /\ run' = [run EXCEPT !.at = "publish"]
    /\ UNCHANGED <<devnet, forks, pool, checkpoint, stops, manifest>>

\* Mutant: the release block is not looked at again
BoundaryUnchecked(r) == TRUE

PublicationBoundary(r) == StillMined(r)

Publish ==
    /\ run.at = "publish" /\ PublicationBoundary(run.block)
    /\ manifest' = run.block
    /\ run' = NoRun
    /\ UNCHANGED <<devnet, forks, pool, checkpoint, stops>>

\* An error, a timeout, a crash.
Stop ==
    /\ run # NoRun /\ stops < MaxStops
    /\ stops' = stops + 1 /\ run' = NoRun
    /\ UNCHANGED <<devnet, forks, pool, checkpoint, manifest>>

CeremonyNext ==
    \/ Mined \/ Replaced
    \/ \E a \in DOMAIN Latest :
          AcceptOwnership(a) \/ \E r \in CoreRoles : RevokeDeployer(a, r)
    \/ StartBootstrap \/ StartFinalize \/ Skip \/ SendTask \/ Receipt \/ Persist
    \/ HandOff \/ CaptureRelease \/ VerifyRelease \/ Publish \/ Stop

----------------------------------------------------------------------------
(* Properties. *)

\* No contract is ever without an account that can grant its roles, wherever
\* a run stopped, whatever was mined late or twice, replaced or revoked.
NeverUngoverned ==
    \A a \in DOMAIN Latest :
        Latest[a].kind # "gate" =>
            Latest[a].holders["default"] \cap {"deployer", "governance"} # {}

\* What is published names a block of the chain at which the deployer's roles are
\* gone from each of the contracts it names, as they are in every block after it.
PublishedTrue ==
    manifest' # manifest =>
        /\ StillMined(manifest') /\ \A k \in Kinds : RecordTrue(k)
        /\ \A n \in manifest'.number..Len(devnet) : \A k \in Kinds :
              LET c == devnet[n].contracts[checkpoint[k].address] IN
              /\ c.kind = k /\ c.configured
              /\ \A r \in CoreRoles : "deployer" \notin c.holders[r]
              /\ k = "gate" => c.owner = "governance"

\* A manifest that says the deployer's roles are removed names a block of the
\* chain at which they are, in each of the four contracts it names, and what
\* is mined of the deployer's later cannot bring one back.
ManifestTrue == [][PublishedTrue]_ceremonyVars
=============================================================================
