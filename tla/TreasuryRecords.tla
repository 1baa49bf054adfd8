-------------------------- MODULE TreasuryRecords --------------------------
(***************************************************************************)
(* The backend's treasury proposals (services/treasury.ts): rows of the    *)
(* database that collect their own approvals, and are marked EXECUTED from *)
(* an execution of MultiSigTreasury that the caller names                  *)
(* (services/treasury-execution.ts).  The contract has its own approvals   *)
(* and its own proposal ids; nothing ties a row to an id before the        *)
(* execution is recorded.                                                  *)
(***************************************************************************)
EXTENDS Requests

CONSTANTS
    Proposals,      \* rows of TreasuryProposal
    Signers,        \* wallets with a session that may approve
    OnChainIds,     \* proposals of the contract
    Thresholds      \* SpendingPolicy.approvalThreshold

VARIABLES
    policy,         \* the threshold of the active policy, 0 when none is active
    proposals       \* the rows

treasuryVars == <<policy, proposals>>

NoTx == "none"
ASSUME TreasuryAssumption == Thresholds \subseteq Nat \ {0} /\ NoTx \notin OnChainIds

NoProposal == [status |-> "NONE", required |-> 0, approvedBy |-> {},
               lapsed |-> FALSE, executionTx |-> NoTx]

Draft(required) == [NoProposal EXCEPT !.status = "PENDING", !.required = required]

TreasuryInit ==
    /\ policy \in Thresholds
    /\ proposals = [p \in Proposals |-> NoProposal]

TreasuryTypeOK ==
    /\ policy \in Thresholds \cup {0}
    /\ proposals \in
         [Proposals -> [status : {"NONE", "PENDING", "APPROVED", "EXECUTED", "EXPIRED"},
                        required : Thresholds \cup {0, 1}, approvedBy : SUBSET Signers,
                        lapsed : BOOLEAN, executionTx : OnChainIds \cup {NoTx}]]

----------------------------------------------------------------------------
(* The contract executes an approved proposal once. *)

TreasuryExecutes(id) ==
    /\ \A i \in Receipts : mined[i] # id
    /\ Mine(id)
    /\ UNCHANGED treasuryVars

\* verifyTreasuryExecution: a confirmed executeProposal of this id, and the
\* contract, read at its head, says executed.
VerifyTreasuryExecution(id) == \E i \in Canonical : mined[i] = id

----------------------------------------------------------------------------
(* Handlers. *)

UpdateSpendingPolicy ==
    /\ policy' \in (Thresholds \cup {0}) \ {policy}
    /\ UNCHANGED <<shared, proposals>>

\* A proposal without an amount needs no policy, and one approval.
CreateProposal(w, p) ==
    /\ req[w] = Idle /\ proposals[p].status = "NONE"
    /\ \E required \in {1} \cup ({policy} \ {0}) :
          Goto(w, [at |-> "propose", row |-> p, required |-> required])
    /\ UNCHANGED <<mined, deep, trail, treasuryVars>>

Propose(w) ==
    /\ At(w, "propose")
    /\ LET p == req[w].row IN
       /\ proposals[p].status = "NONE"      \* a row of its own, with a new id
       /\ proposals' = [proposals EXCEPT ![p] = Draft(req[w].required)]
       /\ Goto(w, [at |-> "audit", entry |-> [event |-> "created", row |-> p]])
    /\ UNCHANGED <<mined, deep, trail, policy>>

\* Seven days pass.
Lapse(p) ==
    /\ proposals[p].status # "NONE" /\ ~proposals[p].lapsed
    /\ proposals' = [proposals EXCEPT ![p].lapsed = TRUE]
    /\ UNCHANGED <<shared, policy>>

Quorum(p, approvers) == Cardinality(approvers) >= proposals[p].required
\* Mutant: the approval that reaches the threshold is counted once too early
QuorumEarly(p, approvers) == Cardinality(approvers) + 1 >= proposals[p].required

Approved(p, approvers) == Quorum(p, approvers)

\* One Serializable transaction.  A lapsed proposal is marked EXPIRED whatever
\* its status is, before the status is looked at.
ApproveProposal(w, p, signer) ==
    /\ req[w] = Idle /\ proposals[p].status # "NONE"
    /\ LET row == proposals[p]
           approvers == row.approvedBy \cup {signer}
       IN
       \/ /\ row.lapsed
          /\ proposals' = [proposals EXCEPT ![p].status = "EXPIRED"]
          /\ UNCHANGED req
       \/ /\ ~row.lapsed /\ row.status = "PENDING" /\ signer \notin row.approvedBy
          /\ proposals' = [proposals EXCEPT
                 ![p].approvedBy = approvers,
                 ![p].status = IF Approved(p, approvers) THEN "APPROVED" ELSE "PENDING"]
          /\ Goto(w, [at |-> "audit",
                      entry |-> [event |-> "approved", row |-> p, by |-> signer]])
    /\ UNCHANGED <<mined, deep, trail, policy>>

\* executeProposal reads the row, verifies the execution, then updates the row
\* by its id alone: what was read is not looked at again.
ExecuteProposal(w, p, id) ==
    /\ req[w] = Idle /\ proposals[p].status = "APPROVED"
    /\ Goto(w, [at |-> "verify execution", row |-> p, id |-> id])
    /\ UNCHANGED <<mined, deep, trail, treasuryVars>>

VerifyExecution(w) ==
    /\ At(w, "verify execution") /\ VerifyTreasuryExecution(req[w].id)
    /\ Goto(w, [req[w] EXCEPT !.at = "record execution"])
    /\ UNCHANGED <<mined, deep, trail, treasuryVars>>

RecordExecution(w) ==
    /\ At(w, "record execution")
    /\ LET p == req[w].row IN
       /\ proposals' = [proposals EXCEPT ![p].status = "EXECUTED",
                                         ![p].executionTx = req[w].id]
       /\ Goto(w, [at |-> "audit",
                   entry |-> [event |-> "executed", row |-> p, id |-> req[w].id]])
    /\ UNCHANGED <<mined, deep, trail, policy>>

TreasuryNext ==
    \/ UpdateSpendingPolicy
    \/ \E id \in OnChainIds : TreasuryExecutes(id)
    \/ \E p \in Proposals : Lapse(p)
    \/ \E w \in Workers :
          \/ \E p \in Proposals :
                \/ CreateProposal(w, p)
                \/ \E s \in Signers : ApproveProposal(w, p, s)
                \/ \E id \in OnChainIds : ExecuteProposal(w, p, id)
          \/ Propose(w) \/ VerifyExecution(w) \/ RecordExecution(w)
    \/ (RequestStep \/ ChainStep) /\ UNCHANGED treasuryVars

----------------------------------------------------------------------------
(* Properties. *)

\* A row that carries an execution was approved by as many distinct signers as
\* the policy asked for when it was proposed, and the execution is confirmed on
\* the chain: neither a later policy, nor an expiry, nor a request that read the
\* row earlier leaves an execution without both.
ExecutionsMandated ==
    \A p \in Proposals : LET row == proposals[p] IN
        row.executionTx # NoTx =>
            /\ Quorum(p, row.approvedBy)
            /\ \E i \in Canonical : mined[i] = row.executionTx
=============================================================================
