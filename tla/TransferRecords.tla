-------------------------- MODULE TransferRecords --------------------------
(***************************************************************************)
(* The backend's rows of one cross-chain transfer (services/crosschain.ts),*)
(* kept from receipts of CrossChainRouter (services/crosschain-execution). *)
(* Only the initiation and the recovery are recorded: a row stays          *)
(* INITIATED while the router relays, completes or fails the transfer.     *)
(***************************************************************************)
EXTENDS Requests

CONSTANT Transfers      \* rows of CrossChainTransfer for this one transfer

VARIABLES
    deadlinePassed,     \* the router's deadline for relaying
    transfers

transferVars == <<deadlinePassed, transfers>>

NoTransfer == [status |-> "NONE", seen |-> "NONE"]
RouterStatuses == {"INITIATED", "RELAYED", "COMPLETED", "FAILED", "RECOVERED"}

TransferInit ==
    /\ deadlinePassed = FALSE
    /\ transfers = [r \in Transfers |-> NoTransfer]

TransferTypeOK ==
    /\ deadlinePassed \in BOOLEAN
    /\ transfers \in [Transfers -> [status : {"NONE", "INITIATED", "RECOVERED"},
                                    seen : RouterStatuses \cup {"NONE"}]]

----------------------------------------------------------------------------
(* The router. *)

RouterStatus == IF mined = <<>> THEN "NONE" ELSE mined[Len(mined)]

RouterMoves(from, to) == RouterStatus \in from /\ Mine(to) /\ UNCHANGED transferVars

Initiate == RouterMoves({"NONE"}, "INITIATED")
SubmitRelayProof == RouterMoves({"INITIATED"}, "RELAYED")
ConfirmTransfer == RouterMoves({"RELAYED"}, "COMPLETED")
MarkTransferFailed == RouterMoves({"INITIATED", "RELAYED"}, "FAILED")
RecoverOnChain ==
    RouterMoves(IF deadlinePassed THEN {"INITIATED", "FAILED"} ELSE {"FAILED"}, "RECOVERED")

PassDeadline ==
    /\ ~deadlinePassed /\ deadlinePassed' = TRUE
    /\ UNCHANGED <<shared, transfers>>

RouterStep ==
    \/ Initiate \/ SubmitRelayProof \/ ConfirmTransfer \/ MarkTransferFailed
    \/ RecoverOnChain \/ PassDeadline

----------------------------------------------------------------------------
(* Verification and handlers. *)

RouterReceipt(event) == \E i \in Canonical : mined[i] = event

\* The event names the sender, the destination and the recipient; the router
\* must know the transfer, in whatever state it is by now.
VerifyTransferInitiation == RouterReceipt("INITIATED")

\* Mutant: the router's word, without a confirmed receipt
RecoveredByStatus == RouterStatus = "RECOVERED"

VerifyTransferRecovery == RouterReceipt("RECOVERED") /\ RouterStatus = "RECOVERED"

InitiateTransfer(w) ==
    /\ req[w] = Idle /\ \A r \in Transfers : transfers[r].status = "NONE"
    /\ VerifyTransferInitiation
    /\ Goto(w, [at |-> "create transfer", seen |-> RouterStatus])
    /\ UNCHANGED <<mined, deep, trail, transferVars>>

InsertTransfer(w, r) ==
    /\ At(w, "create transfer") /\ transfers[r].status = "NONE"
    /\ transfers' = [transfers EXCEPT ![r] = [status |-> "INITIATED", seen |-> req[w].seen]]
    /\ Goto(w, [at |-> "audit", entry |-> [event |-> "transfer escrowed", row |-> r]])
    /\ UNCHANGED <<mined, deep, trail, deadlinePassed>>

RecoverTransfer(w, r) ==
    /\ req[w] = Idle /\ transfers[r].status = "INITIATED"
    /\ Goto(w, [at |-> "verify recovery", row |-> r])
    /\ UNCHANGED <<mined, deep, trail, transferVars>>

VerifyRecovery(w) ==
    /\ At(w, "verify recovery") /\ VerifyTransferRecovery
    /\ Goto(w, [req[w] EXCEPT !.at = "store recovery"])
    /\ UNCHANGED <<mined, deep, trail, transferVars>>

StoreRecovery(w) ==
    /\ At(w, "store recovery")
    /\ transfers' = [transfers EXCEPT ![req[w].row].status = "RECOVERED"]
    /\ Goto(w, [at |-> "audit", entry |-> [event |-> "transfer refunded", row |-> req[w].row]])
    /\ UNCHANGED <<mined, deep, trail, deadlinePassed>>

TransferNext ==
    \/ RouterStep
    \/ \E w \in Workers :
          \/ InitiateTransfer(w) \/ VerifyRecovery(w) \/ StoreRecovery(w)
          \/ \E r \in Transfers : InsertTransfer(w, r) \/ RecoverTransfer(w, r)
    \/ (RequestStep \/ ChainStep) /\ UNCHANGED transferVars

TransferSpec ==
    RequestsInit /\ TransferInit /\ [][TransferNext]_<<shared, transferVars>>

----------------------------------------------------------------------------
(* Properties. *)

\* A transfer the record shows refunded was never delivered: no completion is
\* on the chain, confirmed or not, and none can come.
RefundedNotDelivered ==
    \A r \in Transfers : transfers[r].status = "RECOVERED" =>
        RouterReceipt("RECOVERED") /\ \A i \in Receipts : mined[i] # "COMPLETED"

\* The events of the router a row claims happened.
TransferClaims(row) == IF row.status = "NONE" THEN {} ELSE {"INITIATED", row.status}
=============================================================================
