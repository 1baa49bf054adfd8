----------------------------- MODULE MCRecords -----------------------------
(* The backend's services, one at a time over the same requests and chain: *)
(* a scenario is the service that serves.                                  *)
EXTENDS TreasuryRecords, StreamRecords, HedgeRecords, TransferRecords, PoolRecords,
        AppealRecords, InvoiceRecords, BusinessMirror, BrowserPages, PaymentClaims, TLC

CONSTANT Scenarios, MaxTrail
VARIABLE scenario

services == <<treasuryVars, streamVars, hedges, transferVars, poolRows, appealVars, invoiceVars, mirrorVars, pageVars, payments>>
allVars == <<scenario, shared, services>>

MCInit ==
    /\ scenario \in Scenarios
    /\ RequestsInit
    /\ TreasuryInit /\ StreamInit /\ HedgeInit /\ TransferInit /\ PoolInit /\ AppealInit
    /\ InvoiceInit
    /\ MirrorInit
    /\ PageInit /\ (scenario = "pages" \/ flow = "payment")
    /\ ClaimsInit
    /\ scenario = "treasury" \/ policy = 1

MCNext ==
    /\ \/ scenario = "treasury" /\ TreasuryNext
       \/ scenario = "streams" /\ StreamNext
       \/ scenario = "hedges" /\ HedgeNext
       \/ scenario = "transfers" /\ TransferNext
       \/ scenario = "pool" /\ PoolNext
       \/ scenario = "appeals" /\ AppealNext
       \/ scenario = "invoices" /\ InvoiceNext
       \/ scenario = "registry" /\ MirrorNext
       \/ scenario = "pages" /\ PageNext /\ UNCHANGED shared
       \/ scenario = "payments" /\ ClaimsNext
    /\ scenario # "treasury" => UNCHANGED treasuryVars
    /\ scenario # "streams" => UNCHANGED streamVars
    /\ scenario # "hedges" => UNCHANGED hedges
    /\ scenario # "transfers" => UNCHANGED transferVars
    /\ scenario # "pool" => UNCHANGED poolRows
    /\ scenario # "appeals" => UNCHANGED appealVars
    /\ scenario # "invoices" => UNCHANGED invoiceVars
    /\ scenario # "registry" => UNCHANGED mirrorVars
    /\ scenario # "pages" => UNCHANGED pageVars
    /\ scenario # "payments" => UNCHANGED payments

MCSpec == MCInit /\ [][MCNext /\ UNCHANGED scenario]_allVars

----------------------------------------------------------------------------
(* The services as one book of receipts.                                   *)

Confirmed(scen) ==
    CASE scen = "streams" -> UNION {mined[i].events : i \in Canonical}
      [] scen \in {"hedges", "appeals"} -> {mined[i].event : i \in Canonical}
      [] OTHER -> {mined[i] : i \in Canonical}

HedgeClaims(row) == IF row.status = "NONE" THEN {}
                    ELSE {"OPENED"} \cup IF row.status = "OPEN" THEN {} ELSE {row.onChainStatus}
StreamClaims(row) == IF row.status = "NONE" THEN {}
                     ELSE {"CREATED"} \cup IF row.status = "ACTIVE" THEN {} ELSE {row.status}
AppealClaims(row) == IF row.status = "NONE" THEN {}
                     ELSE {"filed"} \cup (IF row.reviewed THEN {"review"} ELSE {})
                                   \cup (IF row.resolved THEN {"resolved"} ELSE {})
PoolClaims(row) == IF row = NoPosition THEN {} ELSE {row.settlement}
TreasuryClaims(row) == IF row.executionTx = NoTx THEN {} ELSE {row.executionTx}

\* A row is named with its table; the registry's is the business.
AllRows == {"streams"} \X Streams \cup {"hedges"} \X Hedges \cup {"transfers"} \X Transfers
           \cup {"appeals"} \X Appeals \cup {"pool"} \X PoolRows
           \cup {"treasury"} \X Proposals \cup {"registry"} \X {"business"}

Claims(r) ==
    CASE r[1] = "streams" -> StreamClaims(streams[r[2]])
      [] r[1] = "hedges" -> HedgeClaims(hedges[r[2]])
      [] r[1] = "transfers" -> TransferClaims(transfers[r[2]])
      [] r[1] = "appeals" -> AppealClaims(appeals[r[2]])
      [] r[1] = "pool" -> PoolClaims(poolRows[r[2]])
      [] r[1] = "treasury" -> TreasuryClaims(proposals[r[2]])
      [] r[1] = "registry" -> {mined[i] : i \in Range(history)}

Book == INSTANCE ReceiptBook WITH
            Rows <- AllRows,
            confirmed <- Confirmed(scenario),
            book <- [r \in AllRows |-> Claims(r)]

\* Every service implements the book: its rows claim nothing that a receipt
\* with enough confirmations does not prove, whatever interleaves; and a hedge
\* keeps the close it was given (services/fx.ts).
BookKept == Book!Spec /\ HedgeKeepsItsClose

----------------------------------------------------------------------------
TypesOK ==
    /\ RequestsTypeOK /\ TreasuryTypeOK /\ StreamTypeOK
    /\ HedgeTypeOK /\ TransferTypeOK /\ PoolTypeOK /\ AppealTypeOK /\ InvoiceTypeOK
    /\ MirrorTypeOK
    /\ PageTypeOK
    /\ ClaimsTypeOK

----------------------------------------------------------------------------
(* What the records promise together. *)

\* A row that says something happened is right, however requests race, die and
\* are repeated and whatever the chain drops: executions have their mandate,
\* streams never overstate what is due, a refunded transfer was not delivered,
\* an appeal's outcome and a payment's end are those of the contract, and the
\* financing of an invoice adds up (services/treasury.ts, streaming.ts,
\* crosschain.ts, ai-compliance.ts, payment-reconciliation.ts, invoice.ts).
RecordsProved ==
    /\ ExecutionsMandated
    /\ NeverOverstated
    /\ RefundedNotDelivered
    /\ OutcomesProved
    /\ PaymentsProved
    /\ FinancingReconciles


Small == scenario # "payments" => Cardinality(trail) <= IF scenario = "treasury" THEN MaxTrail ELSE 0

\* The elements of several sets of two, all swapped at once.
Together(G) == [x \in UNION G |-> LET S == CHOOSE T \in G : x \in T
                                  IN CHOOSE y \in S : y # x]
RecordsSymmetry ==
    {Together(G) : G \in {{Workers, Items}, {Signers, Positions, Keys, Details}, {OnChainIds, Challenges, Wallets}}}
=============================================================================
