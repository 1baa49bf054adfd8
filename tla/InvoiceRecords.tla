--------------------------- MODULE InvoiceRecords ---------------------------
(***************************************************************************)
(* One invoice and its financing (services/invoice.ts).  No contract backs *)
(* this service: the money moves at an external financing gateway, called  *)
(* between the read of the invoice and the transaction that records the    *)
(* gateway's receipt.  The gateway honours the Idempotency-Key header: a   *)
(* second call with a key it has seen is answered with the first answer.   *)
(* Transactions are serializable and lock the invoice.                     *)
(***************************************************************************)
EXTENDS Requests, Functions

CONSTANTS
    Keys,           \* idempotency keys of financing requests
    Face            \* the invoice's amount

ASSUME InvoiceAssumption == Face \in Nat \ {0} /\ IsFiniteSet(Keys)

VARIABLES
    invoice,        \* the row of Invoice
    financings,     \* per key, the row of InvoiceFinancingRequest
    gateway         \* external: what the gateway answered each key, and the payment

invoiceVars == <<invoice, financings, gateway>>

Answers == {"PENDING", "APPROVED", "FUNDED", "REJECTED"}
NoFinancing == [amount |-> 0, status |-> "NONE"]

InvoiceInit ==
    /\ invoice = [status |-> "NONE", financed |-> 0, settled |-> FALSE, dispute |-> FALSE]
    /\ financings = [k \in Keys |-> NoFinancing]
    /\ gateway = [answers |-> [k \in Keys |-> NoFinancing], paid |-> FALSE]

FinancingRows == [Keys -> [amount : 0..Face, status : {"NONE", "REPAID"} \cup Answers]]

InvoiceTypeOK ==
    /\ invoice \in [status : {"NONE", "SUBMITTED", "FINANCED", "SETTLED", "DISPUTED"},
                    financed : Nat, settled : BOOLEAN, dispute : BOOLEAN]
    /\ financings \in FinancingRows
    /\ gateway \in [answers : FinancingRows, paid : BOOLEAN]

----------------------------------------------------------------------------
(* The gateway's side. *)

DebtorPays ==
    /\ invoice.status # "NONE" /\ ~gateway.paid
    /\ gateway' = [gateway EXCEPT !.paid = TRUE]
    /\ UNCHANGED <<shared, invoice, financings>>

\* The first answer to a key, or a refusal the caller is told of by an error.
Answer(k, amount, answer) ==
    IF gateway.answers[k] # NoFinancing THEN answer = gateway.answers[k]
    ELSE answer \in [amount : {amount}, status : Answers]

----------------------------------------------------------------------------
(* Handlers. *)

\* A verified business issues the invoice; the audit entry is written by the
\* same transaction.
CreateInvoice(w) ==
    /\ req[w] = Idle /\ invoice.status = "NONE"
    /\ invoice' = [invoice EXCEPT !.status = "SUBMITTED"]
    /\ UNCHANGED <<shared, financings, gateway>>

Open == invoice.status \in {"SUBMITTED", "FINANCED"}

\* Mutant: the balance is checked before the gateway is called, and only there
OutstandingOnce(amount) == TRUE

\* What the transaction checks again of what was read before the gateway was
\* called: the balance.  The invoice's status is not checked again.
Outstanding(amount) == amount <= Face - invoice.financed

\* A key with a row is answered from the row.
RequestFinancing(w, k, amount) ==
    /\ req[w] = Idle /\ financings[k] = NoFinancing
    /\ Open /\ amount <= Face - invoice.financed
    /\ Goto(w, [at |-> "call gateway", key |-> k, amount |-> amount])
    /\ UNCHANGED <<mined, deep, trail, invoiceVars>>

\* The gateway acts, then its answer arrives: a worker that dies or times out
\* in between leaves a financing nothing records.
CallGateway(w) ==
    /\ At(w, "call gateway")
    /\ LET h == req[w] IN
       \E answer \in [amount : 1..Face, status : Answers] :
          /\ Answer(h.key, h.amount, answer)
          /\ gateway' = [gateway EXCEPT !.answers[h.key] = answer]
          /\ Goto(w, [at |-> "answered", key |-> h.key, amount |-> h.amount,
                      answer |-> answer])
    /\ UNCHANGED <<mined, deep, trail, invoice, financings>>

FinancingRefused(w) ==
    LET h == req[w] IN
    \/ h.answer.amount # h.amount
    \/ IF financings[h.key] # NoFinancing THEN TRUE ELSE ~Outstanding(h.amount)

StoreFinancing(w) ==
    /\ At(w, "answered") /\ ~FinancingRefused(w)
    /\ LET h == req[w]
           total == invoice.financed + h.amount IN
       /\ financings' = [financings EXCEPT ![h.key] = h.answer]
       /\ invoice' = IF h.answer.status # "FUNDED" THEN invoice
                     ELSE [invoice EXCEPT !.financed = total,
                                          !.status = IF total >= Face THEN "FINANCED"
                                                     ELSE "SUBMITTED"]
    /\ Done(w)
    /\ UNCHANGED <<mined, deep, trail, gateway>>

SettleInvoice(w) ==
    /\ req[w] = Idle /\ Open /\ gateway.paid
    /\ Goto(w, [at |-> "store settlement"])
    /\ UNCHANGED <<mined, deep, trail, invoiceVars>>

StoreSettlement(w) ==
    /\ At(w, "store settlement") /\ Open
    /\ invoice' = [invoice EXCEPT !.status = "SETTLED", !.settled = TRUE]
    /\ financings' = [k \in Keys |-> IF financings[k].status = "FUNDED"
                                     THEN [financings[k] EXCEPT !.status = "REPAID"]
                                     ELSE financings[k]]
    /\ Done(w)
    /\ UNCHANGED <<mined, deep, trail, gateway>>

\* Nothing in the service resolves a dispute.
RaiseDispute(w) ==
    /\ req[w] = Idle /\ invoice.status \notin {"NONE", "SETTLED"} /\ ~invoice.dispute
    /\ invoice' = [invoice EXCEPT !.status = "DISPUTED", !.dispute = TRUE]
    /\ UNCHANGED <<shared, financings, gateway>>

InvoiceNext ==
    \/ DebtorPays
    \/ \E w \in Workers :
          \/ CreateInvoice(w) \/ CallGateway(w) \/ StoreFinancing(w)
          \/ SettleInvoice(w) \/ StoreSettlement(w) \/ RaiseDispute(w)
          \/ \E k \in Keys, amount \in 1..Face : RequestFinancing(w, k, amount)
    \/ (\E w \in Workers : Fail(w)) /\ UNCHANGED invoiceVars

----------------------------------------------------------------------------
(* Properties. *)

advances == [k \in Keys |-> financings[k].amount]
FundedKeys == {k \in Keys : financings[k].status \in {"FUNDED", "REPAID"}}

\* However calls, retries of a key and settlements interleave: the invoice is
\* financed by exactly what its funded requests advanced, never beyond its
\* amount, and every request on record has the answer the gateway gave its key.
FinancingReconciles ==
    /\ invoice.financed = SumFunctionOnSet(advances, FundedKeys)
    /\ invoice.financed <= Face
    /\ \A k \in Keys : financings[k] # NoFinancing =>
          /\ financings[k].amount = gateway.answers[k].amount
          /\ financings[k].status \in {gateway.answers[k].status, "REPAID"}
          /\ k \in FundedKeys => gateway.answers[k].status = "FUNDED"

\* A settlement is the end of an invoice: its status and its financing stay.
\* Violated: a financing answered before the settlement is recorded after it.
SettledInvoiceStays == invoice.settled => invoice.status = "SETTLED"
=============================================================================
