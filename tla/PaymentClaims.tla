---------------------------- MODULE PaymentClaims ----------------------------
(***************************************************************************)
(* What a caller claims of a payment transaction, and what the backend     *)
(* takes over of it (services/payment-reconciliation.ts): a transaction    *)
(* may create several payments alike, be sent by anyone, through a Safe or *)
(* through any contract, and the ways out of a payment differ in their     *)
(* method more than in their events.  PaymentMirror follows one payment    *)
(* through its whole life; here are several payments and businesses, a     *)
(* transaction to a block.                                                 *)
(***************************************************************************)
EXTENDS Requests, Functions

CONSTANTS
    Businesses,     \* registered and VERIFIED, named as their wallets
    Details,        \* recipient, amount, token, currency and purpose
    MaxPayments     \* bound: payments on the chain, and transactions but one

ASSUME ClaimsAssumption == MaxPayments \in Nat

VARIABLE payments   \* the Payment rows, per on-chain payment

Router == "router"  \* a contract, not a Safe, that calls NoblePay
Officer == "officer"
Initiations == {"initiatePayment", "initiatePaymentBatch"}
Methods == {"settlePayment", "cancelPayment", "refundPayment", "executeSettlementRecovery"}
Actions == {"settle", "cancel", "refund"}

\* Payments are numbered in the order of the chain, at most two per transaction.
PaymentIds == 1..MaxPayments
NoPayment == [status |-> "NONE"]
FinalStatus(action) == CASE action = "settle" -> "SETTLED"
                         [] action = "cancel" -> "CANCELLED"
                         [] action = "refund" -> "REFUNDED"

ClaimsInit == payments = [id \in PaymentIds |-> NoPayment]

ClaimsTypeOK ==
    \A id \in PaymentIds :
        payments[id].status \in {"NONE", "PENDING", "SETTLED", "CANCELLED", "REFUNDED"}

----------------------------------------------------------------------------
(* The contract. *)

Created(i) == {e[1] : e \in Range(mined[i].events)}
Payments == UNION {Created(i) : i \in Receipts}
Creation(id) == CHOOSE i \in Receipts : id \in Created(i)
Event(id) == CHOOSE e \in Range(mined[Creation(id)].events) : e[1] = id
Ended(id) == \E i \in Receipts : mined[i].target = id

Transaction(call, by, target, events) ==
    /\ Cardinality(Payments) + Len(events) <= MaxPayments /\ Len(mined) <= MaxPayments
    /\ Mine([call |-> call, by |-> by, target |-> target, events |-> events])
    /\ UNCHANGED payments

initiatePayment(by, d) ==
    Transaction("initiatePayment", by, 0, <<<<Cardinality(Payments) + 1, d>>>>)

initiatePaymentBatch(by, ds) ==
    Transaction("initiatePaymentBatch", by, 0,
                [k \in DOMAIN ds |-> <<Cardinality(Payments) + k, ds[k]>>])

\* Only the sender cancels; the other ends are sent by somebody else, or by
\* the router for them.
endPayment(call, id) ==
    /\ id \in Payments /\ ~Ended(id)
    /\ \E by \in IF call = "cancelPayment" THEN {mined[Creation(id)].by} ELSE {Officer, Router} :
          Transaction(call, by, id, <<>>)

StatusOf(id) == LET i == CHOOSE i \in Receipts : mined[i].target = id IN
    IF ~Ended(id) THEN "PENDING" ELSE IF mined[i].call = "settlePayment" THEN "SETTLED" ELSE "REFUNDED"

----------------------------------------------------------------------------
(* Reconciliation of a creation. *)

\* resolveCanonicalContractExecution: the caller's own call, or a Safe's.
Executes(i, actor) == mined[i].by = actor /\ actor # Router

\* A batch must name one of the payments it created, a single payment may.
Selected(i, claimed) ==
    IF mined[i].call = "initiatePaymentBatch" THEN {e \in Range(mined[i].events) : e[1] = claimed}
    ELSE {e \in Range(mined[i].events) : claimed \in {0, e[1]}}

reconcilePayment(w, business, i, claimed, details) ==
    /\ req[w] = Idle /\ i \in Canonical
    /\ Executes(i, business) /\ mined[i].call \in Initiations
    /\ \E e \in Selected(i, claimed) :
          /\ e[2] = details
          /\ Goto(w, [at |-> "create payment", id |-> e[1],
                      payment |-> [status |-> "PENDING", business |-> business,
                                   tx |-> mined[i], details |-> details]])
    /\ UNCHANGED <<mined, deep, trail, payments>>

\* A row that is there already is a replay, or a conflict; it stays.
createPayment(w) ==
    /\ At(w, "create payment")
    /\ payments' = IF payments[req[w].id] = NoPayment
                   THEN [payments EXCEPT ![req[w].id] = req[w].payment] ELSE payments
    /\ Done(w)
    /\ UNCHANGED <<mined, deep, trail>>

----------------------------------------------------------------------------
(* Reconciliation of an end. *)

\* Mutant: whatever returns the money is the end the caller names
AnyRefund(action) ==
    IF action = "settle" THEN {"settlePayment"} ELSE Methods \ {"settlePayment"}

ExpectedMethods(action) ==
    CASE action = "settle" -> {"settlePayment"}
      [] action = "cancel" -> {"cancelPayment"}
      [] action = "refund" -> {"refundPayment", "executeSettlementRecovery"}

\* Cancelled and refunded payments have one event and one state on the chain.
LifecycleProved(i, id, action) ==
    /\ mined[i].call \in ExpectedMethods(action)
    /\ mined[i].target = id
    /\ StatusOf(id) = IF action = "settle" THEN "SETTLED" ELSE "REFUNDED"

reconcileEnd(w, business, i, id, action) ==
    /\ req[w] = Idle
    /\ payments[id] # NoPayment /\ payments[id].business = business
    /\ i \in Canonical
    /\ Executes(i, IF action = "cancel" THEN business ELSE mined[i].by)
    /\ LifecycleProved(i, id, action)
    /\ Goto(w, [at |-> "end payment", id |-> id, tx |-> mined[i], action |-> action])
    /\ UNCHANGED <<mined, deep, trail, payments>>

\* The entry of an action on a transaction marks it as applied.
storeEnd(w) ==
    LET entry == [event |-> req[w].action, row |-> req[w].id, tx |-> req[w].tx] IN
    /\ At(w, "end payment")
    /\ payments' = IF entry \in trail THEN payments
                   ELSE [payments EXCEPT ![req[w].id].status = FinalStatus(req[w].action)]
    /\ trail' = trail \cup {entry}
    /\ Done(w)
    /\ UNCHANGED <<mined, deep>>

ClaimsNext ==
    \/ \E by \in Businesses \cup {Router} :
          \/ \E d \in Details : initiatePayment(by, d)
          \/ \E ds \in {<<d>> : d \in Details} \cup (Details \X Details) : initiatePaymentBatch(by, ds)
    \/ \E call \in Methods, id \in PaymentIds : endPayment(call, id)
    \/ \E w \in Workers :
          \/ \E business \in Businesses, i \in Receipts, id \in PaymentIds :
                \/ \E d \in Details, claimed \in {0, id} : reconcilePayment(w, business, i, claimed, d)
                \/ \E action \in Actions : reconcileEnd(w, business, i, id, action)
          \/ createPayment(w) \/ storeEnd(w)
    \/ (RequestStep \/ ChainStep) /\ UNCHANGED payments

----------------------------------------------------------------------------
(* Properties. *)

\* Each row is the one confirmed payment of its number, sent by its business
\* itself, with the details of that payment and no other of its batch, and its
\* status tells how the payment really ended: cancelled by its sender,
\* refunded by somebody else, or settled, whoever claims what about which
\* transaction and in whatever order.
PaymentsProved ==
    \A id \in PaymentIds : payments[id] # NoPayment =>
        LET row == payments[id] IN
        /\ id \in UNION {Created(i) : i \in Canonical}
        /\ mined[Creation(id)] = row.tx
        /\ row.business = row.tx.by /\ row.details = Event(id)[2]
        /\ row.status # "PENDING" =>
              \E i \in Canonical :
                 /\ mined[i].target = id
                 /\ row.status = CASE mined[i].call = "settlePayment" -> "SETTLED"
                                   [] mined[i].call = "cancelPayment" -> "CANCELLED"
                                   [] OTHER -> "REFUNDED"
=============================================================================
