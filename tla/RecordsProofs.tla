---------------------------- MODULE RecordsProofs ----------------------------
(***************************************************************************)
(* The backend's records of what the contracts did, for any number of      *)
(* requests, rows and transactions: treasury proposals, appeals, invoices, *)
(* streams, payments, hedges, pool positions, transfers and registrations; *)
(* the page that has them written; the promises they keep together; and    *)
(* the book of receipts that each of them implements.                      *)
(***************************************************************************)
EXTENDS MCRecords, SumTheorems, SequenceTheorems, FiniteSetTheorems, TLAPS

(***************************************************************************)
(* Confirmed receipts, whatever the contract.                              *)
(***************************************************************************)
LEMMA ReceiptsKept ==
    ASSUME NEW S, mined \in Seq(S), deep \in 0..Len(mined),
           ChainStep \/ \E tx \in S : Mine(tx)
    PROVE  /\ mined' \in Seq(S) /\ deep' \in 0..Len(mined')
           /\ Canonical \subseteq Canonical'
           /\ \A i \in Canonical : mined'[i] = mined[i]
<1>0. Len(mined) \in Nat
    BY LenProperties
<1>1. CASE Confirm
    BY <1>0, <1>1 DEF Confirm, Canonical, Receipts
<1>2. CASE Reorg
    <2>1. PICK keep \in deep..(Len(mined) - 1) : mined' = SubSeq(mined, 1, keep)
        BY <1>2 DEF Reorg, DropUnconfirmed
    <2>2. /\ mined' \in Seq(S) /\ Len(mined') = keep
          /\ \A i \in 1..keep : mined'[i] = mined[i]
        BY <1>0, <2>1, SubSeqProperties
    <2>3. deep' = deep
        BY <1>2 DEF Reorg
    <2> QED BY <1>0, <2>2, <2>3 DEF Canonical, Receipts
<1>3. ASSUME NEW tx \in S, Mine(tx)
      PROVE  /\ mined' \in Seq(S) /\ deep' \in 0..Len(mined')
             /\ Canonical \subseteq Canonical'
             /\ \A i \in Canonical : mined'[i] = mined[i]
    <2>1. mined' = Append(mined, tx) /\ deep' = deep
        BY <1>3 DEF Mine
    <2>2. /\ mined' \in Seq(S) /\ Len(mined') = Len(mined) + 1
          /\ \A i \in 1..Len(mined) : mined'[i] = mined[i]
        BY <2>1, AppendProperties
    <2> QED BY <1>0, <2>1, <2>2 DEF Canonical, Receipts
<1> QED BY <1>1, <1>2, <1>3 DEF ChainStep

(***************************************************************************)
(* The rows of a cross-chain transfer (TransferRecords): a transfer shown  *)
(* as refunded was not delivered, and the rows are a book of receipts      *)
(* (ReceiptBook), whatever races, dies or is reorganised.                  *)
(***************************************************************************)
transferAll == <<shared, transferVars>>

TransferEvents == {"transfer escrowed", "transfer refunded"}
TransferEntries == [event : TransferEvents, row : Transfers]

\* What a request carries at each of its awaits.
TransferHeld ==
    [at : {"idle"}]
      \cup [at : {"create transfer"}, seen : RouterStatuses \cup {"NONE"}]
      \cup [at : {"verify recovery", "store recovery"}, row : Transfers]
      \cup [at : {"audit"}, entry : TransferEntries]

TransferTypes ==
    /\ req \in [Workers -> TransferHeld]
    /\ mined \in Seq(RouterStatuses) /\ deep \in 0..Len(mined)
    /\ TransferTypeOK

\* Nothing follows a completion or a recovery on the router.
EndsLast == \A i \in 1..Len(mined) : mined[i] \in {"COMPLETED", "RECOVERED"} => i = Len(mined)

\* The row and the request that writes it have the receipts they rest on.
RowProved(r) ==
    /\ transfers[r].status # "NONE" => RouterReceipt("INITIATED")
    /\ transfers[r].status = "RECOVERED" => RouterReceipt("RECOVERED")
HeldProved(w) ==
    /\ At(w, "create transfer") => RouterReceipt("INITIATED")
    /\ At(w, "verify recovery") \/ At(w, "store recovery") => transfers[req[w].row].status # "NONE"
    /\ At(w, "store recovery") => RouterReceipt("RECOVERED")

TransferInv ==
    /\ TransferTypes /\ EndsLast
    /\ \A r \in Transfers : RowProved(r)
    /\ \A w \in Workers : HeldProved(w)

LEMMA TransferStart == RequestsInit /\ TransferInit => TransferInv
<1> SUFFICES ASSUME RequestsInit, TransferInit PROVE TransferInv
    OBVIOUS
<1>1. TransferTypes
  <2>1. req \in [Workers -> TransferHeld]
      BY DEF RequestsInit, TransferHeld, Idle
  <2>2. mined \in Seq(RouterStatuses) /\ deep \in 0..Len(mined)
      BY DEF RequestsInit
  <2>3. TransferTypeOK
      BY DEF TransferInit, TransferTypeOK, NoTransfer
  <2> QED BY <2>1, <2>2, <2>3 DEF TransferTypes
<1>2. EndsLast
    BY DEF RequestsInit, EndsLast
<1>3. \A r \in Transfers : RowProved(r)
    BY DEF TransferInit, RowProved, NoTransfer
<1>4. \A w \in Workers : HeldProved(w)
    BY DEF RequestsInit, HeldProved, At, Idle
<1> QED BY <1>1, <1>2, <1>3, <1>4 DEF TransferInv

----------------------------------------------------------------------------
(* The chain: receipts stay, and so does what rests on them.               *)

\* The chain moved on: what is confirmed is as it was, and no transaction
\* follows an end.
TransferKept ==
    /\ mined' \in Seq(RouterStatuses) /\ deep' \in 0..Len(mined') /\ deep <= deep'
    /\ \A i \in 1..deep : mined'[i] = mined[i]
    /\ EndsLast'

LEMMA MoveKeeps ==
    ASSUME TransferTypes, EndsLast, NEW from, NEW to \in RouterStatuses,
           from \cap {"COMPLETED", "RECOVERED"} = {}, RouterMoves(from, to)
    PROVE  TransferKept
<1>1. /\ mined' = Append(mined, to) /\ deep' = deep
      /\ RouterStatus \in from
    BY DEF RouterMoves, Mine
<1>2. /\ mined' \in Seq(RouterStatuses) /\ Len(mined') = Len(mined) + 1
      /\ \A i \in 1..Len(mined) : mined'[i] = mined[i]
      /\ mined'[Len(mined) + 1] = to
    BY <1>1, AppendProperties DEF TransferTypes
<1>3. Len(mined) \in Nat
    BY LenProperties DEF TransferTypes
<1>4. \A i \in 1..Len(mined) : mined[i] \notin {"COMPLETED", "RECOVERED"}
  <2> SUFFICES ASSUME NEW i \in 1..Len(mined), mined[i] \in {"COMPLETED", "RECOVERED"}
               PROVE  FALSE
      OBVIOUS
  <2>1. i = Len(mined)
      BY DEF EndsLast
  <2>2. mined # <<>>
      BY <1>3
  <2>3. RouterStatus = mined[i]
      BY <2>1, <2>2 DEF RouterStatus
  <2> QED BY <1>1, <2>3
<1>5. EndsLast'
    BY <1>2, <1>3, <1>4 DEF EndsLast
<1> QED BY <1>1, <1>2, <1>3, <1>5 DEF TransferKept, TransferTypes

LEMMA ChainKeeps ==
    ASSUME TransferTypes, EndsLast, ChainStep
    PROVE  TransferKept
<1>0. Len(mined) \in Nat /\ deep \in 0..Len(mined)
    BY LenProperties DEF TransferTypes
<1>1. CASE Confirm
    BY <1>0, <1>1 DEF Confirm, TransferKept, TransferTypes, EndsLast
<1>2. CASE Reorg
  <2>1. PICK keep \in deep..(Len(mined) - 1) : mined' = SubSeq(mined, 1, keep)
      BY <1>2 DEF Reorg, DropUnconfirmed
  <2>2. /\ mined' \in Seq(RouterStatuses) /\ Len(mined') = keep
        /\ \A i \in 1..keep : mined'[i] = mined[i]
      BY <1>0, <2>1, SubSeqProperties DEF TransferTypes
  <2>3. deep' = deep
      BY <1>2 DEF Reorg
  <2>4. EndsLast'
      BY <1>0, <2>1, <2>2 DEF EndsLast
  <2> QED BY <1>0, <2>1, <2>2, <2>3, <2>4 DEF TransferKept
<1> QED BY <1>1, <1>2 DEF ChainStep

\* A confirmed receipt is there for good.
LEMMA ReceiptsStay ==
    ASSUME TransferTypes, TransferKept, NEW event, RouterReceipt(event)
    PROVE  RouterReceipt(event)'
<1>1. PICK i \in Canonical : mined[i] = event
    BY DEF RouterReceipt
<1>2. i \in 1..deep /\ i \in 1..deep' /\ i \in 1..Len(mined')
    BY <1>1, LenProperties DEF Canonical, Receipts, TransferKept, TransferTypes
<1>3. i \in Canonical' /\ mined'[i] = event
    BY <1>1, <1>2 DEF Canonical, Receipts, TransferKept
<1> QED BY <1>3 DEF RouterReceipt

----------------------------------------------------------------------------
(* The steps.                                                              *)

\* The chain or the deadline moves: nobody's record or request changes.
LEMMA ChainStepInv ==
    ASSUME TransferInv, TransferKept, UNCHANGED <<req, transfers>>, deadlinePassed' \in BOOLEAN
    PROVE  TransferInv'
<1>1. TransferTypes'
    BY DEF TransferInv, TransferTypes, TransferKept, TransferTypeOK
<1>2. TransferTypes
    BY DEF TransferInv
<1>3. ASSUME NEW r \in Transfers PROVE RowProved(r)'
    BY <1>2, ReceiptsStay DEF TransferInv, RowProved
<1>4. ASSUME NEW w \in Workers PROVE HeldProved(w)'
    BY <1>2, ReceiptsStay DEF TransferInv, HeldProved, At
<1> QED BY <1>1, <1>3, <1>4 DEF TransferInv, TransferKept

\* A request moves to an await where it carries what it should, and perhaps
\* writes a row on the strength of it.
LEMMA HandlerInv ==
    ASSUME TransferInv, UNCHANGED <<mined, deep, deadlinePassed>>,
           NEW w \in Workers, NEW h \in TransferHeld, Goto(w, h),
           transfers' \in [Transfers -> [status : {"NONE", "INITIATED", "RECOVERED"},
                                         seen : RouterStatuses \cup {"NONE"}]],
           \A r \in Transfers : RowProved(r)',
           \A r \in Transfers : transfers[r].status # "NONE" => transfers'[r].status # "NONE",
           h.at = "create transfer" => RouterReceipt("INITIATED"),
           h.at \in {"verify recovery", "store recovery"} => transfers[h.row].status # "NONE",
           h.at = "store recovery" => RouterReceipt("RECOVERED")
    PROVE  TransferInv'
<1>1. /\ req \in [Workers -> TransferHeld] /\ req' = [req EXCEPT ![w] = h]
      /\ req' \in [Workers -> TransferHeld]
    BY DEF TransferInv, TransferTypes, Goto
<1>2. TransferTypes'
    BY <1>1 DEF TransferInv, TransferTypes, TransferTypeOK
<1>3. EndsLast'
    BY DEF TransferInv, EndsLast
<1>4. \A e : RouterReceipt(e)' <=> RouterReceipt(e)
    BY DEF RouterReceipt, Canonical, Receipts
<1>5. ASSUME NEW v \in Workers PROVE HeldProved(v)'
  <2>1. CASE v = w
    <3>1. req'[v] = h
        BY <1>1, <2>1
    <3>2. h.at \in {"verify recovery", "store recovery"} => h.row \in Transfers
        BY DEF TransferHeld
    <3> QED BY <1>4, <3>1, <3>2 DEF HeldProved, At
  <2>2. CASE v # w
    <3>1. req'[v] = req[v] /\ req[v] \in TransferHeld
        BY <1>1, <2>2
    <3>2. HeldProved(v)
        BY DEF TransferInv
    <3>3. req[v].at \in {"verify recovery", "store recovery"} => req[v].row \in Transfers
        BY <3>1 DEF TransferHeld
    <3> QED BY <1>4, <3>1, <3>2, <3>3 DEF HeldProved, At
  <2> QED BY <2>1, <2>2
<1> QED BY <1>2, <1>3, <1>5 DEF TransferInv

\* A request that has written its row goes on to its audit entry.
LEMMA AuditHeld ==
    ASSUME NEW e \in TransferEvents, NEW r \in Transfers
    PROVE  [at |-> "audit", entry |-> [event |-> e, row |-> r]] \in TransferHeld
<1>1. [event |-> e, row |-> r] \in TransferEntries
    BY DEF TransferEntries
<1> HIDE DEF TransferEntries
<1>2. [at |-> "audit", entry |-> [event |-> e, row |-> r]] \in [at : {"audit"}, entry : TransferEntries]
    BY <1>1
<1> QED BY <1>2 DEF TransferHeld

\* What a request is about to write is at hand when it writes.
LEMMA HeldFields ==
    ASSUME TransferTypes, NEW w \in Workers
    PROVE  /\ req[w] \in TransferHeld
           /\ At(w, "create transfer") => req[w].seen \in RouterStatuses \cup {"NONE"}
           /\ At(w, "verify recovery") \/ At(w, "store recovery") => req[w].row \in Transfers
<1>1. req[w] \in TransferHeld
    BY DEF TransferTypes
<1> QED BY <1>1 DEF TransferHeld, At

LEMMA TransferStep == TransferInv /\ [TransferNext]_transferAll => TransferInv'
<1> SUFFICES ASSUME TransferInv, [TransferNext]_transferAll PROVE TransferInv'
    OBVIOUS
<1>0. TransferTypes /\ EndsLast /\ TransferTypeOK
    BY DEF TransferInv, TransferTypes
<1>1. CASE UNCHANGED transferAll
    BY <1>1
       DEF transferAll, shared, transferVars, TransferInv, TransferTypes, TransferTypeOK,
           EndsLast,
        RowProved, HeldProved, At, RouterReceipt, Canonical, Receipts
<1>2. CASE RouterStep
  <2>1. CASE PassDeadline
    <3>1. TransferKept
        BY <1>0, <2>1, LenProperties
           DEF PassDeadline, shared, TransferKept, TransferTypes, EndsLast
    <3> QED BY <2>1, <3>1, ChainStepInv DEF PassDeadline, shared
  <2>2. CASE Initiate \/ SubmitRelayProof \/ ConfirmTransfer \/ MarkTransferFailed \/ RecoverOnChain
    <3>1. PICK from \in SUBSET {"NONE", "INITIATED", "RELAYED", "FAILED"}, to \in RouterStatuses :
              RouterMoves(from, to)
        BY <2>2 DEF Initiate, SubmitRelayProof, ConfirmTransfer, MarkTransferFailed,
            RecoverOnChain, RouterStatuses
    <3>2. TransferKept
        BY <1>0, <3>1, MoveKeeps
    <3> QED BY <1>0, <3>1, <3>2, ChainStepInv
               DEF RouterMoves, Mine, transferVars, TransferTypeOK
  <2> QED BY <1>2, <2>1, <2>2 DEF RouterStep
<1>3. CASE ChainStep /\ UNCHANGED transferVars
  <2>1. TransferKept
      BY <1>0, <1>3, ChainKeeps
  <2> QED BY <1>0, <1>3, <2>1, ChainStepInv
          DEF ChainStep, Confirm, Reorg, transferVars, TransferTypeOK
<1>4. CASE RequestStep /\ UNCHANGED transferVars
  <2>1. PICK w \in Workers : Audit(w) \/ Fail(w)
      BY <1>4 DEF RequestStep
  <2>2. Goto(w, Idle) /\ UNCHANGED <<mined, deep>>
      BY <2>1 DEF Audit, Fail, Done
  <2>3. Idle \in TransferHeld /\ Idle.at = "idle"
      BY DEF Idle, TransferHeld
  <2>4. \A r \in Transfers : RowProved(r)'
      BY <1>4, <2>2 DEF transferVars, TransferInv, RowProved, RouterReceipt, Canonical, Receipts
  <2> QED BY <1>0, <1>4, <2>2, <2>3, <2>4, HandlerInv DEF transferVars, TransferTypeOK
<1>5. ASSUME NEW w \in Workers, InitiateTransfer(w) PROVE TransferInv'
  <2> DEFINE h == [at |-> "create transfer", seen |-> RouterStatus]
  <2>1. RouterStatus \in RouterStatuses \cup {"NONE"}
      BY <1>0, LenProperties, ElementOfSeq DEF RouterStatus, TransferTypes
  <2>2. h \in TransferHeld
      BY <2>1 DEF TransferHeld
  <2>3. \A r \in Transfers : RowProved(r)'
      BY <1>5 DEF InitiateTransfer, transferVars, TransferInv, RowProved, RouterReceipt,
          Canonical, Receipts
  <2>4. Goto(w, h) /\ UNCHANGED <<mined, deep, deadlinePassed, transfers>>
      BY <1>5 DEF InitiateTransfer, transferVars
  <2>5. RouterReceipt("INITIATED")
      BY <1>5 DEF InitiateTransfer, VerifyTransferInitiation
  <2>6. h.at = "create transfer"
      OBVIOUS
  <2> HIDE DEF h
  <2> QED BY <1>0, <2>2, <2>3, <2>4, <2>5, <2>6, HandlerInv DEF TransferTypeOK
<1>6. ASSUME NEW w \in Workers, NEW r \in Transfers, InsertTransfer(w, r) PROVE TransferInv'
  <2> DEFINE h == [at |-> "audit", entry |-> [event |-> "transfer escrowed", row |-> r]]
  <2>1. h \in TransferHeld /\ h.at = "audit"
    <3>1. "transfer escrowed" \in TransferEvents
        BY DEF TransferEvents
    <3>2. h \in TransferHeld
        BY <3>1, AuditHeld
    <3> QED BY <3>2
  <2>2. req[w].seen \in RouterStatuses \cup {"NONE"} /\ RouterReceipt("INITIATED")
      BY <1>0, <1>6, HeldFields DEF InsertTransfer, TransferInv, HeldProved
  <2>3. /\ transfers' = [transfers EXCEPT ![r] = [status |-> "INITIATED", seen |-> req[w].seen]]
        /\ Goto(w, h) /\ UNCHANGED <<mined, deep, deadlinePassed>>
      BY <1>6 DEF InsertTransfer
  <2>4. /\ transfers' \in [Transfers -> [status : {"NONE", "INITIATED", "RECOVERED"},
                                          seen : RouterStatuses \cup {"NONE"}]]
        /\ \A q \in Transfers : transfers[q].status # "NONE" => transfers'[q].status # "NONE"
        /\ transfers'[r].status = "INITIATED"
        /\ \A q \in Transfers : q # r => transfers'[q] = transfers[q]
      BY <1>0, <2>2, <2>3 DEF TransferTypeOK
  <2>5. \A q \in Transfers : RowProved(q)'
      BY <2>2, <2>3, <2>4 DEF TransferInv, RowProved, RouterReceipt, Canonical, Receipts
  <2> HIDE DEF h
  <2> QED BY <2>1, <2>3, <2>4, <2>5, HandlerInv
<1>7. ASSUME NEW w \in Workers, NEW r \in Transfers, RecoverTransfer(w, r) PROVE TransferInv'
  <2> DEFINE h == [at |-> "verify recovery", row |-> r]
  <2>1. h \in TransferHeld /\ h.at = "verify recovery" /\ h.row = r
      BY DEF TransferHeld
  <2>2. Goto(w, h) /\ UNCHANGED <<mined, deep, deadlinePassed, transfers>>
      BY <1>7 DEF RecoverTransfer, transferVars
  <2>3. transfers[r].status # "NONE"
      BY <1>7 DEF RecoverTransfer
  <2>4. \A q \in Transfers : RowProved(q)'
      BY <2>2 DEF TransferInv, RowProved, RouterReceipt, Canonical, Receipts
  <2> HIDE DEF h
  <2> QED BY <1>0, <2>1, <2>2, <2>3, <2>4, HandlerInv DEF TransferTypeOK
<1>8. ASSUME NEW w \in Workers, VerifyRecovery(w) PROVE TransferInv'
  <2> DEFINE h == [req[w] EXCEPT !.at = "store recovery"]
  <2>1. /\ req[w] \in TransferHeld /\ req[w].at = "verify recovery" /\ req[w].row \in Transfers
        /\ transfers[req[w].row].status # "NONE"
      BY <1>0, <1>8, HeldFields DEF VerifyRecovery, TransferInv, HeldProved, At
  <2>2. req[w] \in [at : {"verify recovery", "store recovery"}, row : Transfers]
      BY <2>1 DEF TransferHeld
  <2>3. h \in TransferHeld /\ h.at = "store recovery" /\ h.row = req[w].row
      BY <2>2 DEF TransferHeld
  <2>4. Goto(w, h) /\ UNCHANGED <<mined, deep, deadlinePassed, transfers>>
      BY <1>8 DEF VerifyRecovery, transferVars
  <2>5. RouterReceipt("RECOVERED")
      BY <1>8 DEF VerifyRecovery, VerifyTransferRecovery
  <2>6. \A q \in Transfers : RowProved(q)'
      BY <2>4 DEF TransferInv, RowProved, RouterReceipt, Canonical, Receipts
  <2> HIDE DEF h
  <2> QED BY <1>0, <2>1, <2>3, <2>4, <2>5, <2>6, HandlerInv DEF TransferTypeOK
<1>9. ASSUME NEW w \in Workers, StoreRecovery(w) PROVE TransferInv'
  <2> DEFINE r == req[w].row
             h == [at |-> "audit", entry |-> [event |-> "transfer refunded", row |-> r]]
  <2>1. /\ r \in Transfers /\ transfers[r].status # "NONE" /\ RouterReceipt("RECOVERED")
      BY <1>0, <1>9, HeldFields DEF StoreRecovery, TransferInv, HeldProved
  <2>2. h \in TransferHeld /\ h.at = "audit"
    <3>1. "transfer refunded" \in TransferEvents
        BY DEF TransferEvents
    <3>2. h \in TransferHeld
        BY <2>1, <3>1, AuditHeld
    <3> QED BY <3>2
  <2>3. /\ transfers' = [transfers EXCEPT ![r].status = "RECOVERED"]
        /\ Goto(w, h) /\ UNCHANGED <<mined, deep, deadlinePassed>>
      BY <1>9 DEF StoreRecovery
  <2> HIDE DEF r, h
  <2>4. /\ transfers' \in [Transfers -> [status : {"NONE", "INITIATED", "RECOVERED"},
                                          seen : RouterStatuses \cup {"NONE"}]]
        /\ \A q \in Transfers : transfers[q].status # "NONE" => transfers'[q].status # "NONE"
        /\ \A q \in Transfers : q # r => transfers'[q] = transfers[q]
      BY <1>0, <2>1, <2>3 DEF TransferTypeOK
  <2>5. \A q \in Transfers : RowProved(q)'
      BY <2>1, <2>3, <2>4 DEF TransferInv, RowProved, RouterReceipt, Canonical, Receipts
  <2> QED BY <2>2, <2>3, <2>4, <2>5, HandlerInv
<1> QED
    BY <1>1, <1>2, <1>3, <1>4, <1>5, <1>6, <1>7, <1>8, <1>9 DEF TransferNext

LEMMA TransferInvariant == TransferSpec => []TransferInv
BY TransferStart, TransferStep, PTL DEF TransferSpec, transferAll

LEMMA TransferProves == TransferInv => RefundedNotDelivered
<1> SUFFICES ASSUME TransferInv, NEW r \in Transfers, transfers[r].status = "RECOVERED"
             PROVE  RouterReceipt("RECOVERED") /\ \A i \in Receipts : mined[i] # "COMPLETED"
    BY DEF RefundedNotDelivered
<1>1. RouterReceipt("RECOVERED")
    BY DEF TransferInv, RowProved
<1>2. PICK i \in Receipts : mined[i] = "RECOVERED" /\ i = Len(mined)
    BY <1>1 DEF RouterReceipt, Canonical, Receipts, TransferInv, EndsLast
<1> QED BY <1>1, <1>2 DEF TransferInv, EndsLast, Receipts

\* A transfer that the record shows as refunded was not delivered and never
\* will be: the router has no completion of it, confirmed or not
\* (services/crosschain.ts, recoverTransfer).
THEOREM RefundsWereNotDelivered == TransferSpec => []RefundedNotDelivered
BY TransferProves, TransferInvariant, PTL

----------------------------------------------------------------------------
(* The rows are a book of receipts.                                        *)

TransferBook == INSTANCE ReceiptBook WITH
            Rows <- Transfers,
            confirmed <- {mined[i] : i \in Canonical},
            book <- [r \in Transfers |-> TransferClaims(transfers[r])]

LEMMA BookInit == RequestsInit /\ TransferInit => TransferBook!Init
BY DEF RequestsInit, TransferInit, TransferBook!Init, NoTransfer, TransferClaims, Canonical,
       Receipts

\* The chain alone: nothing that was confirmed is withdrawn.
LEMMA BookProves ==
    ASSUME TransferTypes, TransferKept, UNCHANGED transfers
    PROVE  [TransferBook!Next]_(TransferBook!vars)
<1>1. \A i \in Canonical : i \in Canonical' /\ mined'[i] = mined[i]
    BY LenProperties DEF Canonical, Receipts, TransferKept, TransferTypes
<1>2. {mined[i] : i \in Canonical} \subseteq {mined[i] : i \in Canonical}'
    BY <1>1
<1> QED BY <1>2 DEF TransferBook!Next, TransferBook!Prove, TransferBook!vars

\* One row is written, with what was proved before.
LEMMA BookWrites ==
    ASSUME UNCHANGED <<mined, deep>>, NEW r \in Transfers,
           transfers \in [Transfers -> [status : {"NONE", "INITIATED", "RECOVERED"},
                                        seen : RouterStatuses \cup {"NONE"}]],
           NEW row, transfers' = [transfers EXCEPT ![r] = row],
           row.status \in {"INITIATED", "RECOVERED"},
           RouterReceipt("INITIATED"), RouterReceipt(row.status)
    PROVE  TransferBook!Next
<1>1. transfers'[r] = row /\ \A q \in Transfers : q # r => transfers'[q] = transfers[q]
    OBVIOUS
<1>2. TransferClaims(transfers'[r]) = {"INITIATED", row.status}
    BY <1>1 DEF TransferClaims
<1>3. {"INITIATED", row.status} \subseteq {mined[i] : i \in Canonical}
    BY DEF RouterReceipt
<1>4. [q \in Transfers |-> TransferClaims(transfers'[q])]
        = [[q \in Transfers |-> TransferClaims(transfers[q])] EXCEPT
             ![r] = TransferClaims(transfers'[r])]
    BY <1>1
<1>5. {mined[i] : i \in Canonical}' = {mined[i] : i \in Canonical}
    BY DEF Canonical, Receipts
<1>6. TransferBook!Write(r)
    BY <1>2, <1>3, <1>4, <1>5 DEF TransferBook!Write
<1> QED BY <1>6 DEF TransferBook!Next

LEMMA BookStep == TransferInv /\ [TransferNext]_transferAll => [TransferBook!Next]_(TransferBook!vars)
<1> SUFFICES ASSUME TransferInv, [TransferNext]_transferAll
             PROVE [TransferBook!Next]_(TransferBook!vars)
    OBVIOUS
<1>0. TransferTypes /\ EndsLast /\ TransferTypeOK
    BY DEF TransferInv, TransferTypes
<1>1. ASSUME UNCHANGED <<mined, deep, transfers>> PROVE UNCHANGED TransferBook!vars
    BY <1>1 DEF TransferBook!vars, Canonical, Receipts
<1>2. CASE Initiate \/ SubmitRelayProof \/ ConfirmTransfer \/ MarkTransferFailed \/ RecoverOnChain
  <2>1. PICK from \in SUBSET {"NONE", "INITIATED", "RELAYED", "FAILED"}, to \in RouterStatuses :
            RouterMoves(from, to)
      BY <1>2 DEF Initiate, SubmitRelayProof, ConfirmTransfer, MarkTransferFailed,
          RecoverOnChain, RouterStatuses
  <2> QED BY <1>0, <2>1, MoveKeeps, BookProves DEF RouterMoves, transferVars
<1>3. CASE ChainStep /\ UNCHANGED transferVars
    BY <1>0, <1>3, ChainKeeps, BookProves DEF transferVars
<1>4. ASSUME NEW w \in Workers, NEW r \in Transfers, InsertTransfer(w, r)
      PROVE TransferBook!Next
  <2> DEFINE row == [status |-> "INITIATED", seen |-> req[w].seen]
  <2>1. RouterReceipt("INITIATED")
      BY <1>4 DEF InsertTransfer, TransferInv, HeldProved
  <2>2. transfers' = [transfers EXCEPT ![r] = row] /\ row.status = "INITIATED"
      BY <1>4 DEF InsertTransfer
  <2>3. UNCHANGED <<mined, deep>>
      BY <1>4 DEF InsertTransfer
  <2> HIDE DEF row
  <2> QED BY <1>0, <2>1, <2>2, <2>3, BookWrites DEF TransferTypeOK
<1>5. ASSUME NEW w \in Workers, StoreRecovery(w) PROVE TransferBook!Next
  <2> DEFINE r == req[w].row
             row == [transfers[r] EXCEPT !.status = "RECOVERED"]
  <2>1. r \in Transfers /\ RouterReceipt("INITIATED") /\ RouterReceipt("RECOVERED")
      BY <1>0, <1>5, HeldFields DEF StoreRecovery, TransferInv, HeldProved, RowProved
  <2>2. transfers' = [transfers EXCEPT ![r] = row]
      BY <1>0, <1>5 DEF StoreRecovery, TransferTypeOK
  <2>3. row.status = "RECOVERED"
      BY <1>0, <2>1 DEF TransferTypeOK
  <2>4. UNCHANGED <<mined, deep>>
      BY <1>5 DEF StoreRecovery
  <2> HIDE DEF r, row
  <2> QED BY <1>0, <2>1, <2>2, <2>3, <2>4, BookWrites DEF TransferTypeOK
<1>6. CASE \/ UNCHANGED transferAll
           \/ PassDeadline
           \/ RequestStep /\ UNCHANGED transferVars
           \/ \E w \in Workers : \/ InitiateTransfer(w) \/ VerifyRecovery(w)
                                \/ \E r \in Transfers : RecoverTransfer(w, r)
    BY <1>1, <1>6
       DEF transferAll, shared, transferVars, PassDeadline, RequestStep, Audit, Fail, Done,
       InitiateTransfer, VerifyRecovery, RecoverTransfer
<1> QED
    BY <1>2, <1>3, <1>4, <1>5, <1>6 DEF TransferNext, RouterStep

\* The transfer service implements the book of receipts: a row never claims an
\* event without a confirmed receipt, and a claim is never withdrawn
\* (services/crosschain.ts over crosschain-execution.ts).
THEOREM TransfersKeepTheBook == TransferSpec => TransferBook!Spec
BY BookInit, BookStep, TransferInvariant, PTL DEF TransferSpec, transferAll, TransferBook!Spec

\* The book itself promises that no row claims an unproved event, so the
\* transfer service never shows one (ReceiptBook over services/crosschain.ts).
THEOREM ClaimsAreProved == TransferSpec => []TransferBook!OnlyProved
<1>1. TransferBook!Init => TransferBook!OnlyProved
    BY DEF TransferBook!Init, TransferBook!OnlyProved
<1>2. TransferBook!OnlyProved /\ [TransferBook!Next]_(TransferBook!vars) => TransferBook!OnlyProved'
  <2> SUFFICES ASSUME TransferBook!OnlyProved, [TransferBook!Next]_(TransferBook!vars)
               PROVE TransferBook!OnlyProved'
      OBVIOUS
  <2>1. CASE UNCHANGED TransferBook!vars
      BY <2>1 DEF TransferBook!vars, TransferBook!OnlyProved
  <2>2. CASE TransferBook!Prove
      BY <2>2 DEF TransferBook!Prove, TransferBook!OnlyProved
  <2>3. ASSUME NEW r \in Transfers, TransferBook!Write(r) PROVE TransferBook!OnlyProved'
      BY <2>3 DEF TransferBook!Write, TransferBook!OnlyProved
  <2> QED BY <2>1, <2>2, <2>3 DEF TransferBook!Next
<1> QED BY TransfersKeepTheBook, <1>1, <1>2, PTL DEF TransferBook!Spec

(***************************************************************************)
(* The row of a business (BusinessMirror).                                 *)
(***************************************************************************)
Registered == [status : {"PENDING", "VERIFIED", "SUSPENDED", "REVOKED"},
               tier : 0..TopTier, verified : 0..MaxMined]
RegistryOps == {"register", "verify", "upgrade", "suspend", "reinstate", "revoke"}
RegistryTxs == [op : RegistryOps, state : Registered]

MirrorTypes ==
    /\ DOMAIN req = Workers
    /\ mined \in Seq(RegistryTxs) /\ deep \in 0..Len(mined)
    /\ business \in Registered \cup {NoRegistration}
    /\ history \in Seq(Nat)

\* The row exists when its history does, which starts with the registration.
HistoryTells ==
    /\ business = NoRegistration <=> history = <<>>
    /\ \A k \in 1..Len(history) : history[k] \in Canonical
    /\ \A j, k \in 1..Len(history) : history[j] = history[k] => j = k
    /\ history # <<>> => mined[history[1]].op = "register"

\* A transaction that waits to be written was confirmed, and a transition is
\* reported of a business that has its row.
ReportHeld(w) ==
    /\ At(w, "finalize registration") => req[w].tx \in Canonical /\ mined[req[w].tx].op = "register"
    /\ At(w, "persist") => req[w].tx \in Canonical /\ history # <<>>

AtMostOneKey == keys = {} \/ \E c : keys = {c}

BusinessInv ==
    /\ MirrorTypes /\ HistoryTells /\ AtMostOneKey
    /\ \A w \in Workers : ReportHeld(w)

LEMMA BusinessInit == RequestsInit /\ MirrorInit => BusinessInv
<1> SUFFICES ASSUME RequestsInit, MirrorInit PROVE BusinessInv
    OBVIOUS
<1>1. MirrorTypes /\ HistoryTells /\ AtMostOneKey
    BY DEF RequestsInit, MirrorInit, MirrorTypes, HistoryTells, AtMostOneKey
<1>2. \A w \in Workers : ReportHeld(w)
    BY DEF RequestsInit, ReportHeld, At, Idle
<1> QED BY <1>1, <1>2 DEF BusinessInv

\* What the registry does is one more transaction with a state of the business.
LEMMA RegistryMines ==
    ASSUME BusinessInv, TopTier \in Nat, RegistryStep
    PROVE  (\E tx \in RegistryTxs : Mine(tx)) /\ UNCHANGED mirrorVars
<1> DEFINE now == StateAt(Len(mined))
           time == Len(mined) + 1
<1>1. Len(mined) \in Nat /\ mined \in Seq(RegistryTxs)
    BY LenProperties DEF BusinessInv, MirrorTypes
<1>2. now \in Registered \cup {NoRegistration} /\ time \in Nat
    <2>1. CASE Len(mined) = 0
        BY <1>1, <2>1 DEF StateAt
    <2>2. CASE Len(mined) # 0
        <3>1. mined[Len(mined)] \in RegistryTxs
            BY <1>1, <2>2
        <3> QED BY <1>1, <2>2, <3>1 DEF StateAt, RegistryTxs
    <2> QED BY <2>1, <2>2
<1>3. ASSUME NEW op \in RegistryOps, NEW from, NEW state,
             RegistryDoes(op, from, state), state \in Registered
      PROVE  (\E tx \in RegistryTxs : Mine(tx)) /\ UNCHANGED mirrorVars
    <2>1. [op |-> op, state |-> state] \in RegistryTxs
        BY <1>3 DEF RegistryTxs
    <2> QED BY <1>3, <2>1 DEF RegistryDoes
<1>4. StateAt(Len(mined)) = now
    OBVIOUS
<1>t. time \in 0..MaxMined
    <2>1. Len(mined) < MaxMined
        BY DEF RegistryStep, RegistryDoes, Mine
    <2> QED BY <1>1, <2>1, RequestsAssumption
<1> HIDE DEF now, time
<1>5. CASE RegistryDoes("register", {"NONE"}, Registration)
    <2>1. Registration \in Registered
        BY RequestsAssumption DEF Registration, Registered
    <2> QED BY <1>3, <1>5, <2>1 DEF RegistryOps
<1>6. CASE RegistryDoes("verify", {"PENDING", "VERIFIED"},
                        [now EXCEPT !.status = "VERIFIED", !.verified = time])
    <2>1. now \in Registered
        BY <1>2, <1>4, <1>6 DEF RegistryDoes, NoRegistration
    <2>2. [now EXCEPT !.status = "VERIFIED", !.verified = time] \in Registered
        BY <1>2, <1>t, <2>1 DEF Registered
    <2> QED BY <1>3, <1>6, <2>2 DEF RegistryOps
<1>7. ASSUME NEW t \in now.tier + 1..TopTier,
             RegistryDoes("upgrade", {"VERIFIED"}, [now EXCEPT !.tier = t])
      PROVE  (\E tx \in RegistryTxs : Mine(tx)) /\ UNCHANGED mirrorVars
    <2>1. now \in Registered
        BY <1>2, <1>4, <1>7 DEF RegistryDoes, NoRegistration
    <2>2. t \in 0..TopTier
        BY <2>1 DEF Registered
    <2>3. [now EXCEPT !.tier = t] \in Registered
        BY <2>1, <2>2 DEF Registered
    <2> QED BY <1>3, <1>7, <2>3 DEF RegistryOps
<1>8. CASE RegistryDoes("suspend", {"VERIFIED"}, [now EXCEPT !.status = "SUSPENDED"])
    <2>1. now \in Registered
        BY <1>2, <1>4, <1>8 DEF RegistryDoes, NoRegistration
    <2>2. [now EXCEPT !.status = "SUSPENDED"] \in Registered
        BY <2>1 DEF Registered
    <2> QED BY <1>3, <1>8, <2>2 DEF RegistryOps
<1>9. CASE RegistryDoes("reinstate", {"SUSPENDED"},
                        [now EXCEPT !.status = "VERIFIED", !.verified = time])
    <2>1. now \in Registered
        BY <1>2, <1>4, <1>9 DEF RegistryDoes, NoRegistration
    <2>2. [now EXCEPT !.status = "VERIFIED", !.verified = time] \in Registered
        BY <1>2, <1>t, <2>1 DEF Registered
    <2> QED BY <1>3, <1>9, <2>2 DEF RegistryOps
<1>10. CASE RegistryDoes("revoke", {"PENDING", "VERIFIED", "SUSPENDED"},
                         [now EXCEPT !.status = "REVOKED"])
    <2>1. now \in Registered
        BY <1>2, <1>4, <1>10 DEF RegistryDoes, NoRegistration
    <2>2. [now EXCEPT !.status = "REVOKED"] \in Registered
        BY <2>1 DEF Registered
    <2> QED BY <1>3, <1>10, <2>2 DEF RegistryOps
<1> QED BY <1>5, <1>6, <1>7, <1>8, <1>9, <1>10 DEF RegistryStep, now, time

\* The chain moves: what the row and the requests rest on stays.
LEMMA ChainKeepsBusiness ==
    ASSUME BusinessInv, ChainStep \/ RegistryStep, UNCHANGED mirrorVars
    PROVE  BusinessInv'
<1>1. mined \in Seq(RegistryTxs) /\ deep \in 0..Len(mined)
    BY DEF BusinessInv, MirrorTypes
<1>2. ChainStep \/ \E tx \in RegistryTxs : Mine(tx)
    BY RegistryMines, MirrorAssumption
<1>3. /\ mined' \in Seq(RegistryTxs) /\ deep' \in 0..Len(mined')
      /\ Canonical \subseteq Canonical'
      /\ \A i \in Canonical : mined'[i] = mined[i]
    BY <1>1, <1>2, ReceiptsKept
<1>4. UNCHANGED <<req, business, keys, used, history>>
    BY <1>2 DEF ChainStep, Confirm, Reorg, Mine, mirrorVars
<1>5. MirrorTypes' /\ AtMostOneKey'
    BY <1>3, <1>4 DEF BusinessInv, MirrorTypes, AtMostOneKey
<1>6. HistoryTells'
    <2>1. history \in Seq(Nat) /\ Len(history) \in Nat /\ (history # <<>> => 1 \in 1..Len(history))
        BY LenProperties, EmptySeq DEF BusinessInv, MirrorTypes
    <2> QED BY <1>3, <1>4, <2>1 DEF BusinessInv, HistoryTells
<1>7. \A w \in Workers : ReportHeld(w)'
    BY <1>3, <1>4 DEF BusinessInv, ReportHeld, At
<1> QED BY <1>5, <1>6, <1>7 DEF BusinessInv

\* A request moves on and nothing is written.
LEMMA ReportMoves ==
    ASSUME BusinessInv, NEW w \in Workers, NEW r, Goto(w, r),
           UNCHANGED <<mined, deep, business, keys, history>>,
           r.at = "finalize registration" => r.tx \in Canonical /\ mined[r.tx].op = "register",
           r.at = "persist" => r.tx \in Canonical /\ history # <<>>
    PROVE  BusinessInv'
<1>1. req' = [req EXCEPT ![w] = r] /\ DOMAIN req = Workers
    BY DEF Goto, BusinessInv, MirrorTypes
<1>2. MirrorTypes' /\ HistoryTells' /\ AtMostOneKey'
    BY <1>1 DEF BusinessInv, MirrorTypes, HistoryTells, AtMostOneKey, Canonical, Receipts
<1>3. ASSUME NEW v \in Workers PROVE ReportHeld(v)'
    <2>1. CASE v = w
        <3>1. req'[v] = r
            BY <1>1, <2>1
        <3> QED BY <3>1 DEF ReportHeld, At, Canonical, Receipts
    <2>2. CASE v # w
        <3>1. req'[v] = req[v]
            BY <1>1, <2>2
        <3> QED BY <3>1 DEF BusinessInv, ReportHeld, At, Canonical, Receipts
    <2> QED BY <2>1, <2>2
<1> QED BY <1>2, <1>3 DEF BusinessInv

\* A request ends and one more transaction counts.
LEMMA HistoryGrows ==
    ASSUME BusinessInv, NEW w \in Workers, NEW i, Done(w), UNCHANGED <<mined, deep>>,
           history' = Append(history, i), i \in Canonical,
           \A k \in 1..Len(history) : history[k] # i,
           history = <<>> => mined[i].op = "register",
           business' \in Registered, AtMostOneKey'
    PROVE  BusinessInv'
<1>1. req' = [req EXCEPT ![w] = Idle] /\ DOMAIN req = Workers
    BY DEF Done, Goto, BusinessInv, MirrorTypes
<1>2. /\ history \in Seq(Nat) /\ Len(history) \in Nat /\ i \in Nat
      /\ (history = <<>> <=> Len(history) = 0)
    BY LenProperties, EmptySeq DEF BusinessInv, MirrorTypes, Canonical, Receipts
<1>3. /\ history' \in Seq(Nat) /\ Len(history') = Len(history) + 1
      /\ \A k \in 1..Len(history) : history'[k] = history[k]
      /\ history'[Len(history) + 1] = i
    BY <1>2, AppendProperties
<1>4. business' # NoRegistration /\ history' # <<>>
    BY <1>2, <1>3, EmptySeq DEF NoRegistration, Registered
<1>5. MirrorTypes'
    BY <1>1, <1>3 DEF BusinessInv, MirrorTypes
<1>6. Canonical' = Canonical
    BY DEF Canonical, Receipts
<1>7. HistoryTells'
    <2>1. ASSUME NEW k \in 1..Len(history') PROVE k \in 1..Len(history) \/ k = Len(history) + 1
        BY <1>2, <1>3
    <2>2. \A k \in 1..Len(history') : history'[k] \in Canonical
        BY <1>3, <2>1 DEF BusinessInv, HistoryTells
    <2>3. ASSUME NEW j \in 1..Len(history'), NEW k \in 1..Len(history'), history'[j] = history'[k]
          PROVE  j = k
        BY <1>3, <2>1, <2>3 DEF BusinessInv, HistoryTells
    <2>4. mined'[history'[1]].op = "register"
        <3>1. CASE history = <<>>
            BY <1>2, <1>3, <3>1
        <3>2. CASE history # <<>>
            <4>1. 1 \in 1..Len(history)
                BY <1>2, <3>2
            <4> QED BY <1>3, <3>2, <4>1 DEF BusinessInv, HistoryTells
        <3> QED BY <3>1, <3>2
    <2> QED BY <1>4, <1>6, <2>2, <2>3, <2>4 DEF HistoryTells
<1>8. ASSUME NEW v \in Workers PROVE ReportHeld(v)'
    <2>1. CASE v = w
        BY <1>1, <2>1 DEF ReportHeld, At, Idle
    <2>2. CASE v # w
        <3>1. req'[v] = req[v]
            BY <1>1, <2>2
        <3> QED BY <1>4, <1>6, <3>1 DEF BusinessInv, ReportHeld, At
    <2> QED BY <2>1, <2>2
<1> QED BY <1>5, <1>7, <1>8 DEF BusinessInv

LEMMA FinalizeKeeps ==
    ASSUME BusinessInv, NEW w \in Workers, FinalizeRegistration(w)
    PROVE  BusinessInv'
<1>1. /\ req[w].tx \in Canonical /\ mined[req[w].tx].op = "register"
      /\ Done(w) /\ UNCHANGED <<mined, deep>>
    BY DEF FinalizeRegistration, BusinessInv, ReportHeld
<1>2. AtMostOneKey'
    BY DEF FinalizeRegistration, KeysIssued, AtMostOneKey
<1>3. CASE business = NoRegistration
    <2>1. business' = Registration /\ history' = Append(history, req[w].tx)
        BY <1>3 DEF FinalizeRegistration
    <2>2. history = <<>> /\ Registration \in Registered
        BY <1>3, MirrorAssumption, RequestsAssumption
            DEF BusinessInv, HistoryTells, Registration, Registered
    <2>3. \A k \in 1..Len(history) : history[k] # req[w].tx
        BY <2>2
    <2> QED BY <1>1, <1>2, <2>1, <2>2, <2>3, HistoryGrows
<1>4. CASE business # NoRegistration
    <2>1. UNCHANGED <<business, history>>
        BY <1>4 DEF FinalizeRegistration
    <2>2. req' = [req EXCEPT ![w] = Idle] /\ DOMAIN req = Workers
        BY <1>1 DEF Done, Goto, BusinessInv, MirrorTypes
    <2>3. MirrorTypes' /\ HistoryTells'
        BY <1>1, <2>1, <2>2 DEF BusinessInv, MirrorTypes, HistoryTells, Canonical, Receipts
    <2>4. ASSUME NEW v \in Workers PROVE ReportHeld(v)'
        <3>1. CASE v = w
            BY <2>2, <3>1 DEF ReportHeld, At, Idle
        <3>2. CASE v # w
            <4>1. req'[v] = req[v]
                BY <2>2, <3>2
            <4> QED BY <1>1, <2>1, <4>1 DEF BusinessInv, ReportHeld, At, Canonical, Receipts
        <3> QED BY <3>1, <3>2
    <2> QED BY <1>2, <2>3, <2>4 DEF BusinessInv
<1> QED BY <1>3, <1>4

LEMMA PersistKeeps ==
    ASSUME BusinessInv, NEW w \in Workers, PersistTransition(w)
    PROVE  BusinessInv'
<1> DEFINE i == req[w].tx
           to == [f \in DOMAIN business |->
                     IF f \in req[w].update THEN mined[i].state[f] ELSE business[f]]
<1>1. /\ i \in Canonical /\ history # <<>>
      /\ Done(w) /\ UNCHANGED <<mined, deep>>
    BY DEF PersistTransition, BusinessInv, ReportHeld
<1>2. CASE AlreadyApplied(i)
    <2>1. UNCHANGED <<business, keys, history>>
        BY <1>2 DEF PersistTransition
    <2> QED BY <1>1, <2>1, ReportMoves DEF Done, Idle
<1>3. CASE ~AlreadyApplied(i)
    <2>1. /\ business' = to /\ history' = Append(history, i)
          /\ keys' = IF mined[i].op = "revoke" THEN {} ELSE keys
        BY <1>3 DEF PersistTransition
    <2>2. \A k \in 1..Len(history) : history[k] # i
        BY <1>3 DEF AlreadyApplied, Contains
    <2>3. AtMostOneKey'
        BY <2>1 DEF BusinessInv, AtMostOneKey
    <2>4. business \in Registered /\ mined[i].state \in Registered
        <3>1. business \in Registered
            BY <1>1 DEF BusinessInv, MirrorTypes, HistoryTells
        <3>2. mined[i] \in RegistryTxs
            BY <1>1 DEF BusinessInv, MirrorTypes, Canonical, Receipts
        <3> QED BY <3>1, <3>2 DEF RegistryTxs
    <2>5. to \in Registered
        <3>1. DOMAIN business = {"status", "tier", "verified"}
            BY <2>4 DEF Registered
        <3> DEFINE V(f) == IF f \in req[w].update THEN mined[i].state[f] ELSE business[f]
        <3>2. /\ V("status") \in {"PENDING", "VERIFIED", "SUSPENDED", "REVOKED"}
              /\ V("tier") \in 0..TopTier /\ V("verified") \in 0..MaxMined
            BY <2>4 DEF Registered
        <3>3. to = [f \in {"status", "tier", "verified"} |-> V(f)]
            BY <3>1
        <3> HIDE DEF V, to
        <3>4. to = [status |-> V("status"), tier |-> V("tier"), verified |-> V("verified")]
            BY <3>3
        <3> QED BY <3>2, <3>4 DEF Registered
    <2> HIDE DEF i, to
    <2> QED BY <1>1, <2>1, <2>2, <2>3, <2>5, HistoryGrows
<1> QED BY <1>2, <1>3

LEMMA BusinessStep == BusinessInv /\ [MirrorNext]_<<shared, mirrorVars>> => BusinessInv'
<1> SUFFICES ASSUME BusinessInv, [MirrorNext]_<<shared, mirrorVars>> PROVE BusinessInv'
    OBVIOUS
<1>1. CASE RegistryStep
    BY <1>1, ChainKeepsBusiness, RegistryMines, MirrorAssumption
<1>2. ASSUME NEW w \in Workers, FinalizeRegistration(w) \/ PersistTransition(w)
      PROVE  BusinessInv'
    BY <1>2, FinalizeKeeps, PersistKeeps
<1>3. ASSUME NEW w \in Workers, NEW i, NEW c, ProveRegistration(w, c, i) PROVE BusinessInv'
    <2> DEFINE r == [at |-> "finalize registration", challenge |-> c, tx |-> i]
    <2>1. /\ Goto(w, r) /\ r.at = "finalize registration" /\ r.tx = i
          /\ UNCHANGED <<mined, deep, business, keys, history>>
          /\ i \in Canonical /\ mined[i].op = "register"
        BY <1>3 DEF ProveRegistration, RegistrationProved, IsReceipt, mirrorVars
    <2> HIDE DEF r
    <2> QED BY <2>1, ReportMoves
<1>4. ASSUME NEW w \in Workers, NEW op, NEW i, NEW from, NEW update,
             Proved(w, op, i, from, update)
      PROVE  BusinessInv'
    <2> DEFINE r == [at |-> "persist", tx |-> i, from |-> from, update |-> update]
    <2>1. /\ Goto(w, r) /\ r.at = "persist" /\ r.tx = i
          /\ UNCHANGED <<mined, deep, business, keys, history>>
          /\ i \in Canonical /\ history # <<>>
        BY <1>4 DEF Proved, IsReceipt, mirrorVars, BusinessInv, HistoryTells
    <2> HIDE DEF r
    <2> QED BY <2>1, ReportMoves
<1>5. ASSUME NEW w \in Workers, NEW i,
             \/ ReconcileVerification(w, i) \/ ReconcileTierUpgrade(w, i)
             \/ ReconcileSuspension(w, i) \/ ReconcileReinstatement(w, i)
             \/ ReconcileRevocation(w, i)
      PROVE  BusinessInv'
    BY <1>4, <1>5 DEF ReconcileVerification, ReconcileTierUpgrade, ReconcileSuspension,
                      ReconcileReinstatement, ReconcileRevocation
<1>6. CASE RequestStep /\ UNCHANGED mirrorVars
    <2>1. PICK w \in Workers : Audit(w) \/ Fail(w)
        BY <1>6 DEF RequestStep
    <2>2. Goto(w, Idle) /\ UNCHANGED <<mined, deep, business, keys, history>>
        BY <1>6, <2>1 DEF Audit, Fail, Done, mirrorVars
    <2> QED BY <2>2, ReportMoves DEF Idle
<1>7. CASE ChainStep /\ UNCHANGED mirrorVars
    BY <1>7, ChainKeepsBusiness
<1>8. CASE UNCHANGED <<shared, mirrorVars>>
    BY <1>8 DEF shared, mirrorVars, BusinessInv, MirrorTypes, HistoryTells, AtMostOneKey,
                ReportHeld, At, Canonical, Receipts
<1> QED BY <1>1, <1>2, <1>3, <1>5, <1>6, <1>7, <1>8 DEF MirrorNext

LEMMA BusinessProves == BusinessInv => MirrorHolds
<1> SUFFICES ASSUME BusinessInv PROVE MirrorHolds
    OBVIOUS
<1>1. history \in Seq(Nat) /\ DOMAIN history = 1..Len(history)
    BY LenProperties DEF BusinessInv, MirrorTypes
<1>2. IsInjective(history)
    BY <1>1 DEF BusinessInv, HistoryTells, IsInjective
<1>3. business # NoRegistration => mined[Head(history)].op = "register"
    <2> SUFFICES ASSUME history # <<>> PROVE Head(history) = history[1]
        BY DEF BusinessInv, HistoryTells
    <2> QED BY <1>1, HeadTailProperties
<1>4. AppliedOnce
    BY <1>1, <1>2, <1>3 DEF BusinessInv, HistoryTells, AppliedOnce
<1>5. Cardinality(keys) \in {0, 1}
    <2>1. CASE keys = {}
        BY <2>1, FS_EmptySet
    <2>2. ASSUME NEW c, keys = {c} PROVE Cardinality(keys) = 1
        BY <2>2, FS_Singleton
    <2> QED BY <2>1, <2>2 DEF BusinessInv, AtMostOneKey
<1>6. OneDefaultKey
    BY <1>5 DEF OneDefaultKey
<1> QED BY <1>4, <1>6 DEF MirrorHolds

\* However registrations and reports of a business race, die and are repeated,
\* a confirmed transaction moves its row once, its registration first, and one
\* default key at most is active (services/business-registration.ts,
\* business-reconciliation.ts).
THEOREM ReportsCountOnce == MirrorSpec => []MirrorHolds
BY BusinessInit, BusinessStep, BusinessProves, PTL DEF MirrorSpec

(***************************************************************************)
(* The page: what it saw confirmed is recorded, or stored (BrowserPages).  *)
(***************************************************************************)
Sent == [wallet : Wallets, item : Items, status : {"waiting", "mined", "reverted"}]
Writes == [at : {"send", "receipt", "api"}, wallet : Wallets, item : Items, tx : Nat]

PageTypes ==
    /\ connected \in Wallets
    /\ sent \in Seq(Sent) /\ seen \subseteq 1..Len(sent)
    /\ slot \in [Wallets -> 0..Len(sent)] /\ shown \in 0..Len(sent)
    /\ write \in Writes \cup {Idle0}
    /\ write.at \in {"receipt", "api"} => write.tx \in 1..Len(sent)

\* What the running mutation and the page know of the transaction stored for
\* the account that is selected.
WriteKnows ==
    /\ write # Idle0 => write.wallet = connected
    /\ slot[connected] \in {0, shown}
    /\ write.at \in {"send", "receipt"} => slot[connected] = 0
    /\ write.at = "receipt" => sent[write.tx].wallet = connected
    /\ write.at = "api" => slot[connected] \in {0, write.tx}

PageInv ==
    /\ PageTypes
    /\ KeptUntilRecorded
    /\ crossed \/ WriteKnows

LEMMA PageStart == PageInit => PageInv
<1> SUFFICES ASSUME PageInit PROVE PageInv
    OBVIOUS
<1>1. sent \in Seq(Sent) /\ Len(sent) = 0
    BY DEF PageInit
<1>2. PageTypes
    BY <1>1 DEF PageInit, PageTypes, Idle0
<1>3. KeptUntilRecorded /\ WriteKnows
    BY <1>1 DEF PageInit, KeptUntilRecorded, WriteKnows, Idle0
<1> QED BY <1>2, <1>3 DEF PageInv

LEMMA SeenSent ==
    ASSUME PageTypes, NEW n \in seen
    PROVE  n \in 1..Len(sent) /\ sent[n].wallet \in Wallets
<1>1. n \in 1..Len(sent) /\ sent \in Seq(Sent)
    BY DEF PageTypes
<1>2. sent[n] \in Sent
    BY <1>1
<1> QED BY <1>1, <1>2 DEF Sent

\* The steps of the wallet and of the session.
LEMMA WalletKeeps ==
    ASSUME PageInv,
           \/ \E w \in Wallets : SelectAccount(w) \/ SignIn(w)
           \/ SignOut \/ RefreshSession
    PROVE  PageInv'
<1>1. ASSUME NEW w \in Wallets, SelectAccount(w) PROVE PageInv'
    <2>1. /\ connected' = w /\ shown' = slot[w]
          /\ crossed' = (crossed \/ write # Idle0)
          /\ UNCHANGED <<slot, write, sent, recorded, seen>>
        BY <1>1 DEF SelectAccount
    <2>2. PageTypes'
        BY <2>1 DEF PageInv, PageTypes
    <2>3. KeptUntilRecorded'
        BY <2>1 DEF PageInv, KeptUntilRecorded
    <2>4. ASSUME ~crossed' PROVE WriteKnows'
        <3>0. write = Idle0
            BY <2>1, <2>4
        <3>1. write' = Idle0 /\ write'.at = "idle"
            BY <2>1, <3>0 DEF Idle0
        <3>2. slot'[connected'] = shown'
            BY <2>1
        <3> QED BY <3>1, <3>2 DEF WriteKnows
    <2> QED BY <2>2, <2>3, <2>4 DEF PageInv
<1>2. CASE (\E w \in Wallets : SignIn(w)) \/ SignOut \/ RefreshSession
    <2>1. UNCHANGED <<connected, slot, shown, write, sent, recorded, seen, crossed>>
        BY <1>2 DEF SignIn, SignOut, RefreshSession
    <2> QED BY <2>1 DEF PageInv, PageTypes, KeptUntilRecorded, WriteKnows
<1> QED BY <1>1, <1>2

\* What a page saw is stored for its account, and number 0 is no transaction.
LEMMA StoredWhenSeen ==
    ASSUME PageInv, ~crossed, NEW n \in seen, n \notin recorded,
           sent[n].wallet = connected
    PROVE  n # 0 /\ slot[connected] = n /\ shown = n
    BY DEF PageInv, PageTypes, KeptUntilRecorded, WriteKnows

LEMMA OrderKeeps ==
    ASSUME PageInv, NEW i \in Items, Order(i)
    PROVE  PageInv'
<1> DEFINE r == [at |-> "send", wallet |-> connected, item |-> i, tx |-> 0]
<1>1. /\ shown = 0 /\ write' = r
      /\ UNCHANGED <<connected, slot, shown, sent, recorded, seen, crossed>>
    BY DEF Order, Run, Quiet, browser
<1>2. r \in Writes /\ r.at = "send" /\ r.wallet = connected
    BY DEF Writes, PageInv, PageTypes
<1> HIDE DEF r
<1>3. PageTypes' /\ KeptUntilRecorded'
    BY <1>1, <1>2 DEF PageInv, PageTypes, KeptUntilRecorded
<1>4. crossed' \/ WriteKnows'
    BY <1>1, <1>2 DEF PageInv, WriteKnows
<1> QED BY <1>3, <1>4 DEF PageInv

LEMMA ResumeKeeps ==
    ASSUME PageInv, (\E i \in Items : Resume(i)) \/ Recover
    PROVE  PageInv'
<1>0. shown \in 1..Len(sent) /\ connected \in Wallets /\ Len(sent) \in Nat
    BY LenProperties DEF Resume, Recover, PageInv, PageTypes
<1>1. PICK item \in Items :
          write' = [at |-> "api", wallet |-> connected, item |-> item, tx |-> shown]
    <2>1. sent[shown] \in Sent
        BY <1>0 DEF PageInv, PageTypes
    <2>2. sent[shown].item \in Items
        BY <2>1 DEF Sent
    <2> QED BY <2>2 DEF Resume, Recover, Run
<1> DEFINE r == [at |-> "api", wallet |-> connected, item |-> item, tx |-> shown]
<1>2. r \in Writes /\ r.at = "api" /\ r.wallet = connected /\ r.tx = shown
    BY <1>0 DEF Writes
<1>3. write' = r
    BY <1>1
<1> HIDE DEF r
<1>4. UNCHANGED <<connected, shown, sent, recorded, seen, crossed>>
    BY DEF Resume, Recover, Quiet, browser, persistPending
<1>5. slot' = slot \/ slot' = [slot EXCEPT ![connected] = shown]
    BY DEF Resume, Recover, persistPending
<1>6. PageTypes'
    BY <1>0, <1>2, <1>3, <1>4, <1>5 DEF PageInv, PageTypes
<1>7. KeptUntilRecorded'
    <2> SUFFICES ASSUME ~crossed, NEW n \in seen, n \notin recorded
                 PROVE  slot'[sent[n].wallet] = n
        BY <1>4 DEF KeptUntilRecorded
    <2>1. slot[sent[n].wallet] = n /\ sent[n].wallet \in Wallets
        BY SeenSent DEF PageInv, KeptUntilRecorded
    <2>2. CASE sent[n].wallet = connected
        BY <1>5, <2>1, <2>2, StoredWhenSeen DEF PageInv, PageTypes
    <2>3. CASE sent[n].wallet # connected
        BY <1>5, <2>1, <2>3 DEF PageInv, PageTypes
    <2> QED BY <2>2, <2>3
<1>8. crossed' \/ WriteKnows'
    <2> SUFFICES ASSUME ~crossed PROVE WriteKnows'
        BY <1>4
    <2>1. slot[connected] \in {0, shown} /\ slot'[connected] \in {0, shown}
        BY <1>0, <1>5 DEF PageInv, PageTypes, WriteKnows
    <2> QED BY <1>0, <1>2, <1>3, <1>4, <2>1 DEF WriteKnows
<1> QED BY <1>6, <1>7, <1>8 DEF PageInv

LEMMA SendKeeps ==
    ASSUME PageInv, Send
    PROVE  PageInv'
<1> DEFINE s == [wallet |-> connected, item |-> write.item, status |-> "waiting"]
           r == [at |-> "receipt", wallet |-> write.wallet, item |-> write.item, tx |-> Len(sent')]
<1>1. /\ write.at = "send" /\ sent' = Append(sent, s) /\ write' = r
      /\ UNCHANGED <<connected, slot, recorded, seen, crossed>>
      /\ shown' \in {shown, Len(sent')}
    BY DEF Send, Run, Quiet, browser
<1>2. write \in Writes
    BY <1>1 DEF PageInv, PageTypes, Idle0
<1>3. s \in Sent /\ s.wallet = connected
    BY <1>2 DEF Sent, Writes, PageInv, PageTypes
<1> HIDE DEF s
<1>4. /\ sent' \in Seq(Sent) /\ Len(sent') = Len(sent) + 1 /\ Len(sent) \in Nat
      /\ \A n \in 1..Len(sent) : sent'[n] = sent[n]
      /\ sent'[Len(sent')] = s
    BY <1>1, <1>3, AppendProperties, LenProperties DEF PageInv, PageTypes
<1>5. /\ r \in Writes /\ r.at = "receipt" /\ r.wallet = write.wallet /\ r.tx = Len(sent')
    BY <1>2, <1>4 DEF Writes
<1> HIDE DEF r
<1>6. PageTypes'
    BY <1>1, <1>4, <1>5 DEF PageInv, PageTypes
<1>7. KeptUntilRecorded'
    BY <1>1, <1>4 DEF PageInv, PageTypes, KeptUntilRecorded
<1>8. crossed' \/ WriteKnows'
    <2> SUFFICES ASSUME ~crossed PROVE WriteKnows'
        BY <1>1
    <2>1. slot'[connected] = 0 /\ write.wallet = connected
        BY <1>1, <1>2 DEF PageInv, WriteKnows, Writes, Idle0
    <2> QED BY <1>1, <1>3, <1>4, <1>5, <2>1 DEF WriteKnows
<1> QED BY <1>6, <1>7, <1>8 DEF PageInv

\* The receipt arrives: the transaction is stored for the account that runs the
\* mutation, in a place that holds none.
LEMMA SeeConfirmedKeeps ==
    ASSUME PageInv, SeeConfirmed
    PROVE  PageInv'
<1>1. /\ write.at = "receipt" /\ write' = [write EXCEPT !.at = "api"]
      /\ shown' = write.tx /\ slot' = [slot EXCEPT ![write.wallet] = write.tx]
      /\ seen' = seen \cup {write.tx} /\ sent[write.tx].status = "mined"
      /\ UNCHANGED <<connected, sent, recorded, crossed>>
    BY DEF SeeConfirmed, persistPending, Quiet, browser
<1>2. write \in Writes /\ Len(sent) \in Nat
    BY <1>1, LenProperties DEF PageInv, PageTypes, Idle0
<1>3. write.tx \in 1..Len(sent)
    BY <1>1 DEF PageInv, PageTypes
<1>4. PageTypes'
    BY <1>1, <1>2, <1>3 DEF PageInv, PageTypes, Writes
<1>5. KeptUntilRecorded' /\ (crossed' \/ WriteKnows')
    <2> SUFFICES ASSUME ~crossed PROVE KeptUntilRecorded' /\ WriteKnows'
        BY <1>1 DEF KeptUntilRecorded
    <2>1. /\ write.wallet = connected /\ slot[connected] = 0
          /\ sent[write.tx].wallet = connected
        BY <1>1, <1>2 DEF PageInv, WriteKnows, Writes, Idle0
    <2>2. ASSUME NEW n \in seen', n \notin recorded PROVE slot'[sent[n].wallet] = n
        <3>1. CASE n = write.tx
            BY <1>1, <2>1, <3>1 DEF PageInv, PageTypes
        <3>2. CASE n # write.tx
            <4>1. n \in seen /\ sent[n].wallet \in Wallets
                BY <1>1, <2>2, <3>2, SeenSent DEF PageInv
            <4>2. sent[n].wallet # connected
                BY <2>1, <2>2, <4>1, StoredWhenSeen
            <4> QED BY <1>1, <2>1, <2>2, <4>1, <4>2 DEF PageInv, PageTypes, KeptUntilRecorded
        <3> QED BY <3>1, <3>2
    <2>3. KeptUntilRecorded'
        BY <1>1, <2>2 DEF KeptUntilRecorded
    <2>4. write'.at = "api" /\ write'.wallet = connected /\ write'.tx = write.tx
        BY <1>1, <1>2, <2>1 DEF Writes
    <2>5. slot'[connected] = write.tx
        BY <1>1, <2>1 DEF PageInv, PageTypes
    <2> QED BY <1>1, <1>3, <2>3, <2>4, <2>5 DEF WriteKnows
<1> QED BY <1>4, <1>5 DEF PageInv

\* The mutation ends without an answer, or the page is loaded again.
LEMMA EndKeeps ==
    ASSUME PageInv, Reverted \/ Unanswered \/ GiveUp \/ Reload
    PROVE  PageInv'
<1>1. /\ write' = Idle0 /\ recorded \subseteq recorded'
      /\ UNCHANGED <<connected, slot, sent, seen, crossed>>
    BY DEF Reverted, Unanswered, GiveUp, Reload, Keeps, Quiet, browser
<1>2. \/ shown' = shown \/ shown' = slot[connected]
      \/ shown' = 0 /\ write.at = "receipt"
    BY DEF Reverted, Unanswered, GiveUp, Reload, Keeps
<1>3. PageTypes'
    BY <1>1, <1>2, LenProperties DEF PageInv, PageTypes, Idle0
<1>4. KeptUntilRecorded'
    BY <1>1 DEF PageInv, KeptUntilRecorded
<1>5. crossed' \/ WriteKnows'
    BY <1>1, <1>2 DEF PageInv, WriteKnows, Idle0
<1> QED BY <1>3, <1>4, <1>5 DEF PageInv

LEMMA AnsweredKeeps ==
    ASSUME PageInv, Answered
    PROVE  PageInv'
<1>1. /\ write.at = "api" /\ recorded' = recorded \cup {write.tx}
      /\ shown' = 0 /\ slot' = [slot EXCEPT ![connected] = 0]
      /\ write' = Idle0
      /\ UNCHANGED <<connected, sent, seen, crossed>>
    BY DEF Answered, persistPending, Quiet, browser
<1>2. PageTypes'
    BY <1>1, LenProperties DEF PageInv, PageTypes, Idle0
<1>3. KeptUntilRecorded'
    <2> SUFFICES ASSUME ~crossed, NEW n \in seen, n \notin recorded, n # write.tx
                 PROVE  slot'[sent[n].wallet] = n
        BY <1>1 DEF KeptUntilRecorded
    <2>1. sent[n].wallet \in Wallets /\ slot[sent[n].wallet] = n
        BY SeenSent DEF PageInv, KeptUntilRecorded
    <2>2. sent[n].wallet # connected
        BY <1>1, StoredWhenSeen DEF PageInv, WriteKnows
    <2> QED BY <1>1, <2>1, <2>2 DEF PageInv, PageTypes
<1>4. crossed' \/ WriteKnows'
    BY <1>1 DEF PageInv, PageTypes, WriteKnows, Idle0
<1> QED BY <1>2, <1>3, <1>4 DEF PageInv

LEMMA MineSentKeeps ==
    ASSUME PageInv, NEW n \in DOMAIN sent, MineSent(n)
    PROVE  PageInv'
<1>1. UNCHANGED <<connected, slot, shown, write, recorded, seen, crossed>>
    BY DEF MineSent, Quiet, browser
<1>2. PICK status \in {"mined", "reverted"} : sent' = [sent EXCEPT ![n].status = status]
    BY DEF MineSent
<1>3. sent \in Seq(Sent) /\ n \in 1..Len(sent) /\ sent[n] \in Sent
    BY LenProperties DEF PageInv, PageTypes
<1> DEFINE s == [sent[n] EXCEPT !.status = status]
<1>4. s \in Sent /\ s.wallet = sent[n].wallet
    BY <1>3 DEF Sent
<1>5. sent' = [sent EXCEPT ![n] = s]
    BY <1>2
<1> HIDE DEF s
<1>6. /\ sent' \in Seq(Sent) /\ Len(sent') = Len(sent)
      /\ \A k \in 1..Len(sent) : sent'[k].wallet = sent[k].wallet
    <2>1. /\ [sent EXCEPT ![n] = s] \in Seq(Sent)
          /\ Len([sent EXCEPT ![n] = s]) = Len(sent)
          /\ \A k \in 1..Len(sent) : [sent EXCEPT ![n] = s][k] = IF k = n THEN s ELSE sent[k]
        BY <1>3, <1>4, ExceptSeq
    <2> QED BY <1>4, <1>5, <2>1
<1>7. PageTypes'
    BY <1>1, <1>6 DEF PageInv, PageTypes
<1>8. KeptUntilRecorded'
    BY <1>1, <1>6 DEF PageInv, PageTypes, KeptUntilRecorded
<1>9. crossed' \/ WriteKnows'
    BY <1>1, <1>6 DEF PageInv, PageTypes, WriteKnows
<1> QED BY <1>7, <1>8, <1>9 DEF PageInv

LEMMA PageStep == PageInv /\ [PageNext]_pageVars => PageInv'
<1> SUFFICES ASSUME PageInv, [PageNext]_pageVars PROVE PageInv'
    OBVIOUS
<1>1. CASE UNCHANGED pageVars
    BY <1>1 DEF pageVars, browser, PageInv, PageTypes, KeptUntilRecorded, WriteKnows
<1> QED
    BY <1>1, WalletKeeps, OrderKeeps, ResumeKeeps, SendKeeps, SeeConfirmedKeeps, EndKeeps,
       AnsweredKeeps, MineSentKeeps
       DEF PageNext

\* A transaction that a page saw confirmed is recorded, or stored in the browser
\* for the account that sent it, however often the page is reloaded and whatever
\* the API answers, until another account is selected while a mutation runs
\* (hooks/usePayment.ts, useBusiness.ts).
THEOREM SeenIsKept == PageSpec => []KeptUntilRecorded
<1>1. PageInv => KeptUntilRecorded
    BY DEF PageInv
<1> QED BY <1>1, PageStart, PageStep, PTL DEF PageSpec

(***************************************************************************)
(* What all services' proofs use of the requests and the chain.            *)
(***************************************************************************)

\* A request goes to its next step, and the others stay where they are.
LEMMA RequestGoes ==
    ASSUME DOMAIN req = Workers, NEW w \in Workers, NEW h, Goto(w, h)
    PROVE  /\ DOMAIN req' = Workers /\ req'[w] = h
           /\ \A v \in Workers \ {w} : req'[v] = req[v]
BY DEF Goto

\* After its audit entry or its death a request carries nothing.
LEMMA RequestEnds ==
    ASSUME DOMAIN req = Workers, RequestStep
    PROVE  /\ DOMAIN req' = Workers /\ UNCHANGED <<mined, deep>>
           /\ \A v \in Workers : req'[v] = req[v] \/ req'[v] = Idle
<1>1. PICK w \in Workers : Audit(w) \/ Fail(w)
    BY DEF RequestStep
<1>2. Goto(w, Idle) /\ UNCHANGED <<mined, deep>>
    BY <1>1 DEF Audit, Fail, Done
<1> QED BY <1>2, RequestGoes

\* A step of the chain moves no request.
LEMMA ChainLeavesRequests ==
    ASSUME ChainStep \/ \E tx : Mine(tx)
    PROVE  req' = req
BY DEF ChainStep, Confirm, Reorg, Mine

(***************************************************************************)
(* Treasury proposals (TreasuryRecords).                                   *)
(***************************************************************************)

TreasuryTypes ==
    /\ DOMAIN req = Workers
    /\ mined \in Seq(OnChainIds) /\ deep \in 0..Len(mined)
    /\ TreasuryTypeOK

\* A proposal that was approved once has its quorum and collects no more
\* approvals; one that carries an execution has been approved.
Settled(p) == Quorum(p, proposals[p].approvedBy) /\ proposals[p].status \notin {"NONE", "PENDING"}
ProposalMandated(p) ==
    /\ proposals[p].status \in {"APPROVED", "EXECUTED"} \/ proposals[p].executionTx # NoTx => Settled(p)
    /\ proposals[p].executionTx # NoTx => VerifyTreasuryExecution(proposals[p].executionTx)

\* What a request is about to write is as it read it.
Drafts == [at : {"propose"}, row : Proposals, required : Thresholds \cup {1}]
Executions == [at : {"verify execution", "record execution"}, row : Proposals, id : OnChainIds]
ExecutionHeld(w) ==
    /\ At(w, "propose") => req[w] \in Drafts
    /\ At(w, "verify execution") \/ At(w, "record execution") =>
          req[w] \in Executions /\ Settled(req[w].row)
    /\ At(w, "record execution") => VerifyTreasuryExecution(req[w].id)

TreasuryInv ==
    /\ TreasuryTypes
    /\ \A p \in Proposals : ProposalMandated(p)
    /\ \A w \in Workers : ExecutionHeld(w)

LEMMA TreasuryStart == RequestsInit /\ TreasuryInit => TreasuryInv
<1> SUFFICES ASSUME RequestsInit, TreasuryInit PROVE TreasuryInv
    OBVIOUS
<1>1. NoProposal \in [status : {"NONE", "PENDING", "APPROVED", "EXECUTED", "EXPIRED"},
                      required : Thresholds \cup {0, 1}, approvedBy : SUBSET Signers,
                      lapsed : BOOLEAN, executionTx : OnChainIds \cup {NoTx}]
    BY DEF NoProposal
<1>2. TreasuryTypes
    BY <1>1 DEF RequestsInit, TreasuryInit, TreasuryTypes, TreasuryTypeOK
<1>3. \A p \in Proposals : ProposalMandated(p)
    BY DEF TreasuryInit, ProposalMandated, NoProposal
<1>4. \A w \in Workers : ExecutionHeld(w)
    BY DEF RequestsInit, ExecutionHeld, At, Idle
<1> QED BY <1>2, <1>3, <1>4 DEF TreasuryInv

\* Proposals stay as they are while requests and the chain move on.
LEMMA TreasuryReads ==
    ASSUME TreasuryInv, UNCHANGED proposals, policy' \in Thresholds \cup {0},
           mined' \in Seq(OnChainIds), deep' \in 0..Len(mined'),
           Canonical \subseteq Canonical', \A i \in Canonical : mined'[i] = mined[i],
           DOMAIN req' = Workers,
           \A w \in Workers : req'[w] = req[w] \/ ExecutionHeld(w)'
    PROVE  TreasuryInv'
<1>1. TreasuryTypes'
    BY DEF TreasuryInv, TreasuryTypes, TreasuryTypeOK
<1>2. \A id : VerifyTreasuryExecution(id) => VerifyTreasuryExecution(id)'
    BY DEF VerifyTreasuryExecution
<1>3. \A p \in Proposals : ProposalMandated(p)'
    BY <1>2 DEF TreasuryInv, ProposalMandated, Settled, Quorum
<1>4. ASSUME NEW w \in Workers, req'[w] = req[w] PROVE ExecutionHeld(w)'
    BY <1>2, <1>4 DEF TreasuryInv, ExecutionHeld, At, Settled, Quorum
<1> QED BY <1>1, <1>3, <1>4 DEF TreasuryInv

\* A handler writes one row, and what other requests hold of it stays true.
LEMMA TreasuryWrites ==
    ASSUME TreasuryInv, UNCHANGED <<mined, deep, policy>>, NEW p \in Proposals, NEW row,
           row \in [status : {"NONE", "PENDING", "APPROVED", "EXECUTED", "EXPIRED"},
                    required : Thresholds \cup {0, 1}, approvedBy : SUBSET Signers,
                    lapsed : BOOLEAN, executionTx : OnChainIds \cup {NoTx}],
           proposals' = [proposals EXCEPT ![p] = row],
           ProposalMandated(p)', Settled(p) => Settled(p)',
           DOMAIN req' = Workers,
           \A w \in Workers : req'[w] = req[w] \/ req'[w] = Idle \/ req'[w].at = "audit"
    PROVE  TreasuryInv'
<1>1. \A q \in Proposals : q # p => proposals'[q] = proposals[q]
    BY DEF TreasuryInv, TreasuryTypes, TreasuryTypeOK
<1>2. TreasuryTypes'
    BY DEF TreasuryInv, TreasuryTypes, TreasuryTypeOK
<1>3. \A id : VerifyTreasuryExecution(id)' <=> VerifyTreasuryExecution(id)
    BY DEF VerifyTreasuryExecution, Canonical, Receipts
<1>4. ASSUME NEW q \in Proposals PROVE ProposalMandated(q)' /\ (Settled(q) => Settled(q)')
    BY <1>1, <1>3 DEF TreasuryInv, ProposalMandated, Settled, Quorum
<1>5. ASSUME NEW w \in Workers PROVE ExecutionHeld(w)'
    <2>1. CASE req'[w] = req[w]
        <3>1. ExecutionHeld(w) /\ (req[w] \in Executions => req[w].row \in Proposals)
            BY DEF TreasuryInv, Executions
        <3> QED BY <1>3, <1>4, <2>1, <3>1 DEF ExecutionHeld, At
    <2>2. CASE req'[w] = Idle \/ req'[w].at = "audit"
        <3>1. req'[w].at \in {"idle", "audit"}
            BY <2>2 DEF Idle
        <3> QED BY <3>1 DEF ExecutionHeld, At
    <2> QED BY <2>1, <2>2
<1> QED BY <1>2, <1>4, <1>5 DEF TreasuryInv

LEMMA TreasuryStep == TreasuryInv /\ [TreasuryNext]_<<shared, treasuryVars>> => TreasuryInv'
<1> SUFFICES ASSUME TreasuryInv, [TreasuryNext]_<<shared, treasuryVars>> PROVE TreasuryInv'
    OBVIOUS
<1> DEFINE Rows == [status : {"NONE", "PENDING", "APPROVED", "EXECUTED", "EXPIRED"},
                    required : Thresholds \cup {0, 1}, approvedBy : SUBSET Signers,
                    lapsed : BOOLEAN, executionTx : OnChainIds \cup {NoTx}]
<1>0. /\ DOMAIN req = Workers /\ policy \in Thresholds \cup {0}
      /\ mined \in Seq(OnChainIds) /\ deep \in 0..Len(mined)
      /\ proposals \in [Proposals -> Rows]
    BY DEF TreasuryInv, TreasuryTypes, TreasuryTypeOK
<1> HIDE DEF Rows
<1>1. CASE UNCHANGED <<shared, treasuryVars>> \/ UpdateSpendingPolicy
    BY <1>0, <1>1, TreasuryReads
       DEF shared, treasuryVars, UpdateSpendingPolicy, Canonical, Receipts
<1>2. CASE (\E id \in OnChainIds : TreasuryExecutes(id)) \/ (ChainStep /\ UNCHANGED treasuryVars)
    <2>1. (ChainStep \/ \E tx \in OnChainIds : Mine(tx)) /\ UNCHANGED treasuryVars
        BY <1>2 DEF TreasuryExecutes
    <2>2. /\ mined' \in Seq(OnChainIds) /\ deep' \in 0..Len(mined')
          /\ Canonical \subseteq Canonical' /\ \A i \in Canonical : mined'[i] = mined[i]
        BY <1>0, <2>1, ReceiptsKept
    <2>3. req' = req
        BY <2>1, ChainLeavesRequests
    <2> QED BY <1>0, <2>1, <2>2, <2>3, TreasuryReads DEF treasuryVars
<1>3. CASE RequestStep /\ UNCHANGED treasuryVars
    <2>1. /\ DOMAIN req' = Workers /\ UNCHANGED <<mined, deep>>
          /\ \A v \in Workers : req'[v] = req[v] \/ req'[v] = Idle
        BY <1>0, <1>3, RequestEnds
    <2>2. \A v \in Workers : req'[v] = Idle => ExecutionHeld(v)'
        BY DEF ExecutionHeld, At, Idle
    <2> QED BY <1>0, <1>3, <2>1, <2>2, TreasuryReads DEF treasuryVars, Canonical, Receipts
<1>4. ASSUME NEW p \in Proposals, Lapse(p) PROVE TreasuryInv'
    <2> DEFINE row == [proposals[p] EXCEPT !.lapsed = TRUE]
    <2>1. proposals' = [proposals EXCEPT ![p] = row] /\ UNCHANGED <<shared, policy>>
        BY <1>4 DEF Lapse
    <2>2. /\ row \in Rows /\ row.status = proposals[p].status /\ row.required = proposals[p].required
          /\ row.approvedBy = proposals[p].approvedBy /\ row.executionTx = proposals[p].executionTx
        BY <1>0 DEF Rows
    <2> HIDE DEF row
    <2>3. proposals'[p] = row
        BY <1>0, <2>1
    <2>4. ProposalMandated(p)' /\ (Settled(p) => Settled(p)')
        BY <2>1, <2>2, <2>3 DEF TreasuryInv, ProposalMandated, Settled, Quorum,
            VerifyTreasuryExecution, Canonical, Receipts, shared
    <2> QED BY <1>0, <2>1, <2>2, <2>4, TreasuryWrites DEF shared, Rows
<1>5. ASSUME NEW w \in Workers, NEW p \in Proposals, NEW s \in Signers, ApproveProposal(w, p, s)
      PROVE  TreasuryInv'
    <2> DEFINE old == proposals[p]
    <2>0. old \in Rows /\ UNCHANGED <<mined, deep, policy>> /\ ProposalMandated(p)
        BY <1>0, <1>5 DEF ApproveProposal, TreasuryInv
    <2>1. CASE /\ proposals' = [proposals EXCEPT ![p].status = "EXPIRED"] /\ UNCHANGED req
        <3> DEFINE row == [old EXCEPT !.status = "EXPIRED"]
        <3>1. proposals' = [proposals EXCEPT ![p] = row]
            BY <2>1
        <3>2. /\ row \in Rows /\ row.status = "EXPIRED" /\ row.required = old.required
              /\ row.approvedBy = old.approvedBy /\ row.executionTx = old.executionTx
            BY <2>0 DEF Rows
        <3> HIDE DEF row
        <3>3. proposals'[p] = row
            BY <1>0, <3>1
        <3>4. ProposalMandated(p)' /\ (Settled(p) => Settled(p)')
            BY <2>0, <3>2, <3>3 DEF ProposalMandated, Settled, Quorum,
                VerifyTreasuryExecution, Canonical, Receipts
        <3> QED BY <1>0, <2>0, <2>1, <3>1, <3>2, <3>4, TreasuryWrites DEF Rows
    <2>2. CASE /\ old.status = "PENDING"
               /\ proposals' = [proposals EXCEPT
                      ![p].approvedBy = old.approvedBy \cup {s},
                      ![p].status = IF Approved(p, old.approvedBy \cup {s}) THEN "APPROVED" ELSE "PENDING"]
               /\ Goto(w, [at |-> "audit",
                           entry |-> [event |-> "approved", row |-> p, by |-> s]])
        <3> DEFINE approvers == old.approvedBy \cup {s}
                   status == IF Approved(p, approvers) THEN "APPROVED" ELSE "PENDING"
                   row == [old EXCEPT !.approvedBy = approvers, !.status = status]
        <3>1. proposals' = [proposals EXCEPT ![p] = row]
            BY <1>0, <2>2
        <3>2. /\ row \in Rows /\ row.status = status /\ row.required = old.required
              /\ row.approvedBy = approvers /\ row.executionTx = old.executionTx
            BY <2>0 DEF Rows
        <3>3. status \in {"APPROVED", "PENDING"} /\ (status = "APPROVED" => Quorum(p, approvers))
            BY DEF Approved
        <3> HIDE DEF row, status, approvers
        <3>4. proposals'[p] = row /\ old.executionTx = NoTx /\ ~Settled(p)
            BY <1>0, <2>0, <2>2, <3>1 DEF ProposalMandated, Settled
        <3>5. ProposalMandated(p)'
            BY <2>0, <3>2, <3>3, <3>4 DEF ProposalMandated, Settled, Quorum
        <3>6. /\ DOMAIN req' = Workers
              /\ \A v \in Workers : req'[v] = req[v] \/ req'[v].at = "audit"
            BY <1>0, <2>2, RequestGoes
        <3> QED BY <1>0, <2>0, <3>1, <3>2, <3>4, <3>5, <3>6, TreasuryWrites DEF Rows
    <2> QED BY <1>5, <2>1, <2>2 DEF ApproveProposal
<1>6. ASSUME NEW w \in Workers, NEW p \in Proposals, CreateProposal(w, p) PROVE TreasuryInv'
    <2>1. PICK n \in {1} \cup ({policy} \ {0}) :
              Goto(w, [at |-> "propose", row |-> p, required |-> n])
        BY <1>6 DEF CreateProposal
    <2> DEFINE h == [at |-> "propose", row |-> p, required |-> n]
    <2>2. h \in Drafts /\ h.at = "propose"
        BY <1>0 DEF Drafts
    <2>3. Goto(w, h)
        BY <2>1
    <2> HIDE DEF h
    <2>4. UNCHANGED <<mined, deep, policy, proposals>>
        BY <1>6 DEF CreateProposal, treasuryVars
    <2>5. ExecutionHeld(w)'
        BY <1>0, <2>2, <2>3, RequestGoes DEF ExecutionHeld, At
    <2> QED BY <1>0, <2>3, <2>4, <2>5, RequestGoes, TreasuryReads DEF Canonical, Receipts
<1>7. ASSUME NEW w \in Workers, Propose(w) PROVE TreasuryInv'
    <2>1. PICK p \in Proposals, n \in Thresholds \cup {1} :
              req[w] = [at |-> "propose", row |-> p, required |-> n]
        BY <1>7 DEF Propose, At, TreasuryInv, ExecutionHeld, Drafts
    <2> DEFINE row == Draft(n)
    <2>2. row \in Rows /\ row.status = "PENDING" /\ row.executionTx = NoTx
        BY DEF Rows, Draft, NoProposal
    <2>3. /\ proposals' = [proposals EXCEPT ![p] = row] /\ proposals[p].status = "NONE"
          /\ Goto(w, [at |-> "audit", entry |-> [event |-> "created", row |-> p]])
          /\ UNCHANGED <<mined, deep, policy>>
        BY <1>7, <2>1 DEF Propose
    <2> HIDE DEF row
    <2>4. proposals'[p] = row /\ ~Settled(p)
        BY <1>0, <2>3 DEF Settled
    <2>5. ProposalMandated(p)'
        BY <2>2, <2>4 DEF ProposalMandated
    <2>6. /\ DOMAIN req' = Workers
          /\ \A v \in Workers : req'[v] = req[v] \/ req'[v].at = "audit"
        BY <1>0, <2>3, RequestGoes
    <2> QED BY <1>0, <2>2, <2>3, <2>4, <2>5, <2>6, TreasuryWrites DEF Rows
<1>8. ASSUME NEW w \in Workers, NEW p \in Proposals, NEW id \in OnChainIds, ExecuteProposal(w, p, id)
      PROVE  TreasuryInv'
    <2> DEFINE h == [at |-> "verify execution", row |-> p, id |-> id]
    <2>1. /\ Goto(w, h)
          /\ UNCHANGED <<mined, deep, policy, proposals>> /\ Settled(p)
        BY <1>8 DEF ExecuteProposal, treasuryVars, TreasuryInv, ProposalMandated
    <2>2. h \in Executions /\ h.at = "verify execution" /\ h.row = p
        BY DEF Executions
    <2> HIDE DEF h
    <2>3. ExecutionHeld(w)'
        BY <1>0, <2>1, <2>2, RequestGoes DEF ExecutionHeld, At, Settled, Quorum
    <2> QED BY <1>0, <2>1, <2>3, RequestGoes, TreasuryReads DEF Canonical, Receipts
<1>9. ASSUME NEW w \in Workers, VerifyExecution(w) PROVE TreasuryInv'
    <2>0. PICK h : h = [req[w] EXCEPT !.at = "record execution"]
        OBVIOUS
    <2>1. /\ Goto(w, h) /\ VerifyTreasuryExecution(req[w].id)
          /\ UNCHANGED <<mined, deep, policy, proposals>>
          /\ req[w] \in Executions /\ Settled(req[w].row)
        BY <1>9, <2>0 DEF VerifyExecution, treasuryVars, TreasuryInv, ExecutionHeld
    <2>2. h \in Executions /\ h.at = "record execution" /\ h.row = req[w].row /\ h.id = req[w].id
        BY <2>0, <2>1 DEF Executions
    <2>3. /\ req'[w] = h /\ DOMAIN req' = Workers
          /\ \A v \in Workers \ {w} : req'[v] = req[v]
        BY <1>0, <2>1, RequestGoes
    <2>4. Settled(h.row)' /\ VerifyTreasuryExecution(h.id)'
        BY <2>1, <2>2, <2>3 DEF Settled, Quorum, VerifyTreasuryExecution, Canonical, Receipts
    <2>5. ExecutionHeld(w)'
        BY <2>2, <2>3, <2>4 DEF ExecutionHeld, At
    <2> QED BY <1>0, <2>1, <2>3, <2>5, TreasuryReads DEF Canonical, Receipts
<1>10. ASSUME NEW w \in Workers, RecordExecution(w) PROVE TreasuryInv'
    <2>1. PICK p \in Proposals, id \in OnChainIds :
              /\ req[w].row = p /\ req[w].id = id
              /\ Settled(p) /\ VerifyTreasuryExecution(id)
        <3>1. /\ At(w, "record execution") /\ req[w] \in Executions /\ Settled(req[w].row)
              /\ VerifyTreasuryExecution(req[w].id)
            BY <1>10 DEF RecordExecution, TreasuryInv, ExecutionHeld
        <3> QED BY <3>1 DEF At, Executions
    <2> DEFINE row == [proposals[p] EXCEPT !.status = "EXECUTED", !.executionTx = id]
    <2>2. /\ proposals' = [proposals EXCEPT ![p] = row]
          /\ Goto(w, [at |-> "audit", entry |-> [event |-> "executed", row |-> p, id |-> id]])
          /\ UNCHANGED <<mined, deep, policy>>
        <3>1. req[w].row = p /\ req[w].id = id
            BY <2>1 DEF Settled
        <3>2. proposals' = [proposals EXCEPT ![p].status = "EXECUTED", ![p].executionTx = id]
            BY <1>10, <3>1 DEF RecordExecution
        <3>3. proposals' = [proposals EXCEPT ![p] = row]
            BY <1>0, <3>2
        <3>4. /\ Goto(w, [at |-> "audit", entry |-> [event |-> "executed", row |-> p, id |-> id]])
              /\ UNCHANGED <<mined, deep, policy>>
            BY <1>10, <3>1 DEF RecordExecution
        <3> QED BY <3>3, <3>4
    <2>3. /\ row \in Rows /\ row.status = "EXECUTED" /\ row.executionTx = id
          /\ row.required = proposals[p].required /\ row.approvedBy = proposals[p].approvedBy
        BY <1>0, <2>1 DEF Rows
    <2> HIDE DEF row
    <2>4. proposals'[p] = row
        BY <1>0, <2>2
    <2>5. ProposalMandated(p)' /\ Settled(p)'
        BY <2>1, <2>2, <2>3, <2>4 DEF ProposalMandated, Settled, Quorum,
            VerifyTreasuryExecution, Canonical, Receipts
    <2>6. /\ DOMAIN req' = Workers
          /\ \A v \in Workers : req'[v] = req[v] \/ req'[v].at = "audit"
        BY <1>0, <2>2, RequestGoes
    <2> QED BY <1>0, <2>2, <2>3, <2>5, <2>6, TreasuryWrites DEF Rows
<1> QED BY <1>1, <1>2, <1>3, <1>4, <1>5, <1>6, <1>7, <1>8, <1>9, <1>10 DEF TreasuryNext

LEMMA TreasuryProves == TreasuryInv => ExecutionsMandated
BY DEF TreasuryInv, ProposalMandated, ExecutionsMandated, Settled, VerifyTreasuryExecution


(***************************************************************************)
(* Appeals of an AI decision (AppealRecords).                              *)
(***************************************************************************)

AppealStatuses == {"NONE", "SUBMITTED", "UNDER_REVIEW"} \cup Resolutions
ModuleTxs == [event : {"filed", "review", "resolved", "overridden"},
              status : AppealStatuses, outcome : Outcomes]

\* The contract goes through filing, review and resolution in this order, each
\* once, and a decision is overridden once.
ModuleChain ==
    /\ \A i, j \in 1..Len(mined) : i < j => mined[i].event # mined[j].event
    /\ \A i, j \in 1..Len(mined) : i <= j =>
          /\ mined[i].event = "filed" => mined[j].status # "NONE"
          /\ mined[i].event = "review" => mined[j].status \notin {"NONE", "SUBMITTED"}
          /\ mined[i].event = "resolved" => mined[j].status \in Resolutions
    /\ \A j \in 1..Len(mined) :
          mined[j].status = "UNDER_REVIEW" \/ mined[j].event = "resolved" =>
              \E i \in 1..j : mined[i].event = "review"

AppealTypes ==
    /\ DOMAIN req = Workers
    /\ mined \in Seq(ModuleTxs) /\ deep \in 0..Len(mined)
    /\ AppealTypeOK

OnceResolved == ModuleReceipt("review") /\ ModuleReceipt("resolved")

\* What the rows and the requests that write them rest on.
AppealProved(a) ==
    appeals[a].resolved =>
        /\ OnceResolved
        /\ appeals[a].outcome = TheReceipt("resolved").outcome
        /\ appeals[a].status \in {TheReceipt("resolved").status, "UNDER_REVIEW"}
OverrideProved ==
    decision.overridden =>
        ModuleReceipt("overridden") /\ decision.outcome = TheReceipt("overridden").outcome

Filings == [at : {"create appeal"}, status : AppealStatuses]
Reviews == [at : {"store review"}, row : Appeals]
Rulings == [at : {"store resolution"}, row : Appeals, status : Resolutions, outcome : Outcomes]
AppealHeld(w) ==
    /\ At(w, "store override") => ModuleReceipt("overridden")
    /\ At(w, "create appeal") => req[w] \in Filings
    /\ At(w, "store review") => req[w] \in Reviews
    /\ At(w, "store resolution") =>
          req[w] \in Rulings /\ OnceResolved /\ ResolutionRead(req[w].status, req[w].outcome)

AppealInv ==
    /\ AppealTypes /\ ModuleChain
    /\ \A a \in Appeals : AppealProved(a)
    /\ OverrideProved
    /\ \A w \in Workers : AppealHeld(w)

LEMMA AppealStart == RequestsInit /\ AppealInit => AppealInv
<1> SUFFICES ASSUME RequestsInit, AppealInit PROVE AppealInv
    OBVIOUS
<1>1. AppealTypes
    BY DEF RequestsInit, AppealInit, AppealTypes, AppealTypeOK, NoAppeal, Outcomes
<1>2. ModuleChain
    BY DEF RequestsInit, ModuleChain
<1>3. OverrideProved /\ \A a \in Appeals : AppealProved(a)
    BY DEF AppealInit, AppealProved, OverrideProved, NoAppeal
<1>4. \A w \in Workers : AppealHeld(w)
    BY DEF RequestsInit, AppealHeld, At, Idle
<1> QED BY <1>1, <1>2, <1>3, <1>4 DEF AppealInv

----------------------------------------------------------------------------
(* The contract. *)

LEMMA OtherOutcome == \A o \in Outcomes : Other(o) \in Outcomes
BY DEF Outcomes, Other

LEMMA HeadTyped ==
    ASSUME mined \in Seq(ModuleTxs)
    PROVE  /\ ModuleHead.status \in AppealStatuses /\ ModuleHead.outcome \in Outcomes
           /\ Len(mined) \in Nat
           /\ mined = <<>> => ModuleHead.status = "NONE"
           /\ mined # <<>> => Len(mined) \in 1..Len(mined) /\ ModuleHead = mined[Len(mined)]
<1>1. Len(mined) \in Nat
    BY LenProperties
<1>2. CASE mined = <<>>
    BY <1>1, <1>2 DEF ModuleHead, AppealStatuses, Outcomes
<1>3. CASE mined # <<>>
    <2>1. Len(mined) \in 1..Len(mined)
        BY <1>1, <1>3
    <2>2. mined[Len(mined)] \in ModuleTxs
        BY <2>1
    <2> QED BY <1>1, <1>3, <2>1, <2>2 DEF ModuleHead, ModuleTxs
<1> QED BY <1>2, <1>3

\* A transaction follows the head as the contract allows it.
Allowed(tx) ==
    /\ tx \in ModuleTxs
    /\ \/ tx.event = "filed" /\ ModuleHead.status = "NONE" /\ tx.status = "SUBMITTED"
       \/ tx.event = "review" /\ ModuleHead.status = "SUBMITTED" /\ tx.status = "UNDER_REVIEW"
       \/ tx.event = "resolved" /\ ModuleHead.status = "UNDER_REVIEW" /\ tx.status \in Resolutions
       \/ tx.event = "overridden" /\ ~ModuleTx("overridden") /\ tx.status = ModuleHead.status

LEMMA ModuleEmits ==
    ASSUME mined \in Seq(ModuleTxs), ModuleStep
    PROVE  UNCHANGED appealVars /\ \E tx : Allowed(tx) /\ Mine(tx)
<1> DEFINE Tx(e, s, o) == [event |-> e, status |-> s, outcome |-> o]
<1>1. PICK e \in {"filed", "review", "resolved", "overridden"}, s \in AppealStatuses, o \in Outcomes :
          /\ Emit(e, s, o)
          /\ \/ e = "filed" /\ ModuleHead.status = "NONE" /\ s = "SUBMITTED"
             \/ e = "review" /\ ModuleHead.status = "SUBMITTED" /\ s = "UNDER_REVIEW"
             \/ e = "resolved" /\ ModuleHead.status = "UNDER_REVIEW" /\ s \in Resolutions
             \/ e = "overridden" /\ ~ModuleTx("overridden") /\ s = ModuleHead.status
    <2>1. CASE FileAppeal
        BY <2>1, HeadTyped DEF FileAppeal, AppealStatuses
    <2>2. CASE ReviewOnChain
        BY <2>2, HeadTyped DEF ReviewOnChain, AppealStatuses
    <2>3. ASSUME NEW status \in Resolutions, ResolveOnChain(status)
          PROVE  ModuleHead.status = "UNDER_REVIEW" /\ \E o \in Outcomes : Emit("resolved", status, o)
        BY <2>3, HeadTyped DEF ResolveOnChain
    <2>4. CASE OverrideOnChain
        BY <2>4, HeadTyped, OtherOutcome DEF OverrideOnChain
    <2>5. Resolutions \subseteq AppealStatuses
        BY DEF AppealStatuses
    <2> QED BY <2>1, <2>2, <2>3, <2>4, <2>5 DEF ModuleStep
<1>2. Tx(e, s, o) \in ModuleTxs /\ Tx(e, s, o).event = e /\ Tx(e, s, o).status = s
    BY DEF ModuleTxs
<1>3. Mine(Tx(e, s, o)) /\ UNCHANGED appealVars
    BY <1>1 DEF Emit
<1> HIDE DEF Tx
<1>4. Allowed(Tx(e, s, o))
    BY <1>1, <1>2 DEF Allowed
<1> QED BY <1>3, <1>4

LEMMA ModuleGrows ==
    ASSUME mined \in Seq(ModuleTxs), ModuleChain, NEW tx, Allowed(tx), Mine(tx)
    PROVE  ModuleChain'
<1>1. mined' = Append(mined, tx) /\ tx \in ModuleTxs
    BY DEF Mine, Allowed
<1> DEFINE n == Len(mined)
<1>2. /\ n \in Nat /\ Len(mined') = n + 1 /\ mined'[n + 1] = tx
      /\ \A i \in 1..n : mined'[i] = mined[i]
    BY <1>1, AppendProperties, LenProperties
<1>3. n # 0 => ModuleHead = mined[n] /\ n \in 1..n
    BY <1>2, HeadTyped
<1>4. n = 0 => ModuleHead.status = "NONE"
    BY <1>2, HeadTyped
<1> HIDE DEF n
<1>5. \A i \in 1..n :
          /\ mined[i].event = "filed" => ModuleHead.status # "NONE"
          /\ mined[i].event = "review" => ModuleHead.status \notin {"NONE", "SUBMITTED"}
          /\ mined[i].event = "resolved" => ModuleHead.status \in Resolutions
    BY <1>2, <1>3 DEF ModuleChain, n
<1>6. \A i \in 1..n : mined[i].event # tx.event
    <2>1. Resolutions \cap {"NONE", "SUBMITTED", "UNDER_REVIEW"} = {}
        BY DEF Resolutions
    <2> QED BY <1>5, <2>1 DEF Allowed, ModuleTx, Receipts, n
<1>7. tx.status = "UNDER_REVIEW" \/ tx.event = "resolved" =>
          tx.event = "review" \/ ModuleHead.status = "UNDER_REVIEW"
    BY DEF Allowed, Resolutions
<1>8. ModuleHead.status = "UNDER_REVIEW" => \E i \in 1..n : mined[i].event = "review"
    BY <1>2, <1>3, <1>4 DEF ModuleChain, n
<1>9. /\ tx.event = "filed" => tx.status # "NONE"
      /\ tx.event = "review" => tx.status \notin {"NONE", "SUBMITTED"}
      /\ tx.event = "resolved" => tx.status \in Resolutions
    BY DEF Allowed
<1>10. ASSUME NEW i \in 1..n
       PROVE  /\ mined[i].event = "filed" => tx.status # "NONE"
              /\ mined[i].event = "review" => tx.status \notin {"NONE", "SUBMITTED"}
              /\ mined[i].event = "resolved" => tx.status \in Resolutions
    <2>1. Resolutions \cap {"NONE", "SUBMITTED", "UNDER_REVIEW"} = {}
        BY DEF Resolutions
    <2> QED BY <1>5, <2>1 DEF Allowed
<1>11. ASSUME NEW i \in 1..(n + 1), NEW j \in 1..(n + 1), i < j
       PROVE mined'[i].event # mined'[j].event
    BY <1>2, <1>6, <1>11 DEF ModuleChain, n
<1>12. ASSUME NEW i \in 1..(n + 1), NEW j \in 1..(n + 1), i <= j
       PROVE  /\ mined'[i].event = "filed" => mined'[j].status # "NONE"
              /\ mined'[i].event = "review" => mined'[j].status \notin {"NONE", "SUBMITTED"}
              /\ mined'[i].event = "resolved" => mined'[j].status \in Resolutions
    <2>1. CASE j = n + 1 /\ i = n + 1
        BY <1>2, <1>9, <2>1
    <2>2. CASE j = n + 1 /\ i \in 1..n
        BY <1>2, <1>10, <2>2
    <2>3. CASE j \in 1..n
        BY <1>2, <1>12, <2>3 DEF ModuleChain, n
    <2> QED BY <1>2, <2>1, <2>2, <2>3
<1>13. ASSUME NEW j \in 1..(n + 1), mined'[j].status = "UNDER_REVIEW" \/ mined'[j].event = "resolved"
       PROVE  \E i \in 1..j : mined'[i].event = "review"
    <2>1. CASE j = n + 1
        BY <1>2, <1>7, <1>8, <1>13, <2>1
    <2>2. CASE j \in 1..n
        <3>1. PICK i \in 1..j : mined[i].event = "review"
            BY <1>2, <1>13, <2>2 DEF ModuleChain, n
        <3> QED BY <1>2, <2>2, <3>1
    <2> QED BY <1>2, <2>1, <2>2
<1> QED BY <1>2, <1>11, <1>12, <1>13 DEF ModuleChain

LEMMA ModuleReorganised ==
    ASSUME mined \in Seq(ModuleTxs), deep \in 0..Len(mined), ModuleChain, ChainStep
    PROVE  ModuleChain'
<1>0. Len(mined) \in Nat
    BY LenProperties
<1>1. CASE Confirm
    BY <1>1 DEF Confirm, ModuleChain
<1>2. CASE Reorg
    <2>1. PICK keep \in deep..(Len(mined) - 1) : mined' = SubSeq(mined, 1, keep)
        BY <1>2 DEF Reorg, DropUnconfirmed
    <2>2. Len(mined') = keep /\ keep \in 0..Len(mined) /\ \A i \in 1..keep : mined'[i] = mined[i]
        BY <1>0, <2>1, SubSeqProperties
    <2> HIDE DEF ModuleChain
    <2>3. ASSUME NEW i \in 1..keep
          PROVE i \in 1..Len(mined) /\ mined'[i] = mined[i] /\ \A k \in 1..i : k \in 1..keep
        BY <1>0, <2>2
    <2>4. \A i, j \in 1..keep : i < j => mined'[i].event # mined'[j].event
        BY <2>3 DEF ModuleChain
    <2>5. \A i, j \in 1..keep : i <= j =>
          /\ mined'[i].event = "filed" => mined'[j].status # "NONE"
          /\ mined'[i].event = "review" => mined'[j].status \notin {"NONE", "SUBMITTED"}
          /\ mined'[i].event = "resolved" => mined'[j].status \in Resolutions
        BY <2>3 DEF ModuleChain
    <2>6. ASSUME NEW j \in 1..keep, mined'[j].status = "UNDER_REVIEW" \/ mined'[j].event = "resolved"
          PROVE  \E i \in 1..j : mined'[i].event = "review"
        <3>1. PICK i \in 1..j : mined[i].event = "review"
            BY <2>3, <2>6 DEF ModuleChain
        <3> QED BY <2>3, <3>1
    <2> QED BY <2>2, <2>4, <2>5, <2>6 DEF ModuleChain
<1> QED BY <1>1, <1>2 DEF ChainStep

\* The receipt of an event is there for good, and is the only one.
LEMMA TheReceiptStays ==
    ASSUME mined' \in Seq(ModuleTxs), ModuleChain', Canonical \subseteq Canonical',
           \A i \in Canonical : mined'[i] = mined[i], NEW e, ModuleReceipt(e)
    PROVE  /\ ModuleReceipt(e)' /\ TheReceipt(e)' = TheReceipt(e)
<1> DEFINE c == CHOOSE i \in Canonical : mined[i].event = e
<1>1. c \in Canonical /\ mined[c].event = e
    BY DEF ModuleReceipt
<1>2. TheReceipt(e) = mined[c]
    BY DEF TheReceipt
<1>3. PICK k \in Canonical : k = c
    BY <1>1
<1> HIDE DEF c
<1>4. k \in Canonical' /\ mined'[k] = mined[k] /\ mined'[k].event = e
    BY <1>1, <1>3
<1>5. \A i \in Canonical' : mined'[i].event = e => i = k
    BY <1>4, LenProperties DEF ModuleChain, Canonical, Receipts
<1> DEFINE d == CHOOSE i \in Canonical' : mined'[i].event = e
<1>6. d \in Canonical' /\ mined'[d].event = e
    BY <1>4
<1>7. TheReceipt(e)' = mined'[d]
    BY DEF TheReceipt
<1> HIDE DEF d
<1>8. d = k
    BY <1>5, <1>6
<1> QED BY <1>2, <1>3, <1>4, <1>7, <1>8 DEF ModuleReceipt

\* No resolution without a review before it.
LEMMA ReviewedFirst ==
    ASSUME mined \in Seq(ModuleTxs), deep \in 0..Len(mined), ModuleChain, ModuleReceipt("resolved")
    PROVE  OnceResolved
<1>0. Len(mined) \in Nat
    BY LenProperties
<1>1. PICK j \in Canonical : mined[j].event = "resolved"
    BY DEF ModuleReceipt
<1>2. j \in 1..Len(mined) /\ j <= deep
    BY <1>1 DEF Canonical, Receipts
<1>3. PICK i \in 1..j : mined[i].event = "review"
    BY <1>1, <1>2 DEF ModuleChain
<1>4. i \in Canonical
    BY <1>0, <1>2, <1>3 DEF Canonical, Receipts
<1> QED BY <1>3, <1>4 DEF OnceResolved, ModuleReceipt

----------------------------------------------------------------------------
(* The steps.                                                              *)

\* Rows stay as they are while requests and the chain move on.
LEMMA AppealReads ==
    ASSUME AppealInv, UNCHANGED appealVars,
           mined' \in Seq(ModuleTxs), deep' \in 0..Len(mined'), ModuleChain',
           Canonical \subseteq Canonical', \A i \in Canonical : mined'[i] = mined[i],
           DOMAIN req' = Workers,
           \A w \in Workers : req'[w] = req[w] \/ AppealHeld(w)'
    PROVE  AppealInv'
<1>1. AppealTypes'
    BY DEF AppealInv, AppealTypes, AppealTypeOK, appealVars
<1>2. \A e : ModuleReceipt(e) => ModuleReceipt(e)' /\ TheReceipt(e)' = TheReceipt(e)
    BY TheReceiptStays
<1>3. \A a \in Appeals : AppealProved(a)'
    BY <1>2 DEF AppealInv, AppealProved, OnceResolved, appealVars
<1>4. OverrideProved'
    BY <1>2 DEF AppealInv, OverrideProved, appealVars
<1>5. ASSUME NEW w \in Workers, req'[w] = req[w] PROVE AppealHeld(w)'
    BY <1>2, <1>5 DEF AppealInv, AppealHeld, At, OnceResolved, ResolutionRead
<1> QED BY <1>1, <1>3, <1>4, <1>5 DEF AppealInv

\* A handler writes a row or the decision, and its request goes on.
LEMMA AppealWrites ==
    ASSUME AppealInv, UNCHANGED <<mined, deep>>, AppealTypeOK',
           \A a \in Appeals : AppealProved(a)', OverrideProved',
           DOMAIN req' = Workers,
           \A w \in Workers : req'[w] = req[w] \/ req'[w] = Idle \/ req'[w].at = "audit"
    PROVE  AppealInv'
<1>1. AppealTypes' /\ ModuleChain'
    BY DEF AppealInv, AppealTypes, ModuleChain
<1>2. \A e : ModuleReceipt(e)' = ModuleReceipt(e) /\ TheReceipt(e)' = TheReceipt(e)
    BY DEF ModuleReceipt, TheReceipt, Canonical, Receipts
<1>3. ASSUME NEW w \in Workers PROVE AppealHeld(w)'
    <2>1. CASE req'[w] = req[w]
        BY <1>2, <2>1 DEF AppealInv, AppealHeld, At, OnceResolved, ResolutionRead
    <2>2. CASE req'[w] = Idle \/ req'[w].at = "audit"
        <3>1. req'[w].at \in {"idle", "audit"}
            BY <2>2 DEF Idle
        <3> QED BY <3>1 DEF AppealHeld, At
    <2> QED BY <2>1, <2>2
<1> QED BY <1>1, <1>3 DEF AppealInv

LEMMA AppealStep == AppealInv /\ [AppealNext]_<<shared, appealVars>> => AppealInv'
<1> SUFFICES ASSUME AppealInv, [AppealNext]_<<shared, appealVars>> PROVE AppealInv'
    OBVIOUS
<1> DEFINE Rows == [status : AppealStatuses, reviewed : BOOLEAN, resolved : BOOLEAN,
                    outcome : Outcomes \cup {"NONE"}]
<1>0. /\ DOMAIN req = Workers /\ mined \in Seq(ModuleTxs) /\ deep \in 0..Len(mined)
      /\ ModuleChain /\ appeals \in [Appeals -> Rows]
      /\ decision \in [outcome : Outcomes, original : Outcomes \cup {"NONE"}, overridden : BOOLEAN]
    BY DEF AppealInv, AppealTypes, AppealTypeOK, AppealStatuses
<1>r. UNCHANGED <<mined, deep>> => /\ ModuleChain' /\ Canonical' = Canonical
                                   /\ \A i \in Canonical : mined'[i] = mined[i]
    BY <1>0 DEF ModuleChain, Canonical, Receipts
<1>s. ASSUME UNCHANGED <<mined, deep>>
      PROVE  \A e : ModuleReceipt(e)' = ModuleReceipt(e) /\ TheReceipt(e)' = TheReceipt(e)
    BY <1>s DEF ModuleReceipt, TheReceipt, Canonical, Receipts
<1>t. \A e : ModuleReceipt(e) => TheReceipt(e) \in ModuleTxs
    BY <1>0 DEF ModuleReceipt, TheReceipt, Canonical, Receipts
<1> HIDE DEF Rows
<1>1. CASE UNCHANGED <<shared, appealVars>>
    BY <1>0, <1>1, <1>r, AppealReads DEF shared
<1>2. CASE ModuleStep \/ (ChainStep /\ UNCHANGED appealVars)
    <2>1. (ChainStep \/ \E tx \in ModuleTxs : Mine(tx)) /\ UNCHANGED appealVars
        BY <1>0, <1>2, ModuleEmits DEF Allowed
    <2>2. /\ mined' \in Seq(ModuleTxs) /\ deep' \in 0..Len(mined')
          /\ Canonical \subseteq Canonical' /\ \A i \in Canonical : mined'[i] = mined[i]
        BY <1>0, <2>1, ReceiptsKept
    <2>3. ModuleChain'
        BY <1>0, <1>2, ModuleEmits, ModuleGrows, ModuleReorganised
    <2>4. req' = req
        BY <2>1, ChainLeavesRequests
    <2> QED BY <1>0, <2>1, <2>2, <2>3, <2>4, AppealReads
<1>3. CASE RequestStep /\ UNCHANGED appealVars
    <2>1. /\ DOMAIN req' = Workers /\ UNCHANGED <<mined, deep>>
          /\ \A v \in Workers : req'[v] = req[v] \/ req'[v] = Idle
        BY <1>0, <1>3, RequestEnds
    <2>2. \A v \in Workers : req'[v] = Idle => AppealHeld(v)'
        BY DEF AppealHeld, At, Idle
    <2> QED BY <1>0, <1>3, <1>r, <2>1, <2>2, AppealReads
<1>4. ASSUME NEW w \in Workers, OverrideDecision(w) PROVE AppealInv'
    <2> DEFINE h == [at |-> "store override"]
    <2>1. /\ Goto(w, h) /\ UNCHANGED <<mined, deep>> /\ UNCHANGED appealVars
          /\ ModuleReceipt("overridden")
        BY <1>4 DEF OverrideDecision, VerifyDecisionOverride
    <2>2. h.at = "store override"
        OBVIOUS
    <2> HIDE DEF h
    <2>3. AppealHeld(w)'
        BY <1>0, <1>s, <2>1, <2>2, RequestGoes DEF AppealHeld, At
    <2> QED BY <1>0, <1>r, <2>1, <2>3, RequestGoes, AppealReads
<1>5. ASSUME NEW w \in Workers, SubmitAppeal(w) PROVE AppealInv'
    <2> DEFINE h == [at |-> "create appeal", status |-> ModuleHead.status]
    <2>0. PICK k : k = h
        OBVIOUS
    <2>1. Goto(w, k) /\ UNCHANGED <<mined, deep>> /\ UNCHANGED appealVars
        BY <1>5, <2>0 DEF SubmitAppeal
    <2>2. k \in Filings /\ k.at = "create appeal"
        BY <1>0, <2>0, HeadTyped DEF Filings
    <2> HIDE DEF h
    <2>3. AppealHeld(w)'
        BY <1>0, <2>1, <2>2, RequestGoes DEF AppealHeld, At
    <2> QED BY <1>0, <1>r, <2>1, <2>3, RequestGoes, AppealReads
<1>6. ASSUME NEW w \in Workers, NEW a \in Appeals, StartAppealReview(w, a) PROVE AppealInv'
    <2> DEFINE h == [at |-> "store review", row |-> a]
    <2>1. Goto(w, h) /\ UNCHANGED <<mined, deep>> /\ UNCHANGED appealVars
        BY <1>6 DEF StartAppealReview
    <2>2. h \in Reviews /\ h.at = "store review"
        BY DEF Reviews
    <2> HIDE DEF h
    <2>3. AppealHeld(w)'
        BY <1>0, <2>1, <2>2, RequestGoes DEF AppealHeld, At
    <2> QED BY <1>0, <1>r, <2>1, <2>3, RequestGoes, AppealReads
<1>7. ASSUME NEW w \in Workers, NEW a \in Appeals, ResolveAppeal(w, a) PROVE AppealInv'
    <2>1. PICK status \in Resolutions, outcome \in Outcomes :
              /\ ResolutionRead(status, outcome)
              /\ Goto(w, [at |-> "store resolution", row |-> a, status |-> status,
                          outcome |-> outcome])
        BY <1>7 DEF ResolveAppeal
    <2> DEFINE h == [at |-> "store resolution", row |-> a, status |-> status, outcome |-> outcome]
    <2>2. Goto(w, h) /\ UNCHANGED <<mined, deep>> /\ UNCHANGED appealVars
        BY <1>7, <2>1 DEF ResolveAppeal
    <2>3. h \in Rulings /\ h.at = "store resolution" /\ h.status = status /\ h.outcome = outcome
        BY DEF Rulings
    <2>4. OnceResolved
        BY <1>0, <1>7, ReviewedFirst DEF ResolveAppeal, VerifyAppealResolution
    <2> HIDE DEF h
    <2>5. OnceResolved' /\ ResolutionRead(h.status, h.outcome)'
        BY <1>s, <2>1, <2>2, <2>3, <2>4 DEF OnceResolved, ResolutionRead
    <2>6. AppealHeld(w)'
        BY <1>0, <2>2, <2>3, <2>5, RequestGoes DEF AppealHeld, At
    <2> QED BY <1>0, <1>r, <2>2, <2>6, RequestGoes, AppealReads
<1>8. ASSUME NEW w \in Workers, StoreOverride(w) PROVE AppealInv'
    <2> DEFINE new == TheReceipt("overridden").outcome
    <2>1. ModuleReceipt("overridden") /\ new \in Outcomes
        BY <1>8, <1>t DEF StoreOverride, AppealInv, AppealHeld, ModuleTxs
    <2> DEFINE d == [outcome |-> new, original |-> Other(new), overridden |-> TRUE]
    <2>2. /\ decision' = d /\ UNCHANGED <<mined, deep, appeals>>
          /\ Goto(w, [at |-> "audit", entry |-> [event |-> "overridden"]])
        BY <1>8 DEF StoreOverride
    <2>3. /\ d \in [outcome : Outcomes, original : Outcomes \cup {"NONE"}, overridden : BOOLEAN]
          /\ d.outcome = new
        BY <2>1, OtherOutcome
    <2> HIDE DEF d
    <2>4. AppealTypeOK'
        BY <1>0, <2>2, <2>3 DEF AppealTypeOK, Rows, AppealStatuses
    <2>5. OverrideProved'
        BY <1>s, <2>1, <2>2, <2>3 DEF OverrideProved
    <2>6. \A a \in Appeals : AppealProved(a)'
        BY <1>s, <2>2 DEF AppealInv, AppealProved, OnceResolved
    <2> QED BY <1>0, <2>2, <2>4, <2>5, <2>6, RequestGoes, AppealWrites
<1>9. ASSUME NEW w \in Workers, NEW a \in Appeals, NEW row \in Rows,
             appeals' = [appeals EXCEPT ![a] = row], UNCHANGED <<mined, deep, decision>>,
             DOMAIN req' = Workers,
             \A v \in Workers : req'[v] = req[v] \/ req'[v] = Idle \/ req'[v].at = "audit",
             row.resolved =>
                 /\ OnceResolved
                 /\ row.outcome = TheReceipt("resolved").outcome
                 /\ row.status \in {TheReceipt("resolved").status, "UNDER_REVIEW"}
      PROVE  AppealInv'
    <2>1. AppealTypeOK'
        BY <1>0, <1>9 DEF AppealTypeOK, Rows, AppealStatuses
    <2>2. OverrideProved'
        BY <1>9, <1>s DEF AppealInv, OverrideProved
    <2>3. ASSUME NEW b \in Appeals PROVE AppealProved(b)'
        <3>1. appeals'[b] = IF b = a THEN row ELSE appeals[b]
            BY <1>0, <1>9
        <3> QED BY <1>9, <1>s, <3>1 DEF AppealInv, AppealProved, OnceResolved
    <2> QED BY <1>9, <2>1, <2>2, <2>3, AppealWrites
<1>10. ASSUME NEW w \in Workers, NEW a \in Appeals, InsertAppeal(w, a) PROVE AppealInv'
    <2>0. PICK row : row = [appeals[a] EXCEPT !.status = req[w].status]
        OBVIOUS
    <2>1. /\ appeals' = [appeals EXCEPT ![a] = row] /\ UNCHANGED <<mined, deep, decision>>
          /\ Goto(w, [at |-> "audit", entry |-> [event |-> "appealed", row |-> a]])
          /\ appeals[a].status = "NONE" /\ req[w] \in Filings
        BY <1>10, <2>0 DEF InsertAppeal, AppealInv, AppealHeld
    <2>2. row \in Rows /\ row.resolved = appeals[a].resolved
        BY <1>0, <2>0, <2>1 DEF Rows, Filings
    <2>3. ~appeals[a].resolved
        <3> SUFFICES ASSUME appeals[a].resolved PROVE FALSE
            OBVIOUS
        <3>1. TheReceipt("resolved").status = "NONE" /\ ModuleReceipt("resolved")
            BY <2>1 DEF AppealInv, AppealProved, OnceResolved
        <3>2. PICK j \in Canonical : mined[j].event = "resolved" /\ TheReceipt("resolved") = mined[j]
            BY <3>1 DEF ModuleReceipt, TheReceipt
        <3>3. mined[j].status \in Resolutions
            BY <1>0, <3>2, LenProperties DEF ModuleChain, Canonical, Receipts
        <3> QED BY <3>1, <3>2, <3>3 DEF Resolutions
    <2>4. /\ DOMAIN req' = Workers
          /\ \A v \in Workers : req'[v] = req[v] \/ req'[v].at = "audit"
        BY <1>0, <2>1, RequestGoes
    <2> QED BY <1>9, <2>1, <2>2, <2>3, <2>4
<1>11. ASSUME NEW w \in Workers, StoreReview(w) PROVE AppealInv'
    <2>0. PICK a \in Appeals : a = req[w].row
        BY <1>11 DEF StoreReview, AppealInv, AppealHeld, Reviews
    <2>1. PICK row : row = [appeals[a] EXCEPT !.status = "UNDER_REVIEW", !.reviewed = TRUE]
        OBVIOUS
    <2>2. /\ appeals' = [appeals EXCEPT ![a].status = "UNDER_REVIEW", ![a].reviewed = TRUE]
          /\ UNCHANGED <<mined, deep, decision>>
          /\ Goto(w, [at |-> "audit", entry |-> [event |-> "review", row |-> a]])
        BY <1>11, <2>0 DEF StoreReview
    <2>3. appeals' = [appeals EXCEPT ![a] = row]
        BY <1>0, <2>1, <2>2
    <2>4. /\ row \in Rows /\ row.resolved = appeals[a].resolved
          /\ row.outcome = appeals[a].outcome /\ row.status = "UNDER_REVIEW"
        BY <1>0, <2>1 DEF Rows, AppealStatuses
    <2>5. AppealProved(a)
        BY DEF AppealInv
    <2>6. /\ DOMAIN req' = Workers
          /\ \A v \in Workers : req'[v] = req[v] \/ req'[v].at = "audit"
        BY <1>0, <2>2, RequestGoes
    <2> QED BY <1>9, <2>2, <2>3, <2>4, <2>5, <2>6 DEF AppealProved
<1>12. ASSUME NEW w \in Workers, StoreResolution(w) PROVE AppealInv'
    <2>0. PICK h \in Rulings : h = req[w] /\ OnceResolved /\ ResolutionRead(h.status, h.outcome)
        BY <1>12 DEF StoreResolution, AppealInv, AppealHeld
    <2>1. PICK a \in Appeals, status \in Resolutions, outcome \in Outcomes :
              a = h.row /\ status = h.status /\ outcome = h.outcome
        BY DEF Rulings
    <2>2. PICK row : row = [appeals[a] EXCEPT !.status = status, !.resolved = TRUE, !.outcome = outcome]
        OBVIOUS
    <2>3. /\ appeals' = [appeals EXCEPT ![a].status = status, ![a].resolved = TRUE, ![a].outcome = outcome]
          /\ UNCHANGED <<mined, deep, decision>>
          /\ Goto(w, [at |-> "audit", entry |-> [event |-> status, row |-> a]])
        BY <1>12, <2>0, <2>1 DEF StoreResolution
    <2>4. appeals' = [appeals EXCEPT ![a] = row]
        BY <1>0, <2>2, <2>3
    <2>5. row \in Rows /\ row.outcome = outcome /\ row.status = status
        BY <1>0, <2>2 DEF Rows, AppealStatuses
    <2>6. /\ outcome = TheReceipt("resolved").outcome /\ status = TheReceipt("resolved").status
        BY <2>0, <2>1 DEF ResolutionRead
    <2>7. /\ DOMAIN req' = Workers
          /\ \A v \in Workers : req'[v] = req[v] \/ req'[v].at = "audit"
        BY <1>0, <2>3, RequestGoes
    <2> QED BY <1>9, <2>0, <2>3, <2>4, <2>5, <2>6, <2>7
<1> QED BY <1>1, <1>2, <1>3, <1>4, <1>5, <1>6, <1>7, <1>8, <1>10, <1>11, <1>12 DEF AppealNext

LEMMA AppealProves == AppealInv => OutcomesProved
BY DEF AppealInv, AppealProved, OverrideProved, OutcomesProved, OnceResolved


(***************************************************************************)
(* The financing of an invoice (InvoiceRecords).                           *)
(***************************************************************************)

Financings == [amount : 0..Face, status : {"NONE", "REPAID"} \cup Answers]
Funded(row) == row.status \in {"FUNDED", "REPAID"}
GatewayAnswers == [amount : 1..Face, status : Answers]

InvoiceTypes == DOMAIN req = Workers /\ InvoiceTypeOK

\* A row has the gateway's answer, which a settlement may have repaid.
FinancingProved(k) ==
    financings[k] # NoFinancing =>
        /\ gateway.answers[k] # NoFinancing
        /\ financings[k].amount = gateway.answers[k].amount
        /\ financings[k].status \in {gateway.answers[k].status, "REPAID"}
        /\ Funded(financings[k]) => gateway.answers[k].status = "FUNDED"

\* A request carries what the gateway answered its key, for good.
FinancingCalls == [at : {"call gateway"}, key : Keys, amount : 1..Face]
FinancingAnswers == [at : {"answered"}, key : Keys, amount : 1..Face, answer : GatewayAnswers]
FinancingHeld(w) ==
    /\ At(w, "call gateway") => req[w] \in FinancingCalls
    /\ At(w, "answered") => req[w] \in FinancingAnswers /\ gateway.answers[req[w].key] = req[w].answer

InvoiceInv ==
    /\ InvoiceTypes
    /\ invoice.financed = SumFunctionOnSet(advances, FundedKeys) /\ invoice.financed <= Face
    /\ \A k \in Keys : FinancingProved(k)
    /\ \A w \in Workers : FinancingHeld(w)

LEMMA NotFunded == ~Funded(NoFinancing) /\ NoFinancing \in Financings
BY InvoiceAssumption DEF Funded, NoFinancing, Financings

LEMMA InvoiceStart == RequestsInit /\ InvoiceInit => InvoiceInv
<1> SUFFICES ASSUME RequestsInit, InvoiceInit PROVE InvoiceInv
    OBVIOUS
<1>1. InvoiceTypes
    BY NotFunded
       DEF RequestsInit, InvoiceInit, InvoiceTypes, InvoiceTypeOK, FinancingRows, Financings
<1>2. FundedKeys = {}
    BY DEF InvoiceInit, FundedKeys, NoFinancing
<1>3. invoice.financed = SumFunctionOnSet(advances, FundedKeys) /\ invoice.financed <= Face
    BY <1>2, SumEmpty, InvoiceAssumption DEF InvoiceInit
<1>4. \A k \in Keys : FinancingProved(k)
    BY DEF InvoiceInit, FinancingProved
<1>5. \A w \in Workers : FinancingHeld(w)
    BY DEF RequestsInit, FinancingHeld, At, Idle
<1> QED BY <1>1, <1>3, <1>4, <1>5 DEF InvoiceInv

\* The rows and the amount financed stay, whatever the requests and the gateway
\* do that no row and no request rests on yet.
LEMMA InvoiceReads ==
    ASSUME InvoiceInv, UNCHANGED financings, invoice'.financed = invoice.financed, InvoiceTypeOK',
           DOMAIN req' = Workers,
           \A k \in Keys : gateway.answers[k] # NoFinancing => gateway'.answers[k] = gateway.answers[k],
           \A w \in Workers : req'[w] = req[w] \/ FinancingHeld(w)'
    PROVE  InvoiceInv'
<1>1. InvoiceTypes'
    BY DEF InvoiceTypes
<1>2. invoice'.financed = SumFunctionOnSet(advances', FundedKeys') /\ invoice'.financed <= Face
    <2>1. advances' = advances /\ FundedKeys' = FundedKeys
        BY DEF advances, FundedKeys
    <2> QED BY <2>1 DEF InvoiceInv
<1>3. \A k \in Keys : FinancingProved(k)'
    BY DEF InvoiceInv, FinancingProved, Funded
<1>4. ASSUME NEW w \in Workers, req'[w] = req[w] PROVE FinancingHeld(w)'
    <2>1. req[w] \in FinancingAnswers => req[w].key \in Keys /\ req[w].answer # NoFinancing
        BY DEF FinancingAnswers, GatewayAnswers, NoFinancing, Answers
    <2> QED BY <1>4, <2>1 DEF InvoiceInv, FinancingHeld, At
<1> QED BY <1>1, <1>2, <1>3, <1>4 DEF InvoiceInv

LEMMA InvoiceStep == InvoiceInv /\ [InvoiceNext]_<<shared, invoiceVars>> => InvoiceInv'
<1> SUFFICES ASSUME InvoiceInv, [InvoiceNext]_<<shared, invoiceVars>> PROVE InvoiceInv'
    OBVIOUS
<1> DEFINE Invoices == [status : {"NONE", "SUBMITTED", "FINANCED", "SETTLED", "DISPUTED"},
                        financed : Nat, settled : BOOLEAN, dispute : BOOLEAN]
<1>0. /\ DOMAIN req = Workers /\ invoice \in Invoices
      /\ financings \in [Keys -> Financings]
      /\ gateway \in [answers : [Keys -> Financings], paid : BOOLEAN]
    BY DEF InvoiceInv, InvoiceTypes, InvoiceTypeOK, FinancingRows, Financings
<1>t. /\ invoice' \in Invoices /\ financings' \in [Keys -> Financings]
      /\ gateway' \in [answers : [Keys -> Financings], paid : BOOLEAN]
      => InvoiceTypeOK'
    BY DEF InvoiceTypeOK, FinancingRows, Financings
<1>u. UNCHANGED invoiceVars => /\ UNCHANGED financings /\ invoice'.financed = invoice.financed
                               /\ InvoiceTypeOK' /\ UNCHANGED gateway
    BY DEF invoiceVars, InvoiceInv, InvoiceTypes, InvoiceTypeOK
<1>i. \A w \in Workers : req'[w] = Idle => FinancingHeld(w)'
    BY DEF FinancingHeld, At, Idle
<1>1. CASE UNCHANGED <<shared, invoiceVars>>
    BY <1>0, <1>1, <1>u, InvoiceReads DEF shared
<1>2. CASE (\E w \in Workers : Fail(w)) /\ UNCHANGED invoiceVars
    BY <1>0, <1>2, <1>u, <1>i, RequestGoes, InvoiceReads DEF Fail, Done
<1>3. CASE DebtorPays
    <2>1. gateway' = [gateway EXCEPT !.paid = TRUE] /\ UNCHANGED <<req, invoice, financings>>
        BY <1>3 DEF DebtorPays, shared
    <2>2. gateway'.answers = gateway.answers
        BY <1>0, <2>1
    <2>3. gateway' \in [answers : [Keys -> Financings], paid : BOOLEAN]
        BY <1>0, <2>1
    <2> QED BY <1>0, <1>t, <2>1, <2>2, <2>3, InvoiceReads
<1>4. ASSUME NEW w \in Workers, CreateInvoice(w) \/ RaiseDispute(w) PROVE InvoiceInv'
    <2>1. /\ UNCHANGED <<req, financings, gateway>>
          /\ \/ invoice' = [invoice EXCEPT !.status = "SUBMITTED"]
             \/ invoice' = [invoice EXCEPT !.status = "DISPUTED", !.dispute = TRUE]
        BY <1>4 DEF CreateInvoice, RaiseDispute, shared
    <2>2. invoice' \in Invoices /\ invoice'.financed = invoice.financed
        BY <1>0, <2>1
    <2> QED BY <1>0, <1>t, <2>1, <2>2, InvoiceReads
<1>5. ASSUME NEW w \in Workers, NEW k \in Keys, NEW amount \in 1..Face, RequestFinancing(w, k, amount)
      PROVE  InvoiceInv'
    <2> DEFINE h == [at |-> "call gateway", key |-> k, amount |-> amount]
    <2>1. Goto(w, h) /\ UNCHANGED invoiceVars
        BY <1>5 DEF RequestFinancing
    <2>2. h \in FinancingCalls /\ h.at = "call gateway"
        BY DEF FinancingCalls
    <2> HIDE DEF h
    <2>3. FinancingHeld(w)'
        BY <1>0, <2>1, <2>2, RequestGoes DEF FinancingHeld, At
    <2> QED BY <1>0, <1>u, <2>1, <2>3, RequestGoes, InvoiceReads
<1>6. ASSUME NEW w \in Workers, CallGateway(w) PROVE InvoiceInv'
    <2>1. PICK h \in FinancingCalls : h = req[w]
        BY <1>6 DEF CallGateway, InvoiceInv, FinancingHeld
    <2>2. PICK k \in Keys, amount \in 1..Face : k = h.key /\ amount = h.amount
        BY DEF FinancingCalls
    <2>3. PICK answer \in GatewayAnswers :
              /\ Answer(k, amount, answer)
              /\ gateway' = [gateway EXCEPT !.answers[k] = answer]
              /\ Goto(w, [at |-> "answered", key |-> k, amount |-> amount, answer |-> answer])
        BY <1>6, <2>1, <2>2 DEF CallGateway, GatewayAnswers
    <2>4. UNCHANGED <<invoice, financings>>
        BY <1>6 DEF CallGateway
    <2> DEFINE g == [at |-> "answered", key |-> k, amount |-> amount, answer |-> answer]
    <2>5. g \in FinancingAnswers /\ g.at = "answered" /\ g.key = k /\ g.answer = answer
        BY DEF FinancingAnswers
    <2>6. Goto(w, g)
        BY <2>3
    <2> HIDE DEF g
    <2>7. answer \in Financings
        BY InvoiceAssumption DEF GatewayAnswers, Financings
    <2>8. /\ gateway'.answers = [gateway.answers EXCEPT ![k] = answer]
          /\ gateway' \in [answers : [Keys -> Financings], paid : BOOLEAN]
        BY <1>0, <2>3, <2>7
    <2>9. /\ gateway'.answers[k] = answer
          /\ \A j \in Keys : j # k => gateway'.answers[j] = gateway.answers[j]
        BY <1>0, <2>8
    <2>10. gateway.answers[k] # NoFinancing => answer = gateway.answers[k]
        BY <2>3 DEF Answer
    <2>11. FinancingHeld(w)'
        <3>1. req'[w] = g
            BY <1>0, <2>6, RequestGoes
        <3> QED BY <2>5, <2>9, <3>1 DEF FinancingHeld, At
    <2> QED BY <1>0, <1>t, <2>4, <2>6, <2>8, <2>9, <2>10, <2>11, RequestGoes, InvoiceReads
<1>7. ASSUME NEW w \in Workers, StoreFinancing(w) PROVE InvoiceInv'
    <2>1. PICK h \in FinancingAnswers : h = req[w] /\ gateway.answers[h.key] = h.answer
        BY <1>7 DEF StoreFinancing, InvoiceInv, FinancingHeld
    <2>2. PICK k \in Keys, amount \in 1..Face, answer \in GatewayAnswers :
              k = h.key /\ amount = h.amount /\ answer = h.answer
        BY DEF FinancingAnswers
    <2>3. /\ answer.amount = amount /\ financings[k] = NoFinancing
          /\ amount <= Face - invoice.financed
        BY <1>7, <2>1, <2>2 DEF StoreFinancing, FinancingRefused, Outstanding
    <2>4. /\ financings' = [financings EXCEPT ![k] = answer]
          /\ Done(w) /\ UNCHANGED gateway
          /\ answer.status # "FUNDED" => invoice' = invoice
          /\ answer.status = "FUNDED" =>
                \E s \in {"FINANCED", "SUBMITTED"} :
                    invoice' = [invoice EXCEPT !.financed = invoice.financed + amount, !.status = s]
        BY <1>7, <2>1, <2>2 DEF StoreFinancing
    <2>5. /\ answer \in Financings /\ answer.status \in Answers /\ answer.amount \in 1..Face
          /\ invoice.financed \in Nat /\ Face \in Nat
        BY <1>0, InvoiceAssumption DEF GatewayAnswers, Financings
    <2>6. /\ financings' \in [Keys -> Financings] /\ financings'[k] = answer
          /\ \A j \in Keys : j # k => financings'[j] = financings[j]
        BY <1>0, <2>4, <2>5
    <2>7. /\ invoice' \in Invoices
          /\ invoice'.financed = invoice.financed + (IF answer.status = "FUNDED" THEN amount ELSE 0)
        <3>1. CASE answer.status = "FUNDED"
            <4>1. PICK s \in {"FINANCED", "SUBMITTED"} :
                      invoice' = [invoice EXCEPT !.financed = invoice.financed + amount, !.status = s]
                BY <2>4, <3>1
            <4>2. invoice.financed + amount \in Nat
                BY <2>5
            <4> QED BY <1>0, <3>1, <4>1, <4>2
        <3>2. CASE answer.status # "FUNDED"
            BY <1>0, <2>4, <2>5, <3>2
        <3> QED BY <3>1, <3>2
    <2> DEFINE A == FundedKeys
               B == FundedKeys'
               f == advances
               g == advances'
    <2>8. IsFiniteSet(A) /\ IsFiniteSet(B)
        BY InvoiceAssumption, FS_Subset DEF FundedKeys
    <2>9. A \ {k} = B \ {k} /\ k \notin A /\ (k \in B <=> answer.status = "FUNDED")
        <3>1. k \notin A
            BY <2>3, NotFunded DEF FundedKeys, Funded
        <3>2. k \in B <=> answer.status = "FUNDED"
            BY <2>5, <2>6 DEF FundedKeys, Answers
        <3> QED BY <2>6, <3>1, <3>2 DEF FundedKeys
    <2>10. \A j \in Keys : f[j] \in Int /\ g[j] \in Int /\ (j # k => f[j] = g[j])
        BY <1>0, <2>6 DEF advances, Financings
    <2>11. g[k] = amount
        BY <2>3, <2>6 DEF advances
    <2>12. A \subseteq Keys /\ B \subseteq Keys
        BY DEF FundedKeys
    <2> HIDE DEF A, B, f, g
    <2>13. SumFunctionOnSet(g, B) = SumFunctionOnSet(f, A)
              + (IF k \in B THEN g[k] ELSE 0) - (IF k \in A THEN f[k] ELSE 0)
        BY <2>8, <2>9, <2>10, <2>12, SumMove
    <2>14. SumFunctionOnSet(f, A) = invoice.financed
        BY DEF InvoiceInv, A, f
    <2>15. SumFunctionOnSet(g, B) = invoice'.financed /\ invoice'.financed <= Face
        BY <2>3, <2>5, <2>7, <2>9, <2>11, <2>13, <2>14 DEF InvoiceInv
    <2>16. ASSUME NEW j \in Keys PROVE FinancingProved(j)'
        <3>1. CASE j = k
            <4>1. gateway'.answers[k] = answer /\ answer # NoFinancing
                BY <2>1, <2>2, <2>4, <2>5 DEF NoFinancing, Answers
            <4>2. Funded(answer) => answer.status = "FUNDED"
                BY <2>5 DEF Funded, Answers
            <4> QED BY <2>6, <3>1, <4>1, <4>2 DEF FinancingProved
        <3>2. CASE j # k
            BY <2>4, <2>6, <3>2 DEF InvoiceInv, FinancingProved
        <3> QED BY <3>1, <3>2
    <2>17. ASSUME NEW v \in Workers PROVE FinancingHeld(v)'
        <3>1. req'[v] = Idle \/ req'[v] = req[v]
            BY <1>0, <2>4, RequestGoes DEF Done
        <3> QED BY <1>i, <2>4, <3>1 DEF InvoiceInv, FinancingHeld, At
    <2>18. InvoiceTypes'
        BY <1>0, <1>t, <2>4, <2>6, <2>7, RequestGoes DEF InvoiceTypes, Done
    <2> QED BY <2>15, <2>16, <2>17, <2>18 DEF InvoiceInv, B, g
<1>8. ASSUME NEW w \in Workers, SettleInvoice(w) PROVE InvoiceInv'
    <2> DEFINE h == [at |-> "store settlement"]
    <2>1. Goto(w, h) /\ UNCHANGED invoiceVars
        BY <1>8 DEF SettleInvoice
    <2>2. h.at = "store settlement"
        OBVIOUS
    <2> HIDE DEF h
    <2>3. FinancingHeld(w)'
        BY <1>0, <2>1, <2>2, RequestGoes DEF FinancingHeld, At
    <2> QED BY <1>0, <1>u, <2>1, <2>3, RequestGoes, InvoiceReads
<1>9. ASSUME NEW w \in Workers, StoreSettlement(w) PROVE InvoiceInv'
    <2>1. /\ invoice' = [invoice EXCEPT !.status = "SETTLED", !.settled = TRUE]
          /\ financings' = [k \in Keys |-> IF financings[k].status = "FUNDED"
                                           THEN [financings[k] EXCEPT !.status = "REPAID"]
                                           ELSE financings[k]]
          /\ Done(w) /\ UNCHANGED gateway
        BY <1>9 DEF StoreSettlement
    <2>2. invoice' \in Invoices /\ invoice'.financed = invoice.financed
        BY <1>0, <2>1
    <2>3. ASSUME NEW k \in Keys
          PROVE  /\ financings'[k] \in Financings /\ financings'[k].amount = financings[k].amount
                 /\ Funded(financings'[k]) <=> Funded(financings[k])
                 /\ \/ financings'[k] = financings[k]
                    \/ financings[k].status = "FUNDED" /\ financings'[k].status = "REPAID"
        <3>0. financings[k] \in Financings
            BY <1>0
        <3>1. CASE financings[k].status = "FUNDED"
            <4>1. financings'[k] = [financings[k] EXCEPT !.status = "REPAID"]
                BY <2>1, <3>1
            <4>2. /\ financings'[k] \in Financings /\ financings'[k].amount = financings[k].amount
                  /\ financings'[k].status = "REPAID"
                BY <3>0, <4>1 DEF Financings
            <4> QED BY <3>1, <4>2 DEF Funded
        <3>2. CASE financings[k].status # "FUNDED"
            <4>1. financings'[k] = financings[k]
                BY <2>1, <3>2
            <4> QED BY <3>0, <4>1
        <3> QED BY <3>1, <3>2
    <2>4. financings' \in [Keys -> Financings]
        BY <2>1, <2>3
    <2>5. advances' = advances /\ FundedKeys' = FundedKeys
        BY <2>3 DEF advances, FundedKeys, Funded
    <2>6. ASSUME NEW k \in Keys PROVE FinancingProved(k)'
        <3>1. CASE financings'[k] = financings[k]
            BY <2>1, <3>1 DEF InvoiceInv, FinancingProved
        <3>2. CASE financings[k].status = "FUNDED" /\ financings'[k].status = "REPAID"
            <4>1. financings[k] # NoFinancing /\ Funded(financings[k])
                BY <3>2 DEF NoFinancing, Funded
            <4> QED BY <2>1, <2>3, <3>2, <4>1 DEF InvoiceInv, FinancingProved
        <3> QED BY <2>3, <3>1, <3>2
    <2>7. ASSUME NEW v \in Workers PROVE FinancingHeld(v)'
        <3>1. req'[v] = Idle \/ req'[v] = req[v]
            BY <1>0, <2>1, RequestGoes DEF Done
        <3> QED BY <1>i, <2>1, <3>1 DEF InvoiceInv, FinancingHeld, At
    <2>8. InvoiceTypes'
        BY <1>0, <1>t, <2>1, <2>2, <2>4, RequestGoes DEF InvoiceTypes, Done
    <2> QED BY <2>2, <2>5, <2>6, <2>7, <2>8 DEF InvoiceInv
<1> QED BY <1>1, <1>2, <1>3, <1>4, <1>5, <1>6, <1>7, <1>8, <1>9 DEF InvoiceNext

LEMMA InvoiceProves == InvoiceInv => FinancingReconciles
<1> SUFFICES ASSUME InvoiceInv PROVE FinancingReconciles
    OBVIOUS
<1>1. ASSUME NEW k \in Keys, financings[k] # NoFinancing
      PROVE  /\ financings[k].amount = gateway.answers[k].amount
             /\ financings[k].status \in {gateway.answers[k].status, "REPAID"}
             /\ k \in FundedKeys => gateway.answers[k].status = "FUNDED"
    BY <1>1 DEF InvoiceInv, FinancingProved, FundedKeys, Funded
<1> QED BY <1>1 DEF InvoiceInv, FinancingReconciles


(***************************************************************************)
(* Payment streams (StreamRecords).                                        *)
(***************************************************************************)

LEMMA MaxTwo ==
    ASSUME NEW a \in Int, NEW b \in Int
    PROVE  Max({a, b}) = IF a >= b THEN a ELSE b
<1> DEFINE m == CHOOSE x \in {a, b} : \A y \in {a, b} : x >= y
<1>1. \E x \in {a, b} : \A y \in {a, b} : x >= y
    OBVIOUS
<1>2. m \in {a, b} /\ \A y \in {a, b} : m >= y
    BY <1>1
<1>3. Max({a, b}) = m
    BY DEF Max
<1> HIDE DEF m
<1> QED BY <1>2, <1>3

LEMMA MinTwo ==
    ASSUME NEW a \in Int, NEW b \in Int
    PROVE  Min({a, b}) = IF a <= b THEN a ELSE b
<1> DEFINE m == CHOOSE x \in {a, b} : \A y \in {a, b} : x <= y
<1>1. \E x \in {a, b} : \A y \in {a, b} : x <= y
    OBVIOUS
<1>2. m \in {a, b} /\ \A y \in {a, b} : m <= y
    BY <1>1
<1>3. Min({a, b}) = m
    BY DEF Min
<1> HIDE DEF m
<1> QED BY <1>2, <1>3

LEMMA RateGrows ==
    ASSUME NEW a \in Nat, NEW b \in Nat, a <= b
    PROVE  Rate * a \in Nat /\ Rate * b \in Nat /\ Rate * a <= Rate * b
<1>1. Rate \in Nat
    BY StreamAssumption
<1>2. PICK c \in Nat : b = a + c
    OBVIOUS
<1>3. Rate * b = Rate * a + Rate * c
    BY <1>1, <1>2
<1> QED BY <1>1, <1>3

LEMMA TotalNat == Total \in Nat /\ Duration \in Nat /\ Rate \in Nat /\ Horizon \in Nat
BY StreamAssumption DEF Total

\* The contract's amounts, in a state whose last pause is over or known.
StreamStates == [status : StreamStatus, withdrawn : 0..Total, pausedAt : {NoTime} \cup 0..Horizon,
                 paused : 0..Horizon, end : Nat, cliff : Nat]
StreamTxs == [events : SUBSET {"CREATED", "PAUSED", "RESUMED", "CANCELLED", "WITHDRAWN", "COMPLETED"},
              at : 0..Horizon, stream : StreamStates]

\* A transaction leaves a stream whose end is as late as its pauses were long,
\* and a paused stream was paused by it.
Left(tx) ==
    /\ tx.stream.status # "NONE" => tx.stream.end = Duration + tx.stream.paused
    /\ tx.stream.status = "PAUSED" => tx.stream.pausedAt = tx.at
    /\ tx.stream.paused <= tx.at
StreamChain ==
    /\ \A i \in 1..Len(mined) : Left(mined[i]) /\ mined[i].at <= clock
    /\ \A i, j \in 1..Len(mined) : i <= j => mined[i].at <= mined[j].at

StreamTypes ==
    /\ DOMAIN req = Workers
    /\ mined \in Seq(StreamTxs) /\ deep \in 0..Len(mined)
    /\ StreamTypeOK

LEMMA OnChainTyped ==
    ASSUME mined \in Seq(StreamTxs), clock \in 0..Horizon, StreamChain
    PROVE  /\ OnChain \in StreamStates /\ Len(mined) \in Nat
           /\ mined = <<>> => OnChain.status = "NONE" /\ OnChain.paused = 0
           /\ mined # <<>> => /\ Len(mined) \in 1..Len(mined)
                              /\ OnChain = mined[Len(mined)].stream /\ Left(mined[Len(mined)])
                              /\ mined[Len(mined)] \in StreamTxs /\ mined[Len(mined)].at <= clock
<1>1. Len(mined) \in Nat
    BY LenProperties
<1>2. CASE mined = <<>>
    BY <1>1, <1>2, TotalNat DEF OnChain, Never, StreamStates, StreamStatus
<1>3. CASE mined # <<>>
    <2>1. Len(mined) \in 1..Len(mined)
        BY <1>1, <1>3
    <2>2. mined[Len(mined)] \in StreamTxs
        BY <2>1
    <2>3. OnChain = mined[Len(mined)].stream /\ mined[Len(mined)].stream \in StreamStates
        BY <1>3, <2>2 DEF OnChain, StreamTxs
    <2> QED BY <1>1, <1>3, <2>1, <2>2, <2>3 DEF StreamChain
<1> QED BY <1>2, <1>3

\* What a stream has earned by the contract's own arithmetic.
LEMMA EarnedBounded ==
    ASSUME NEW s \in StreamStates, clock \in 0..Horizon
    PROVE  /\ Elapsed(s) \in Nat /\ Earned(s) \in 0..Total
           /\ Withdrawable(s) \in 0..Total
           /\ s.withdrawn + Withdrawable(s) \in 0..Total
<1>1. /\ s.pausedAt \in Int /\ s.paused \in Nat /\ s.end \in Nat /\ s.withdrawn \in 0..Total
      /\ clock \in Nat
    BY TotalNat DEF StreamStates, NoTime
<1>2. Elapsed(s) \in Nat
    BY <1>1, MaxTwo DEF Elapsed
<1>3. Rate * Elapsed(s) \in Nat
    BY <1>2, RateGrows
<1>4. Earned(s) \in 0..Total
    BY <1>3, TotalNat, MinTwo DEF Earned
<1>5. Withdrawable(s) = 0 \/ Withdrawable(s) = Max({0, Earned(s) - s.withdrawn})
    BY DEF Withdrawable
<1>6. Max({0, Earned(s) - s.withdrawn}) = IF 0 >= Earned(s) - s.withdrawn THEN 0 ELSE Earned(s) - s.withdrawn
    BY <1>1, <1>4, MaxTwo
<1> QED BY <1>1, <1>2, <1>4, <1>5, <1>6, TotalNat

\* A transaction of the contract leaves the stream as the invariant says.
LEMMA StreamTransacts ==
    ASSUME mined \in Seq(StreamTxs), clock \in 0..Horizon, StreamChain, StreamContractStep
    PROVE  /\ UNCHANGED streamVars
           /\ \E tx \in StreamTxs : Mine(tx) /\ Left(tx) /\ tx.at = clock
<1> DEFINE Tx(e, s) == [events |-> e, at |-> clock, stream |-> s]
           Events == {"CREATED", "PAUSED", "RESUMED", "CANCELLED", "WITHDRAWN", "COMPLETED"}
<1>0. /\ OnChain \in StreamStates
      /\ OnChain.status # "NONE" => OnChain.end = Duration + OnChain.paused
      /\ OnChain.status = "PAUSED" => OnChain.pausedAt <= clock /\ OnChain.paused <= OnChain.pausedAt
                                      /\ OnChain.pausedAt \in 0..Horizon
      /\ OnChain.paused <= clock
    <2>1. CASE mined = <<>>
        BY <2>1, OnChainTyped
    <2>2. CASE mined # <<>>
        <3>1. /\ OnChain \in StreamStates /\ OnChain = mined[Len(mined)].stream
              /\ Left(mined[Len(mined)])
              /\ mined[Len(mined)] \in StreamTxs /\ mined[Len(mined)].at <= clock
            BY <2>2, OnChainTyped
        <3>2. mined[Len(mined)].at \in 0..Horizon /\ OnChain.paused \in 0..Horizon
            BY <3>1 DEF StreamTxs, StreamStates
        <3> QED BY <3>1, <3>2, TotalNat DEF Left
    <2> QED BY <2>1, <2>2
<1>1. ASSUME NEW e \in SUBSET Events, NEW s \in StreamStates, Transact(e, s),
             s.status # "NONE" => s.end = Duration + s.paused,
             s.status = "PAUSED" => s.pausedAt = clock,
             s.paused <= clock
      PROVE  /\ UNCHANGED streamVars
             /\ \E tx \in StreamTxs : Mine(tx) /\ Left(tx) /\ tx.at = clock
    <2>1. Mine(Tx(e, s)) /\ UNCHANGED streamVars
        BY <1>1 DEF Transact
    <2>2. /\ Tx(e, s) \in StreamTxs /\ Tx(e, s).at = clock /\ Tx(e, s).stream = s
        BY DEF StreamTxs
    <2> HIDE DEF Tx
    <2>3. Left(Tx(e, s))
        BY <1>1, <2>2 DEF Left
    <2> QED BY <2>1, <2>2, <2>3
<1> HIDE DEF Tx
<1>n. clock \in Nat /\ OnChain.paused \in Nat
    BY <1>0, TotalNat DEF StreamStates
<1>2. CASE OpenStream
    <2>1. PICK s : s = [Never EXCEPT !.status = "ACTIVE", !.end = Duration, !.cliff = Cliff]
        OBVIOUS
    <2>a. s = [status |-> "ACTIVE", withdrawn |-> 0, pausedAt |-> NoTime, paused |-> 0,
               end |-> Duration, cliff |-> Cliff]
        BY <2>1 DEF Never
    <2>b. s \in StreamStates
        BY <2>a, TotalNat, StreamAssumption DEF StreamStates, StreamStatus
    <2>2. s \in StreamStates /\ s.end = Duration + s.paused /\ s.paused = 0 /\ s.status = "ACTIVE"
        BY <2>a, <2>b, TotalNat
    <2>3. Transact({"CREATED"}, s)
        BY <1>2, <2>1 DEF OpenStream
    <2> QED BY <1>1, <1>n, <2>2, <2>3
<1>3. CASE PauseOnChain
    <2>1. PICK s : s = [OnChain EXCEPT !.status = "PAUSED", !.pausedAt = clock]
        OBVIOUS
    <2>2. /\ s \in StreamStates /\ s.end = OnChain.end /\ s.paused = OnChain.paused /\ s.pausedAt = clock
        BY <1>0, <2>1 DEF StreamStates, StreamStatus
    <2>3. Transact({"PAUSED"}, s) /\ OnChain.status = "ACTIVE"
        BY <1>3, <2>1 DEF PauseOnChain
    <2> QED BY <1>0, <1>1, <2>2, <2>3
<1>4. CASE ResumeOnChain
    <2>0. PICK d : d = clock - OnChain.pausedAt
        OBVIOUS
    <2>1. PICK s : s = [OnChain EXCEPT !.status = "ACTIVE", !.pausedAt = NoTime,
                                       !.paused = @ + d, !.end = @ + d, !.cliff = @ + d]
        OBVIOUS
    <2>2. Transact({"RESUMED"}, s) /\ OnChain.status = "PAUSED"
        BY <1>4, <2>0, <2>1 DEF ResumeOnChain
    <2>a. /\ OnChain.pausedAt \in 0..Horizon /\ OnChain.pausedAt <= clock
          /\ OnChain.paused <= OnChain.pausedAt
        BY <1>0, <2>2
    <2>b. OnChain.paused \in 0..Horizon /\ OnChain.end \in Nat /\ OnChain.cliff \in Nat
        BY <1>0 DEF StreamStates
    <2>3. /\ d \in Nat /\ OnChain.paused + d \in 0..Horizon /\ OnChain.paused + d <= clock
          /\ OnChain.end + d \in Nat /\ OnChain.cliff + d \in Nat
        <3>1. PICK p \in Nat, q \in Nat, e \in Nat, c \in Nat :
                  p = OnChain.pausedAt /\ q = OnChain.paused /\ e = OnChain.end /\ c = OnChain.cliff
            BY <2>a, <2>b, TotalNat
        <3>2. d = clock - p /\ p <= clock /\ q <= p
            BY <2>0, <2>a, <3>1
        <3>3. d \in Nat /\ q + d \in 0..Horizon /\ q + d <= clock /\ e + d \in Nat /\ c + d \in Nat
            BY <3>2, TotalNat
        <3> QED BY <3>1, <3>3
    <2>c. OnChain.paused + d \in 0..Horizon /\ OnChain.end + d \in Nat /\ OnChain.cliff + d \in Nat
        BY <2>3
    <2>d. s = [status |-> "ACTIVE", withdrawn |-> OnChain.withdrawn, pausedAt |-> NoTime,
               paused |-> OnChain.paused + d, end |-> OnChain.end + d, cliff |-> OnChain.cliff + d]
        BY <1>0, <2>1 DEF StreamStates
    <2>e. OnChain.withdrawn \in 0..Total
        BY <1>0 DEF StreamStates
    <2>4. /\ s \in StreamStates /\ s.status = "ACTIVE" /\ s.end = OnChain.end + d
          /\ s.paused = OnChain.paused + d
        BY <2>c, <2>d, <2>e DEF StreamStates, StreamStatus
    <2>5. s.end = Duration + s.paused
        BY <1>0, <1>n, <2>2, <2>3, <2>4, TotalNat
    <2> QED BY <1>1, <2>2, <2>3, <2>4, <2>5
<1>5. CASE CancelOnChain
    <2>1. PICK s : s = [OnChain EXCEPT !.status = "CANCELLED"]
        OBVIOUS
    <2>2. s \in StreamStates /\ s.status = "CANCELLED" /\ s.end = OnChain.end /\ s.paused = OnChain.paused
        BY <1>0, <2>1 DEF StreamStates, StreamStatus
    <2>3. Transact({"CANCELLED"}, s) /\ OnChain.status # "NONE"
        BY <1>5, <2>1 DEF CancelOnChain
    <2> QED BY <1>0, <1>1, <2>2, <2>3
<1>6. CASE Withdraw
    <2>0. PICK taken : taken = OnChain.withdrawn + Withdrawable(OnChain)
        OBVIOUS
    <2>1. taken \in 0..Total
        BY <1>0, <2>0, EarnedBounded
    <2>2. ASSUME NEW s, NEW e \in SUBSET Events, Transact(e, s),
                 s = [OnChain EXCEPT !.withdrawn = taken]
                 \/ s = [OnChain EXCEPT !.withdrawn = taken, !.status = "COMPLETED"]
          PROVE  /\ UNCHANGED streamVars
                 /\ \E tx \in StreamTxs : Mine(tx) /\ Left(tx) /\ tx.at = clock
        <3>1. OnChain.status = "ACTIVE"
            BY <1>6 DEF Withdraw
        <3>2. /\ s \in StreamStates /\ s.status \in {"ACTIVE", "COMPLETED"}
              /\ s.end = OnChain.end /\ s.paused = OnChain.paused
            BY <1>0, <2>1, <2>2, <3>1 DEF StreamStates, StreamStatus
        <3> QED BY <1>0, <1>1, <2>2, <3>1, <3>2
    <2>3. \/ Transact({"WITHDRAWN", "COMPLETED"}, [OnChain EXCEPT !.withdrawn = taken, !.status = "COMPLETED"])
          \/ Transact({"WITHDRAWN"}, [OnChain EXCEPT !.withdrawn = taken])
        BY <1>6, <2>0 DEF Withdraw
    <2>4. {"WITHDRAWN", "COMPLETED"} \in SUBSET Events /\ {"WITHDRAWN"} \in SUBSET Events
        OBVIOUS
    <2> HIDE DEF Events
    <2> QED BY <2>2, <2>3, <2>4
<1> QED BY <1>2, <1>3, <1>4, <1>5, <1>6 DEF StreamContractStep

LEMMA StreamGrows ==
    ASSUME mined \in Seq(StreamTxs), clock \in 0..Horizon, StreamChain, UNCHANGED clock,
           NEW tx \in StreamTxs, Mine(tx), Left(tx), tx.at = clock
    PROVE  StreamChain'
<1>1. mined' = Append(mined, tx)
    BY DEF Mine
<1>2. /\ Len(mined) \in Nat /\ Len(mined') = Len(mined) + 1 /\ mined'[Len(mined) + 1] = tx
      /\ \A i \in 1..Len(mined) : mined'[i] = mined[i]
    BY <1>1, AppendProperties, LenProperties
<1>3. ASSUME NEW i \in 1..Len(mined')
      PROVE  Left(mined'[i]) /\ mined'[i].at <= clock
    <2>1. CASE i = Len(mined) + 1
        BY <1>2, <2>1, TotalNat DEF Left
    <2>2. CASE i \in 1..Len(mined)
        BY <1>2, <2>2 DEF StreamChain, Left
    <2> QED BY <1>2, <2>1, <2>2
<1>4. ASSUME NEW i \in 1..Len(mined'), NEW j \in 1..Len(mined'), i <= j
      PROVE  mined'[i].at <= mined'[j].at
    <2>1. CASE j = Len(mined) + 1
        BY <1>2, <1>3, <2>1
    <2>2. CASE j \in 1..Len(mined)
        BY <1>2, <1>4, <2>2 DEF StreamChain
    <2> QED BY <1>2, <2>1, <2>2
<1> QED BY <1>3, <1>4 DEF StreamChain, Left

LEMMA StreamReorganised ==
    ASSUME mined \in Seq(StreamTxs), deep \in 0..Len(mined), clock \in 0..Horizon, StreamChain,
           UNCHANGED clock, ChainStep
    PROVE  StreamChain'
<1>0. Len(mined) \in Nat
    BY LenProperties
<1>1. CASE Confirm
    BY <1>1 DEF Confirm, StreamChain, Left
<1>2. CASE Reorg
    <2>1. PICK keep \in deep..(Len(mined) - 1) : mined' = SubSeq(mined, 1, keep)
        BY <1>2 DEF Reorg, DropUnconfirmed
    <2>2. Len(mined') = keep /\ keep \in 0..Len(mined) /\ \A i \in 1..keep : mined'[i] = mined[i]
        BY <1>0, <2>1, SubSeqProperties
    <2>3. \A i \in 1..keep : i \in 1..Len(mined) /\ mined'[i] = mined[i]
        BY <1>0, <2>2
    <2> QED BY <2>2, <2>3 DEF StreamChain, Left
<1> QED BY <1>1, <1>2 DEF ChainStep


\* A row's status rests on confirmed receipts, and the time it was paused is
\* that of one; so do what a request is about to write.
Emitted(kind) == \E i \in Canonical : kind \in mined[i].events
StatusProved(status) ==
    /\ status # "NONE" => Emitted("CREATED")
    /\ status \notin {"NONE", "ACTIVE"} => Emitted(status)
PausedBefore(t) == \E i \in Canonical : mined[i].at = t
StreamRows == [status : StreamStatus, pausedAt : {NoTime} \cup 0..Horizon,
               paused : 0..Horizon, withdrawn : 0..Total]
Moves == [at : {"store transition"}, row : Streams, status : StreamStatus,
          pausedAt : {NoTime} \cup 0..Horizon, paused : 0..Horizon]
Withdrawals == [at : {"store withdrawal"}, row : Streams, withdrawn : 0..Total]
StreamHeld(w) ==
    /\ At(w, "store transition") =>
          /\ req[w] \in Moves /\ req[w].status # "NONE" /\ StatusProved(req[w].status)
          /\ req[w].status = "PAUSED" => PausedBefore(req[w].pausedAt)
    /\ At(w, "create stream") => Emitted("CREATED")
    /\ At(w, "store withdrawal") => req[w] \in Withdrawals
StreamShown(r) ==
    /\ StatusProved(streams[r].status)
    /\ streams[r].status = "PAUSED" => PausedBefore(streams[r].pausedAt)

StreamInv ==
    /\ StreamTypes /\ StreamChain
    /\ \A r \in Streams : StreamShown(r)
    /\ \A w \in Workers : StreamHeld(w)

LEMMA StreamStart == RequestsInit /\ StreamInit => StreamInv
<1> SUFFICES ASSUME RequestsInit, StreamInit PROVE StreamInv
    OBVIOUS
<1>1. NoStream \in StreamRows /\ 0 \in 0..Horizon
    BY TotalNat DEF NoStream, StreamRows, StreamStatus
<1>2. StreamTypes
    BY <1>1 DEF RequestsInit, StreamInit, StreamTypes, StreamTypeOK, StreamRows
<1>3. StreamChain
    BY DEF RequestsInit, StreamChain
<1>4. \A r \in Streams : StreamShown(r)
    BY DEF StreamInit, StreamShown, NoStream, StatusProved
<1>5. \A w \in Workers : StreamHeld(w)
    BY DEF RequestsInit, StreamHeld, At, Idle
<1> QED BY <1>2, <1>3, <1>4, <1>5 DEF StreamInv

\* Rows that stay, and one that is written, while receipts stay confirmed.
LEMMA StreamReads ==
    ASSUME StreamInv, streams' \in [Streams -> StreamRows], clock' \in 0..Horizon,
           \A r \in Streams : streams'[r] = streams[r] \/ StreamShown(r)',
           mined' \in Seq(StreamTxs), deep' \in 0..Len(mined'), StreamChain',
           Canonical \subseteq Canonical', \A i \in Canonical : mined'[i] = mined[i],
           DOMAIN req' = Workers,
           \A w \in Workers : req'[w] = req[w] \/ StreamHeld(w)'
    PROVE  StreamInv'
<1>1. StreamTypes'
    BY DEF StreamTypes, StreamTypeOK, StreamRows
<1>2. /\ \A t : PausedBefore(t) => PausedBefore(t)'
      /\ \A kind : Emitted(kind) => Emitted(kind)'
    BY DEF PausedBefore, Emitted
<1>s. \A status : StatusProved(status) => StatusProved(status)'
    BY <1>2 DEF StatusProved
<1>3. ASSUME NEW r \in Streams, streams'[r] = streams[r] PROVE StreamShown(r)'
    <2>1. PICK row : row = streams[r] /\ streams'[r] = row
        BY <1>3
    <2>2. StatusProved(row.status)' /\ (row.status = "PAUSED" => PausedBefore(row.pausedAt)')
        BY <1>2, <1>s, <2>1 DEF StreamInv, StreamShown
    <2> QED BY <2>1, <2>2 DEF StreamShown
<1>4. ASSUME NEW w \in Workers, req'[w] = req[w] PROVE StreamHeld(w)'
    <2>1. PICK h : h = req[w] /\ req'[w] = h
        BY <1>4
    <2>2. h.at = "store transition" =>
              /\ h \in Moves /\ h.status # "NONE" /\ StatusProved(h.status)'
              /\ h.status = "PAUSED" => PausedBefore(h.pausedAt)'
        BY <1>2, <1>s, <2>1 DEF StreamInv, StreamHeld, At
    <2>3. /\ h.at = "create stream" => Emitted("CREATED")'
          /\ h.at = "store withdrawal" => h \in Withdrawals
        BY <1>2, <2>1 DEF StreamInv, StreamHeld, At
    <2> QED BY <2>1, <2>2, <2>3 DEF StreamHeld, At
<1> QED BY <1>1, <1>3, <1>4 DEF StreamInv

LEMMA StreamStep == StreamInv /\ [StreamNext]_<<shared, streamVars>> => StreamInv'
<1> SUFFICES ASSUME StreamInv, [StreamNext]_<<shared, streamVars>> PROVE StreamInv'
    OBVIOUS
<1>0. /\ streams \in [Streams -> StreamRows] /\ clock \in 0..Horizon /\ DOMAIN req = Workers
      /\ mined \in Seq(StreamTxs) /\ deep \in 0..Len(mined) /\ StreamChain
    BY DEF StreamInv, StreamTypes, StreamTypeOK, StreamRows
<1>i. \A w \in Workers : req'[w] = Idle \/ req'[w].at = "audit" => StreamHeld(w)'
    <2> SUFFICES ASSUME NEW w \in Workers, req'[w] = Idle \/ req'[w].at = "audit"
                 PROVE  StreamHeld(w)'
        OBVIOUS
    <2>1. CASE req'[w] = Idle
        <3>1. req'[w].at = "idle"
            BY <2>1 DEF Idle
        <3> QED BY <3>1 DEF StreamHeld, At
    <2>2. CASE req'[w].at = "audit"
        BY <2>2 DEF StreamHeld, At
    <2> QED BY <2>1, <2>2
<1>c. UNCHANGED <<mined, deep, clock>> =>
          /\ mined' \in Seq(StreamTxs) /\ deep' \in 0..Len(mined') /\ StreamChain'
          /\ Canonical \subseteq Canonical' /\ \A i \in Canonical : mined'[i] = mined[i]
          /\ clock' \in 0..Horizon
    BY <1>0 DEF StreamChain, Left, Canonical, Receipts
<1>1. CASE UNCHANGED <<shared, streamVars>>
    BY <1>0, <1>1, <1>c, StreamReads DEF shared, streamVars
<1>2. CASE Tick
    <2>1. /\ UNCHANGED <<req, mined, deep, streams>> /\ clock' \in 0..Horizon /\ clock <= clock'
        BY <1>0, <1>2, TotalNat DEF Tick, shared
    <2>2. StreamChain'
        <3>1. ASSUME NEW i \in 1..Len(mined) PROVE Left(mined[i]) /\ mined[i].at <= clock'
            <4>1. mined[i] \in StreamTxs /\ mined[i].at <= clock /\ Left(mined[i])
                BY <1>0 DEF StreamChain
            <4>2. mined[i].at \in 0..Horizon
                BY <4>1 DEF StreamTxs
            <4> QED BY <1>0, <2>1, <4>1, <4>2, TotalNat
        <3> QED BY <1>0, <2>1, <3>1 DEF StreamChain, Left
    <2> QED BY <1>0, <2>1, <2>2, StreamReads DEF Canonical, Receipts
<1>3. CASE StreamContractStep
    <2>1. PICK tx \in StreamTxs : Mine(tx) /\ Left(tx) /\ tx.at = clock /\ UNCHANGED streamVars
        BY <1>0, <1>3, StreamTransacts
    <2>2. UNCHANGED <<req, clock, streams>>
        BY <2>1 DEF streamVars, Mine
    <2>3. StreamChain'
        BY <1>0, <2>1, <2>2, StreamGrows
    <2> QED BY <1>0, <2>1, <2>2, <2>3, ReceiptsKept, StreamReads
<1>4. CASE ChainStep /\ UNCHANGED streamVars
    <2>1. UNCHANGED <<req, clock, streams>>
        BY <1>4, ChainLeavesRequests DEF streamVars
    <2>2. StreamChain'
        BY <1>0, <1>4, <2>1, StreamReorganised
    <2> QED BY <1>0, <1>4, <2>1, <2>2, ReceiptsKept, StreamReads
<1>5. CASE RequestStep /\ UNCHANGED streamVars
    <2>1. /\ DOMAIN req' = Workers /\ UNCHANGED <<mined, deep>>
          /\ \A v \in Workers : req'[v] = req[v] \/ req'[v] = Idle
        BY <1>0, <1>5, RequestEnds
    <2> QED BY <1>0, <1>5, <1>c, <1>i, <2>1, StreamReads DEF streamVars
<1>6. ASSUME NEW w \in Workers, CreateStream(w) PROVE StreamInv'
    <2> DEFINE h == [at |-> "create stream"]
    <2>1. Goto(w, h) /\ UNCHANGED <<mined, deep, clock, streams>> /\ h.at = "create stream"
        BY <1>6 DEF CreateStream, streamVars
    <2> HIDE DEF h
    <2>2. Emitted("CREATED")'
        BY <1>6, <2>1
           DEF CreateStream, VerifyStreamCreation, StreamReceipts, Emitted, Canonical, Receipts
    <2>3. StreamHeld(w)'
        BY <1>0, <2>1, <2>2, RequestGoes DEF StreamHeld, At
    <2> QED BY <1>0, <1>c, <2>1, <2>3, RequestGoes, StreamReads
<1>7. ASSUME NEW w \in Workers, NEW r \in Streams, InsertStream(w, r) PROVE StreamInv'
    <2> DEFINE h == [at |-> "audit", entry |-> [event |-> "stream created", row |-> r]]
    <2>0. PICK row : row = [NoStream EXCEPT !.status = "ACTIVE"]
        OBVIOUS
    <2>1. /\ streams' = [streams EXCEPT ![r] = row] /\ Goto(w, h) /\ h.at = "audit"
          /\ UNCHANGED <<mined, deep, clock>>
        BY <1>7, <2>0 DEF InsertStream
    <2> HIDE DEF h
    <2>2. row \in StreamRows /\ row.status = "ACTIVE"
        BY <2>0, TotalNat DEF NoStream, StreamRows, StreamStatus
    <2>3. /\ streams' \in [Streams -> StreamRows] /\ streams'[r] = row
          /\ \A q \in Streams \ {r} : streams'[q] = streams[q]
        BY <1>0, <2>1, <2>2
    <2>a. Emitted("CREATED")'
        BY <1>7, <2>1 DEF InsertStream, StreamInv, StreamHeld, Emitted, Canonical, Receipts
    <2>b. StatusProved("ACTIVE")'
        BY <2>a DEF StatusProved
    <2>4. StreamShown(r)' /\ StreamHeld(w)'
        BY <1>0, <1>i, <2>1, <2>2, <2>3, <2>b, RequestGoes DEF StreamShown
    <2> QED BY <1>0, <1>c, <2>1, <2>3, <2>4, RequestGoes, StreamReads
<1>8. ASSUME NEW w \in Workers, NEW r \in Streams, NEW kind \in Transitions, ApplyTransition(w, r, kind)
      PROVE  StreamInv'
    <2>1. PICK i \in Canonical :
              /\ VerifyStreamTransition(i, kind)
              /\ Goto(w, [at |-> "store transition", row |-> r, status |-> OnChain.status,
                          pausedAt |-> IF kind = "PAUSED" THEN mined[i].at ELSE NoTime,
                          paused |-> OnChain.paused])
        BY <1>8 DEF ApplyTransition
    <2>2. PICK status, pausedAt, paused :
              /\ status = OnChain.status /\ paused = OnChain.paused
              /\ pausedAt = IF kind = "PAUSED" THEN mined[i].at ELSE NoTime
        OBVIOUS
    <2>3. mined[i] \in StreamTxs /\ OnChain \in StreamStates
        BY <1>0, OnChainTyped, LenProperties DEF Canonical, Receipts
    <2>4. /\ status \in StreamStatus /\ pausedAt \in {NoTime} \cup 0..Horizon /\ paused \in 0..Horizon
        BY <2>2, <2>3 DEF StreamTxs, StreamStates
    <2>5. status = "PAUSED" => PausedBefore(pausedAt)
        BY <2>1, <2>2 DEF VerifyStreamTransition, TerminalStatus, Transitions, PausedBefore
    <2>a. status = TerminalStatus(kind) /\ Emitted(kind) /\ streams[r].status # "NONE"
        BY <1>8, <2>1, <2>2 DEF ApplyTransition, VerifyStreamTransition, StreamReceipts, Emitted
    <2>b. Emitted("CREATED")
        BY <2>a DEF StreamInv, StreamShown, StatusProved
    <2>c. status # "NONE" /\ StatusProved(status)
        BY <2>a, <2>b DEF StatusProved, TerminalStatus, Transitions
    <2> DEFINE h == [at |-> "store transition", row |-> r, status |-> status,
                     pausedAt |-> pausedAt, paused |-> paused]
    <2>6. /\ h \in Moves /\ h.at = "store transition" /\ h.status = status /\ h.pausedAt = pausedAt
        BY <2>4 DEF Moves
    <2>7. Goto(w, h) /\ UNCHANGED <<mined, deep, clock, streams>>
        BY <1>8, <2>1, <2>2 DEF ApplyTransition, streamVars
    <2> HIDE DEF h
    <2>8. req'[w] = h
        BY <1>0, <2>7, RequestGoes
    <2>9. PausedBefore(pausedAt) => PausedBefore(pausedAt)'
        BY <2>7 DEF PausedBefore, Canonical, Receipts
    <2>d. StatusProved(status)'
        BY <2>7, <2>c DEF StatusProved, Emitted, Canonical, Receipts
    <2>10. StreamHeld(w)'
        BY <2>5, <2>6, <2>8, <2>9, <2>c, <2>d DEF StreamHeld, At
    <2> QED BY <1>0, <1>c, <2>7, <2>10, RequestGoes, StreamReads
<1>9. ASSUME NEW w \in Workers, StoreTransition(w) PROVE StreamInv'
    <2>1. PICK h \in Moves :
              /\ h = req[w] /\ StatusProved(h.status)
              /\ h.status = "PAUSED" => PausedBefore(h.pausedAt)
        BY <1>9 DEF StoreTransition, StreamInv, StreamHeld
    <2>2. PICK r \in Streams : r = h.row
        BY DEF Moves
    <2>3. PICK row : row = [streams[r] EXCEPT !.status = h.status, !.pausedAt = h.pausedAt,
                                              !.paused = h.paused]
        OBVIOUS
    <2> DEFINE g == [at |-> "audit", entry |-> [event |-> "stream moved", row |-> r]]
    <2>4. /\ streams' = [streams EXCEPT ![r].status = h.status, ![r].pausedAt = h.pausedAt,
                                        ![r].paused = h.paused]
          /\ Goto(w, g) /\ g.at = "audit" /\ UNCHANGED <<mined, deep, clock>>
        BY <1>9, <2>1, <2>2 DEF StoreTransition
    <2> HIDE DEF g
    <2>5. streams' = [streams EXCEPT ![r] = row]
        BY <1>0, <2>3, <2>4
    <2>6. row \in StreamRows /\ row.status = h.status /\ row.pausedAt = h.pausedAt
        BY <1>0, <2>3 DEF StreamRows, Moves
    <2>7. /\ streams' \in [Streams -> StreamRows] /\ streams'[r] = row
          /\ \A q \in Streams \ {r} : streams'[q] = streams[q]
        BY <1>0, <2>5, <2>6
    <2>8. \A t : PausedBefore(t) => PausedBefore(t)'
        BY <2>4 DEF PausedBefore, Canonical, Receipts
    <2>a. PICK t : t = h.pausedAt
        OBVIOUS
    <2>b. streams'[r].status = "PAUSED" => PausedBefore(t)'
        BY <2>1, <2>6, <2>7, <2>8, <2>a
    <2>c. streams'[r].pausedAt = t
        BY <2>6, <2>7, <2>a
    <2>d. PICK status : status = h.status
        OBVIOUS
    <2>e. StatusProved(status)'
        BY <2>1, <2>4, <2>d DEF StatusProved, Emitted, Canonical, Receipts
    <2>f. streams'[r].status = status
        BY <2>6, <2>7, <2>d
    <2>g. StreamShown(r)'
        BY <2>b, <2>c, <2>e, <2>f DEF StreamShown
    <2>9. StreamShown(r)' /\ StreamHeld(w)'
        BY <1>0, <1>i, <2>4, <2>g, RequestGoes
    <2> QED BY <1>0, <1>c, <2>4, <2>7, <2>9, RequestGoes, StreamReads
<1>10. ASSUME NEW w \in Workers, NEW r \in Streams, RecordWithdrawal(w, r) PROVE StreamInv'
    <2> DEFINE h == [at |-> "store withdrawal", row |-> r, withdrawn |-> OnChain.withdrawn]
    <2>1. Goto(w, h) /\ UNCHANGED <<mined, deep, clock, streams>>
        BY <1>10 DEF RecordWithdrawal, streamVars
    <2>2. OnChain.withdrawn \in 0..Total
        BY <1>0, OnChainTyped DEF StreamStates
    <2>3. h \in Withdrawals /\ h.at = "store withdrawal"
        BY <2>2 DEF Withdrawals
    <2> HIDE DEF h
    <2>4. StreamHeld(w)'
        BY <1>0, <2>1, <2>3, RequestGoes DEF StreamHeld, At
    <2> QED BY <1>0, <1>c, <2>1, <2>4, RequestGoes, StreamReads
<1>11. ASSUME NEW w \in Workers, StoreWithdrawal(w) PROVE StreamInv'
    <2>1. PICK h \in Withdrawals : h = req[w]
        BY <1>11 DEF StoreWithdrawal, StreamInv, StreamHeld
    <2>2. PICK r \in Streams : r = h.row
        BY DEF Withdrawals
    <2>3. PICK row : row = [streams[r] EXCEPT !.withdrawn = h.withdrawn]
        OBVIOUS
    <2> DEFINE g == [at |-> "audit", entry |-> [event |-> "stream withdrawn", row |-> r]]
    <2>4. /\ streams' = [streams EXCEPT ![r].withdrawn = h.withdrawn]
          /\ Goto(w, g) /\ g.at = "audit" /\ UNCHANGED <<mined, deep, clock>>
        BY <1>11, <2>1, <2>2 DEF StoreWithdrawal
    <2> HIDE DEF g
    <2>5. streams' = [streams EXCEPT ![r] = row]
        BY <1>0, <2>3, <2>4
    <2>6. /\ row \in StreamRows /\ row.status = streams[r].status
          /\ row.pausedAt = streams[r].pausedAt
        BY <1>0, <2>3 DEF StreamRows, Withdrawals
    <2>7. /\ streams' \in [Streams -> StreamRows] /\ streams'[r] = row
          /\ \A q \in Streams \ {r} : streams'[q] = streams[q]
        BY <1>0, <2>5, <2>6
    <2>8. \A t : PausedBefore(t) => PausedBefore(t)'
        BY <2>4 DEF PausedBefore, Canonical, Receipts
    <2>a. PICK t, status : t = streams[r].pausedAt /\ status = streams[r].status
        OBVIOUS
    <2>b. StatusProved(status)'
        BY <2>4, <2>a DEF StreamInv, StreamShown, StatusProved, Emitted, Canonical, Receipts
    <2>c. status = "PAUSED" => PausedBefore(t)'
        BY <2>8, <2>a DEF StreamInv, StreamShown
    <2>d. streams'[r].status = status /\ streams'[r].pausedAt = t
        BY <2>6, <2>7, <2>a
    <2>9. StreamShown(r)' /\ StreamHeld(w)'
        BY <1>0, <1>i, <2>4, <2>b, <2>c, <2>d, RequestGoes DEF StreamShown
    <2> QED BY <1>0, <1>c, <2>4, <2>7, <2>9, RequestGoes, StreamReads
<1> QED BY <1>1, <1>2, <1>3, <1>4, <1>5, <1>6, <1>7, <1>8, <1>9, <1>10, <1>11 DEF StreamNext

LEMMA StreamProves == StreamInv => NeverOverstated
<1> SUFFICES ASSUME StreamInv, NEW r \in Streams, InStep(streams[r])
             PROVE  /\ CalculateBalance(streams[r]).streamed <= Earned(OnChain)
                    /\ streams[r].withdrawn = OnChain.withdrawn /\ clock >= OnChain.cliff =>
                          CalculateBalance(streams[r]).withdrawable <= Withdrawable(OnChain)
    BY DEF NeverOverstated
<1>0. /\ streams[r] \in StreamRows /\ clock \in 0..Horizon
      /\ mined \in Seq(StreamTxs) /\ deep \in 0..Len(mined) /\ StreamChain
    BY DEF StreamInv, StreamTypes, StreamTypeOK, StreamRows
<1>1. /\ mined # <<>> /\ OnChain \in StreamStates /\ Len(mined) \in 1..Len(mined)
      /\ OnChain = mined[Len(mined)].stream /\ Left(mined[Len(mined)])
      /\ mined[Len(mined)] \in StreamTxs
    BY <1>0, OnChainTyped DEF InStep
<1>2. PICK status, q, e, p, at, wd :
          /\ status = OnChain.status /\ q = OnChain.paused /\ e = OnChain.end /\ p = OnChain.pausedAt
          /\ at = streams[r].pausedAt /\ wd = streams[r].withdrawn
    OBVIOUS
<1>3. /\ status \in {"ACTIVE", "PAUSED"} /\ streams[r].status = status /\ streams[r].paused = q
    BY <1>2 DEF InStep
<1>4. /\ q \in Nat /\ e \in Nat /\ e = Duration + q /\ clock \in Nat /\ wd \in Nat
      /\ at \in Int /\ p \in Int /\ Duration \in Nat /\ Rate \in Nat /\ Total \in Nat
    BY <1>0, <1>1, <1>2, <1>3, TotalNat DEF StreamStates, StreamRows, Left, NoTime
<1>5. status = "PAUSED" => at # NoTime /\ at <= p
    <2> SUFFICES ASSUME status = "PAUSED" PROVE at # NoTime /\ at <= p
        OBVIOUS
    <2>1. PICK i \in Canonical : mined[i].at = at
        BY <1>2, <1>3 DEF StreamInv, StreamShown, PausedBefore
    <2>2. i \in 1..Len(mined) /\ i <= Len(mined) /\ mined[i] \in StreamTxs
        BY <1>0, LenProperties DEF Canonical, Receipts
    <2>3. mined[i].at <= mined[Len(mined)].at
        BY <1>0, <1>1, <2>2 DEF StreamChain
    <2>4. p = mined[Len(mined)].at
        BY <1>1, <1>2 DEF Left
    <2>5. at \in 0..Horizon
        BY <2>1, <2>2 DEF StreamTxs
    <2> QED BY <2>1, <2>3, <2>4, <2>5, TotalNat DEF NoTime
<1>6. PICK now : now = IF status = "PAUSED" THEN p ELSE clock
    OBVIOUS
<1>7. now \in Int /\ EffectiveTime(streams[r]) \in Int /\ EffectiveTime(streams[r]) <= now
    <2>1. CASE status = "PAUSED"
        BY <1>2, <1>3, <1>4, <1>5, <1>6, <2>1 DEF EffectiveTime
    <2>2. CASE status = "ACTIVE"
        <3>1. EffectiveTime(streams[r]) = Min({clock, Duration}) /\ now = clock
            BY <1>3, <1>6, <2>2 DEF EffectiveTime
        <3>2. Min({clock, Duration}) = IF clock <= Duration THEN clock ELSE Duration
            BY <1>4, MinTwo
        <3> QED BY <1>4, <3>1, <3>2
    <2> QED BY <1>3, <2>1, <2>2
<1>8. PICK far : far = Elapsed(OnChain)
    OBVIOUS
<1>9. far = IF 0 >= now - q THEN 0 ELSE now - q
    BY <1>2, <1>4, <1>6, <1>7, <1>8, MaxTwo DEF Elapsed
<1>10. PICK time, seconds : time = EffectiveTime(streams[r]) /\ seconds = ElapsedSeconds(streams[r])
    OBVIOUS
<1>11. seconds \in Nat /\ far \in Nat /\ seconds <= far
    <2>1. PICK all : all = TotalSeconds(streams[r])
        OBVIOUS
    <2>2. all \in Int
        BY <1>2, <1>3, <1>4, <2>1, MaxTwo DEF TotalSeconds
    <2>3. time \in Int /\ time - q \in Int /\ time <= now
        BY <1>4, <1>7, <1>10
    <2>4. PICK least : least = Min({all, time - q})
        OBVIOUS
    <2>5. least \in Int /\ least <= time - q
        BY <2>2, <2>3, <2>4, MinTwo
    <2>6. seconds = Max({0, least})
        BY <1>2, <1>3, <1>10, <2>1, <2>4 DEF ElapsedSeconds
    <2>7. seconds = IF 0 >= least THEN 0 ELSE least
        BY <2>5, <2>6, MaxTwo
    <2> QED BY <1>4, <1>7, <1>9, <2>3, <2>5, <2>7
<1>12. /\ Rate * seconds \in Nat /\ Rate * far \in Nat /\ Rate * seconds <= Rate * far
    BY <1>11, RateGrows
<1>13. PICK due, earned : due = Streamed(streams[r]) /\ earned = Earned(OnChain)
    OBVIOUS
<1>14. due = IF Total <= Rate * seconds THEN Total ELSE Rate * seconds
    BY <1>4, <1>10, <1>12, <1>13, MinTwo DEF Streamed
<1>15. earned = IF far >= Duration THEN Total
                ELSE IF Total <= Rate * far THEN Total ELSE Rate * far
    <2>1. e - q = Duration
        BY <1>4
    <2>2. Min({Total, Rate * far}) = IF Total <= Rate * far THEN Total ELSE Rate * far
        BY <1>4, <1>12, MinTwo
    <2> QED BY <1>2, <1>8, <1>13, <2>1, <2>2 DEF Earned
<1>16. due \in Nat /\ earned \in Nat /\ due <= earned
    BY <1>4, <1>12, <1>14, <1>15
<1>17. CalculateBalance(streams[r]).streamed = due
    BY <1>13 DEF CalculateBalance
<1>18. ASSUME wd = OnChain.withdrawn, clock >= OnChain.cliff
       PROVE  CalculateBalance(streams[r]).withdrawable <= Withdrawable(OnChain)
    <2>1. Max({0, due - wd}) = IF 0 >= due - wd THEN 0 ELSE due - wd
        BY <1>4, <1>16, MaxTwo
    <2>2. Max({0, earned - wd}) = IF 0 >= earned - wd THEN 0 ELSE earned - wd
        BY <1>4, <1>16, MaxTwo
    <2>3. OnChain.cliff \in Nat
        BY <1>1 DEF StreamStates
    <2>4. Withdrawable(OnChain) = Max({0, earned - wd})
        BY <1>2, <1>3, <1>4, <1>13, <1>18, <2>3 DEF Withdrawable
    <2>5. CalculateBalance(streams[r]).withdrawable = IF clock < Cliff THEN 0 ELSE Max({0, due - wd})
        BY <1>2, <1>13 DEF CalculateBalance
    <2> QED BY <1>4, <1>16, <2>1, <2>2, <2>4, <2>5
<1> QED BY <1>2, <1>13, <1>16, <1>17, <1>18


(***************************************************************************)
(* Payment rows and what callers claim of transactions (PaymentClaims).    *)
(***************************************************************************)

ClaimEvents == PaymentIds \X Details
ClaimTxs == [call : Initiations \cup Methods, by : Businesses \cup {Router, Officer},
             target : {0} \cup PaymentIds, events : Seq(ClaimEvents)]
ClaimRows == [status : {"PENDING", "SETTLED", "CANCELLED", "REFUNDED"}, business : Businesses,
              tx : ClaimTxs, details : Details]

\* The chain numbers payments in order, whatever a reorganisation drops, so a
\* number is one creation's and one event's.
CreatedUpTo(k) == UNION {Created(i) : i \in 1..k}
Numbered == \A k \in 0..Len(mined) : \E n \in Nat : CreatedUpTo(k) = 1..n
CreatedOnce ==
    \A i, j \in 1..Len(mined) :
        \A e \in Range(mined[i].events), f \in Range(mined[j].events) :
            e[1] = f[1] => i = j /\ e = f

\* What a row, and what a request is about to write, rests on.
EndOf(call) == CASE call = "settlePayment" -> "SETTLED"
                 [] call = "cancelPayment" -> "CANCELLED"
                 [] OTHER -> "REFUNDED"
CreationProved(id, row) ==
    \E i \in Canonical : \E e \in Range(mined[i].events) :
        e[1] = id /\ row.tx = mined[i] /\ row.business = mined[i].by /\ row.details = e[2]
EndProved(id, status) == \E i \in Canonical : mined[i].target = id /\ status = EndOf(mined[i].call)

ClaimProved(id) ==
    payments[id] # NoPayment =>
        /\ CreationProved(id, payments[id])
        /\ payments[id].status # "PENDING" => EndProved(id, payments[id].status)
NewPayments == [at : {"create payment"}, id : PaymentIds, payment : ClaimRows]
Endings == [at : {"end payment"}, id : PaymentIds, tx : ClaimTxs, action : Actions]
ClaimHeld(w) ==
    /\ At(w, "create payment") =>
          /\ req[w] \in NewPayments /\ CreationProved(req[w].id, req[w].payment)
          /\ req[w].payment.status = "PENDING"
    /\ At(w, "end payment") =>
          /\ req[w] \in Endings /\ payments[req[w].id] # NoPayment
          /\ EndProved(req[w].id, FinalStatus(req[w].action))

ClaimsTypes ==
    /\ DOMAIN req = Workers
    /\ mined \in Seq(ClaimTxs) /\ deep \in 0..Len(mined)
    /\ payments \in [PaymentIds -> {NoPayment} \cup ClaimRows]

ClaimsInv ==
    /\ ClaimsTypes /\ Numbered /\ CreatedOnce
    /\ \A id \in PaymentIds : ClaimProved(id)
    /\ \A w \in Workers : ClaimHeld(w)

LEMMA ClaimsStart == RequestsInit /\ ClaimsInit => ClaimsInv
<1> SUFFICES ASSUME RequestsInit, ClaimsInit PROVE ClaimsInv
    OBVIOUS
<1>1. ClaimsTypes
    BY DEF RequestsInit, ClaimsInit, ClaimsTypes
<1>2. Numbered
    <2>1. mined = <<>> /\ Len(mined) = 0
        BY DEF RequestsInit
    <2>2. CreatedUpTo(0) = {} /\ 1..0 = {}
        BY DEF CreatedUpTo
    <2>3. \A k \in 0..Len(mined) : k = 0
        BY <2>1
    <2> QED BY <2>2, <2>3 DEF Numbered
<1>3. CreatedOnce
    BY DEF RequestsInit, CreatedOnce
<1>4. \A id \in PaymentIds : ClaimProved(id)
    BY DEF ClaimsInit, ClaimProved
<1>5. \A w \in Workers : ClaimHeld(w)
    BY DEF RequestsInit, ClaimHeld, At, Idle
<1> QED BY <1>1, <1>2, <1>3, <1>4, <1>5 DEF ClaimsInv

LEMMA PaymentsNumbered ==
    ASSUME mined \in Seq(ClaimTxs), Numbered
    PROVE  /\ Cardinality(Payments) \in Nat
           /\ Payments = 1..Cardinality(Payments)
           /\ CreatedUpTo(Len(mined)) = Payments
<1>1. Len(mined) \in Nat
    BY LenProperties
<1>2. Payments = CreatedUpTo(Len(mined))
    BY DEF Payments, CreatedUpTo, Receipts
<1>3. PICK n \in Nat : Payments = 1..n
    BY <1>1, <1>2 DEF Numbered
<1>4. Cardinality(1..n) = n
    BY <1>3, FS_Interval
<1> QED BY <1>2, <1>3, <1>4

\* A transaction that creates payments numbers them on from those there are.
NumbersOn(tx, n) ==
    /\ \E m \in Nat : {e[1] : e \in Range(tx.events)} = (n + 1)..(n + m)
    /\ \A e, f \in Range(tx.events) : e[1] = f[1] => e = f

LEMMA ClaimsGrow ==
    ASSUME mined \in Seq(ClaimTxs), Numbered, CreatedOnce,
           NEW tx \in ClaimTxs, Mine(tx), NumbersOn(tx, Cardinality(Payments))
    PROVE  Numbered' /\ CreatedOnce'
<1>1. mined' = Append(mined, tx)
    BY DEF Mine
<1>2. /\ Len(mined) \in Nat /\ Len(mined') = Len(mined) + 1 /\ mined'[Len(mined) + 1] = tx
      /\ \A i \in 1..Len(mined) : mined'[i] = mined[i]
    BY <1>1, AppendProperties, LenProperties
<1>3. PICK n \in Nat : n = Cardinality(Payments)
    BY PaymentsNumbered
<1>4. CreatedUpTo(Len(mined)) = 1..n
    BY <1>3, PaymentsNumbered
<1>5. PICK m \in Nat : {e[1] : e \in Range(tx.events)} = (n + 1)..(n + m)
    BY <1>3 DEF NumbersOn
<1>6. \A i \in 1..Len(mined) : Created(i)' = Created(i)
    BY <1>2 DEF Created
<1>7. Numbered'
    <2>1. ASSUME NEW k \in 0..Len(mined') PROVE \E p \in Nat : CreatedUpTo(k)' = 1..p
        <3>1. CASE k \in 0..Len(mined)
            <4>1. \A i \in 1..k : i \in 1..Len(mined)
                BY <1>2, <3>1
            <4>2. CreatedUpTo(k)' = CreatedUpTo(k)
                BY <1>6, <4>1 DEF CreatedUpTo
            <4> QED BY <3>1, <4>2 DEF Numbered
        <3>2. CASE k = Len(mined) + 1
            <4>1. Created(k)' = (n + 1)..(n + m)
                BY <1>2, <1>5, <3>2 DEF Created
            <4>2. 1..k = (1..Len(mined)) \cup {k}
                BY <1>2, <3>2
            <4>3. CreatedUpTo(k)' = CreatedUpTo(Len(mined)) \cup Created(k)'
                BY <1>6, <4>2 DEF CreatedUpTo
            <4>4. (1..n) \cup ((n + 1)..(n + m)) = 1..(n + m) /\ n + m \in Nat
                OBVIOUS
            <4> QED BY <1>4, <4>1, <4>3, <4>4
        <3> QED BY <1>2, <3>1, <3>2
    <2> QED BY <2>1 DEF Numbered
<1>8. CreatedOnce'
    <2>0. ASSUME NEW i \in 1..Len(mined), NEW e \in Range(mined[i].events),
                 NEW f \in Range(tx.events)
          PROVE  e[1] # f[1]
        <3>1. e[1] \in Created(i) /\ Created(i) \subseteq CreatedUpTo(Len(mined))
            BY DEF Created, CreatedUpTo
        <3>2. f[1] \in (n + 1)..(n + m) /\ e[1] \in 1..n
            BY <1>4, <1>5, <3>1
        <3> QED BY <3>2
    <2>1. ASSUME NEW i \in 1..Len(mined'), NEW j \in 1..Len(mined'),
                 NEW e \in Range(mined'[i].events), NEW f \in Range(mined'[j].events), e[1] = f[1]
          PROVE  i = j /\ e = f
        <3>1. CASE i \in 1..Len(mined) /\ j \in 1..Len(mined)
            BY <1>2, <2>1, <3>1 DEF CreatedOnce
        <3>2. CASE i = Len(mined) + 1 /\ j = Len(mined) + 1
            BY <1>2, <2>1, <3>2 DEF NumbersOn
        <3>3. CASE i \in 1..Len(mined) /\ j = Len(mined) + 1
            BY <1>2, <2>0, <2>1, <3>3
        <3>4. CASE i = Len(mined) + 1 /\ j \in 1..Len(mined)
            BY <1>2, <2>0, <2>1, <3>4
        <3> QED BY <1>2, <3>1, <3>2, <3>3, <3>4
    <2> QED BY <2>1 DEF CreatedOnce
<1> QED BY <1>7, <1>8

LEMMA ClaimsReorganised ==
    ASSUME mined \in Seq(ClaimTxs), deep \in 0..Len(mined), Numbered, CreatedOnce, ChainStep
    PROVE  Numbered' /\ CreatedOnce'
<1>0. Len(mined) \in Nat
    BY LenProperties
<1>1. CASE Confirm
    <2>1. mined' = mined
        BY <1>1 DEF Confirm
    <2>2. CreatedOnce'
        BY <2>1 DEF CreatedOnce
    <2>3. ASSUME NEW k \in 0..Len(mined) PROVE CreatedUpTo(k)' = CreatedUpTo(k)
        BY <2>1 DEF CreatedUpTo, Created
    <2>4. Numbered'
        BY <2>1, <2>3 DEF Numbered
    <2> QED BY <2>2, <2>4
<1>2. CASE Reorg
    <2>1. PICK keep \in deep..(Len(mined) - 1) : mined' = SubSeq(mined, 1, keep)
        BY <1>2 DEF Reorg, DropUnconfirmed
    <2>2. Len(mined') = keep /\ keep \in 0..Len(mined) /\ \A i \in 1..keep : mined'[i] = mined[i]
        BY <1>0, <2>1, SubSeqProperties
    <2>3. \A i \in 1..keep : i \in 1..Len(mined) /\ mined'[i] = mined[i]
        BY <1>0, <2>2
    <2>4. CreatedOnce'
        BY <2>2, <2>3 DEF CreatedOnce
    <2>5. ASSUME NEW k \in 0..keep PROVE \E n \in Nat : CreatedUpTo(k)' = 1..n
        <3>1. k \in 0..Len(mined) /\ \A i \in 1..k : i \in 1..keep
            BY <1>0, <2>2
        <3>2. \A i \in 1..k : Created(i)' = Created(i)
            BY <2>3, <3>1 DEF Created
        <3>3. CreatedUpTo(k)' = CreatedUpTo(k)
            BY <3>2 DEF CreatedUpTo
        <3> QED BY <3>1, <3>3 DEF Numbered
    <2> QED BY <2>2, <2>4, <2>5 DEF Numbered
<1> QED BY <1>1, <1>2 DEF ChainStep


\* What the contract's calls put on the chain.
LEMMA CallNumbersOn ==
    ASSUME NEW n \in Nat, NEW m \in {1, 2}, NEW ds \in [1..m -> Details], n + m <= MaxPayments,
           NEW call \in Initiations, NEW by \in Businesses \cup {Router},
           NEW tx, NEW events, events = [k \in 1..m |-> <<n + k, ds[k]>>],
           tx = [call |-> call, by |-> by, target |-> 0, events |-> events]
    PROVE  tx \in ClaimTxs /\ NumbersOn(tx, n)
<1>1. \A k \in 1..m : n + k \in 1..MaxPayments /\ ds[k] \in Details
    BY ClaimsAssumption
<1>2. \A k \in 1..m : events[k] \in ClaimEvents /\ events[k][1] = n + k
    BY <1>1 DEF ClaimEvents, PaymentIds
<1>3. events \in [1..m -> ClaimEvents] /\ m \in Nat
    BY <1>2
<1>4. events \in Seq(ClaimEvents)
    BY <1>3, SeqDef
<1>5. tx \in ClaimTxs /\ tx.events = events
    BY <1>4 DEF ClaimTxs
<1>6. Range(events) = {events[k] : k \in 1..m}
    BY <1>3 DEF Range
<1>7. {e[1] : e \in Range(events)} = {n + k : k \in 1..m}
    <2> DEFINE first(e) == e[1]
    <2>1. {first(e) : e \in {events[k] : k \in 1..m}} = {first(events[k]) : k \in 1..m}
        OBVIOUS
    <2>2. \A k \in 1..m : first(events[k]) = n + k
        BY <1>2
    <2> QED BY <1>6, <2>1, <2>2
<1>8. {n + k : k \in 1..m} = (n + 1)..(n + m)
    <2>1. CASE m = 1
        BY <2>1
    <2>2. CASE m = 2
        BY <2>2
    <2> QED BY <2>1, <2>2
<1>9. ASSUME NEW e \in Range(events), NEW f \in Range(events), e[1] = f[1] PROVE e = f
    <2>1. PICK k \in 1..m, l \in 1..m : e = events[k] /\ f = events[l]
        BY <1>6
    <2>2. n + k = n + l
        BY <1>2, <1>9, <2>1
    <2> QED BY <2>1, <2>2
<1> QED BY <1>3, <1>5, <1>7, <1>8, <1>9 DEF NumbersOn

LEMMA EndNumbersOn ==
    ASSUME NEW n \in Nat, NEW call \in Methods, NEW id \in PaymentIds,
           NEW by \in Businesses \cup {Router, Officer},
           NEW tx, tx = [call |-> call, by |-> by, target |-> id, events |-> <<>>]
    PROVE  tx \in ClaimTxs /\ NumbersOn(tx, n)
<1>1. <<>> \in Seq(ClaimEvents) /\ DOMAIN <<>> = {}
    OBVIOUS
<1>2. tx \in ClaimTxs /\ tx.events = <<>>
    BY <1>1 DEF ClaimTxs
<1>3. Range(tx.events) = {}
    BY <1>1, <1>2 DEF Range
<1>4. (n + 1)..(n + 0) = {}
    OBVIOUS
<1>5. {e[1] : e \in Range(tx.events)} = {}
    BY <1>3
<1> QED BY <1>2, <1>3, <1>4, <1>5 DEF NumbersOn

ContractPays ==
    \/ \E by \in Businesses \cup {Router} :
          \/ \E d \in Details : initiatePayment(by, d)
          \/ \E ds \in {<<d>> : d \in Details} \cup (Details \X Details) : initiatePaymentBatch(by, ds)
    \/ \E call \in Methods, id \in PaymentIds : endPayment(call, id)

LEMMA PaysNumbersOn ==
    ASSUME mined \in Seq(ClaimTxs), Numbered, ContractPays
    PROVE  /\ payments' = payments
           /\ \E tx \in ClaimTxs : Mine(tx) /\ NumbersOn(tx, Cardinality(Payments))
<1>0. PICK n \in Nat : n = Cardinality(Payments)
    BY PaymentsNumbered
<1>1. ASSUME NEW m \in {1, 2}, NEW ds \in [1..m -> Details], NEW call \in Initiations,
             NEW by \in Businesses \cup {Router}, NEW events,
             events = [k \in 1..m |-> <<n + k, ds[k]>>], Len(events) = m,
             Transaction(call, by, 0, events)
      PROVE  /\ payments' = payments
             /\ \E tx \in ClaimTxs : Mine(tx) /\ NumbersOn(tx, Cardinality(Payments))
    <2>1. PICK tx : tx = [call |-> call, by |-> by, target |-> 0, events |-> events]
        OBVIOUS
    <2>2. n + m <= MaxPayments /\ Mine(tx) /\ payments' = payments
        BY <1>0, <1>1, <2>1 DEF Transaction
    <2>3. tx \in ClaimTxs /\ NumbersOn(tx, n)
        BY <1>1, <2>1, <2>2, CallNumbersOn
    <2> QED BY <1>0, <2>2, <2>3
<1>2. ASSUME NEW by \in Businesses \cup {Router}, NEW d \in Details, initiatePayment(by, d)
      PROVE  /\ payments' = payments
             /\ \E tx \in ClaimTxs : Mine(tx) /\ NumbersOn(tx, Cardinality(Payments))
    <2>1. PICK ds, events : ds = [k \in 1..1 |-> d] /\ events = [k \in 1..1 |-> <<n + k, ds[k]>>]
        OBVIOUS
    <2>2. ds \in [1..1 -> Details] /\ events = <<<<n + 1, d>>>> /\ Len(events) = 1
        BY <2>1
    <2>3. Transaction("initiatePayment", by, 0, events)
        BY <1>0, <1>2, <2>2 DEF initiatePayment
    <2>4. "initiatePayment" \in Initiations
        BY DEF Initiations
    <2> QED BY <1>1, <2>1, <2>2, <2>3, <2>4
<1>3. ASSUME NEW by \in Businesses \cup {Router}, NEW m \in {1, 2}, NEW ds \in [1..m -> Details],
             initiatePaymentBatch(by, ds)
      PROVE  /\ payments' = payments
             /\ \E tx \in ClaimTxs : Mine(tx) /\ NumbersOn(tx, Cardinality(Payments))
    <2>1. PICK events : events = [k \in 1..m |-> <<n + k, ds[k]>>]
        OBVIOUS
    <2>2. DOMAIN ds = 1..m /\ Len(events) = m
        BY <2>1
    <2>3. Transaction("initiatePaymentBatch", by, 0, events)
        BY <1>0, <1>3, <2>1, <2>2 DEF initiatePaymentBatch
    <2>4. "initiatePaymentBatch" \in Initiations
        BY DEF Initiations
    <2> QED BY <1>1, <2>1, <2>2, <2>3, <2>4
<1>4. ASSUME NEW by \in Businesses \cup {Router},
             NEW ds \in {<<d>> : d \in Details} \cup (Details \X Details),
             initiatePaymentBatch(by, ds)
      PROVE  /\ payments' = payments
             /\ \E tx \in ClaimTxs : Mine(tx) /\ NumbersOn(tx, Cardinality(Payments))
    <2>1. ds \in [1..1 -> Details] \/ ds \in [1..2 -> Details]
        BY <1>4
    <2> QED BY <1>3, <1>4, <2>1
<1>5. ASSUME NEW call \in Methods, NEW id \in PaymentIds, endPayment(call, id)
      PROVE  /\ payments' = payments
             /\ \E tx \in ClaimTxs : Mine(tx) /\ NumbersOn(tx, Cardinality(Payments))
    <2>1. PICK by \in IF call = "cancelPayment" THEN {mined[Creation(id)].by} ELSE {Officer, Router} :
              Transaction(call, by, id, <<>>)
        BY <1>5 DEF endPayment
    <2>2. mined[Creation(id)].by \in Businesses \cup {Router, Officer}
        <3>1. \E i \in Receipts : id \in Created(i)
            BY <1>5 DEF endPayment, Payments
        <3>2. Creation(id) \in 1..Len(mined)
            BY <3>1 DEF Creation, Receipts
        <3>3. mined[Creation(id)] \in ClaimTxs
            BY <3>2
        <3> QED BY <3>3 DEF ClaimTxs
    <2>3. by \in Businesses \cup {Router, Officer}
        BY <2>1, <2>2
    <2>4. PICK tx : tx = [call |-> call, by |-> by, target |-> id, events |-> <<>>]
        OBVIOUS
    <2>5. Mine(tx) /\ payments' = payments
        BY <2>1, <2>4 DEF Transaction
    <2>6. tx \in ClaimTxs /\ NumbersOn(tx, n)
        BY <2>3, <2>4, EndNumbersOn
    <2> QED BY <1>0, <2>5, <2>6
<1> QED BY <1>2, <1>4, <1>5 DEF ContractPays

\* Rows that stay or are written while receipts stay confirmed.
LEMMA ClaimsKeep ==
    ASSUME ClaimsInv, payments' \in [PaymentIds -> {NoPayment} \cup ClaimRows],
           \A id \in PaymentIds : payments[id] # NoPayment => payments'[id] # NoPayment,
           \A id \in PaymentIds : payments'[id] = payments[id] \/ ClaimProved(id)',
           mined' \in Seq(ClaimTxs), deep' \in 0..Len(mined'), Numbered', CreatedOnce',
           Canonical \subseteq Canonical', \A i \in Canonical : mined'[i] = mined[i],
           DOMAIN req' = Workers,
           \A w \in Workers : req'[w] = req[w] \/ ClaimHeld(w)'
    PROVE  ClaimsInv'
<1>1. ClaimsTypes'
    BY DEF ClaimsTypes
<1>2. ASSUME NEW id, NEW row, CreationProved(id, row) PROVE CreationProved(id, row)'
    BY <1>2 DEF CreationProved
<1>3. ASSUME NEW id, NEW status, EndProved(id, status) PROVE EndProved(id, status)'
    BY <1>3 DEF EndProved
<1>4. ASSUME NEW id \in PaymentIds, payments'[id] = payments[id] PROVE ClaimProved(id)'
    <2>1. PICK row : row = payments[id] /\ payments'[id] = row
        BY <1>4
    <2>2. row # NoPayment => CreationProved(id, row)' /\ (row.status # "PENDING" => EndProved(id, row.status)')
        BY <1>2, <1>3, <2>1 DEF ClaimsInv, ClaimProved
    <2> QED BY <2>1, <2>2 DEF ClaimProved
<1>5. ASSUME NEW w \in Workers, req'[w] = req[w] PROVE ClaimHeld(w)'
    <2>1. PICK h : h = req[w] /\ req'[w] = h
        BY <1>5
    <2>2. h.at = "create payment" =>
              /\ h \in NewPayments /\ CreationProved(h.id, h.payment)' /\ h.payment.status = "PENDING"
        BY <1>2, <2>1 DEF ClaimsInv, ClaimHeld, At
    <2>3. h.at = "end payment" =>
              /\ h \in Endings /\ payments[h.id] # NoPayment /\ EndProved(h.id, FinalStatus(h.action))'
        BY <1>3, <2>1 DEF ClaimsInv, ClaimHeld, At
    <2>4. h \in Endings => h.id \in PaymentIds
        BY DEF Endings
    <2> QED BY <2>1, <2>2, <2>3, <2>4 DEF ClaimHeld, At
<1> QED BY <1>1, <1>4, <1>5 DEF ClaimsInv


LEMMA ClaimsStep == ClaimsInv /\ [ClaimsNext]_<<shared, payments>> => ClaimsInv'
<1> SUFFICES ASSUME ClaimsInv, [ClaimsNext]_<<shared, payments>> PROVE ClaimsInv'
    OBVIOUS
<1>a. ClaimsTypes /\ Numbered /\ CreatedOnce
    BY DEF ClaimsInv
<1>0. /\ payments \in [PaymentIds -> {NoPayment} \cup ClaimRows] /\ DOMAIN req = Workers
      /\ mined \in Seq(ClaimTxs) /\ deep \in 0..Len(mined)
    BY <1>a DEF ClaimsTypes
<1>s. ASSUME NEW j \in Receipts PROVE mined[j] \in ClaimTxs /\ mined[j].events \in Seq(ClaimEvents)
    <2>1. j \in 1..Len(mined)
        BY DEF Receipts
    <2>2. mined[j] \in ClaimTxs
        BY <1>0, <2>1
    <2> QED BY <2>2 DEF ClaimTxs
<1>i. ASSUME NEW w \in Workers, req'[w] = Idle PROVE ClaimHeld(w)'
    <2>1. req'[w].at = "idle"
        BY <1>i DEF Idle
    <2> QED BY <2>1 DEF ClaimHeld, At
<1>c. UNCHANGED <<mined, deep>> =>
          /\ mined' \in Seq(ClaimTxs) /\ deep' \in 0..Len(mined') /\ Numbered' /\ CreatedOnce'
          /\ Canonical \subseteq Canonical' /\ \A i \in Canonical : mined'[i] = mined[i]
    <2> SUFFICES ASSUME UNCHANGED <<mined, deep>>
                 PROVE  /\ mined' \in Seq(ClaimTxs) /\ deep' \in 0..Len(mined')
                        /\ Numbered' /\ CreatedOnce'
                        /\ Canonical \subseteq Canonical' /\ \A i \in Canonical : mined'[i] = mined[i]
        OBVIOUS
    <2>1. CreatedOnce'
        BY <1>a DEF CreatedOnce
    <2>2. ASSUME NEW k \in 0..Len(mined) PROVE CreatedUpTo(k)' = CreatedUpTo(k)
        BY DEF CreatedUpTo, Created
    <2>3. Numbered'
        BY <1>a, <2>2 DEF Numbered
    <2> QED BY <1>0, <2>1, <2>3 DEF Canonical, Receipts
<1>1. CASE UNCHANGED <<shared, payments>>
    BY <1>0, <1>1, <1>c, ClaimsKeep DEF shared
<1>2. CASE ContractPays
    <2>1. PICK tx \in ClaimTxs : Mine(tx) /\ NumbersOn(tx, Cardinality(Payments)) /\ payments' = payments
        BY <1>0, <1>2, <1>a, PaysNumbersOn
    <2>2. req' = req
        BY <2>1 DEF Mine
    <2>3. Numbered' /\ CreatedOnce'
        BY <1>0, <1>a, <2>1, ClaimsGrow
    <2> QED BY <1>0, <2>1, <2>2, <2>3, ReceiptsKept, ClaimsKeep
<1>3. CASE ChainStep /\ UNCHANGED payments
    <2>1. req' = req
        BY <1>3, ChainLeavesRequests
    <2>2. Numbered' /\ CreatedOnce'
        BY <1>0, <1>3, <1>a, ClaimsReorganised
    <2> QED BY <1>0, <1>3, <2>1, <2>2, ReceiptsKept, ClaimsKeep
<1>4. CASE RequestStep /\ UNCHANGED payments
    <2>1. /\ DOMAIN req' = Workers /\ UNCHANGED <<mined, deep>>
          /\ \A v \in Workers : req'[v] = req[v] \/ req'[v] = Idle
        BY <1>0, <1>4, RequestEnds
    <2> QED BY <1>0, <1>4, <1>c, <1>i, <2>1, ClaimsKeep
<1>5. ASSUME NEW w \in Workers, NEW payer \in Businesses, NEW i \in Receipts, NEW d \in Details,
             NEW claimed \in Nat, reconcilePayment(w, payer, i, claimed, d)
      PROVE  ClaimsInv'
    <2>1. PICK e \in Selected(i, claimed) :
              /\ e[2] = d
              /\ Goto(w, [at |-> "create payment", id |-> e[1],
                          payment |-> [status |-> "PENDING", business |-> payer,
                                       tx |-> mined[i], details |-> d]])
        BY <1>5 DEF reconcilePayment
    <2>2. /\ i \in Canonical /\ mined[i].by = payer /\ e \in Range(mined[i].events)
          /\ UNCHANGED <<mined, deep, payments>>
        BY <1>5, <2>1 DEF reconcilePayment, Executes, Selected
    <2>3. mined[i] \in ClaimTxs /\ mined[i].events \in Seq(ClaimEvents)
        BY <1>s
    <2>4. e \in ClaimEvents /\ e[1] \in PaymentIds
        <3>1. PICK k \in DOMAIN mined[i].events : e = mined[i].events[k]
            BY <2>2 DEF Range
        <3>2. mined[i].events[k] \in ClaimEvents
            BY <2>3
        <3> QED BY <3>1, <3>2 DEF ClaimEvents
    <2>5. PICK row : row = [status |-> "PENDING", business |-> payer, tx |-> mined[i], details |-> d]
        OBVIOUS
    <2>6. /\ row \in ClaimRows /\ row.status = "PENDING" /\ row.tx = mined[i]
          /\ row.business = payer /\ row.details = d
        BY <2>3, <2>5 DEF ClaimRows
    <2>7. PICK id \in PaymentIds : id = e[1]
        BY <2>4
    <2> DEFINE h == [at |-> "create payment", id |-> id, payment |-> row]
    <2>8. h \in NewPayments /\ h.at = "create payment" /\ h.id = id /\ h.payment = row
        BY <2>6 DEF NewPayments
    <2>9. Goto(w, h)
        BY <2>1, <2>5, <2>7
    <2> HIDE DEF h
    <2>10. CreationProved(id, row)
        BY <2>1, <2>2, <2>6, <2>7 DEF CreationProved
    <2>11. CreationProved(id, row)'
        BY <2>2, <2>10 DEF CreationProved, Canonical, Receipts
    <2>12. req'[w] = h
        BY <1>0, <2>9, RequestGoes
    <2>13. ClaimHeld(w)'
        BY <2>6, <2>8, <2>11, <2>12 DEF ClaimHeld, At
    <2> QED BY <1>0, <1>c, <2>2, <2>9, <2>13, RequestGoes, ClaimsKeep
<1>6. ASSUME NEW w \in Workers, createPayment(w) PROVE ClaimsInv'
    <2>1. PICK h \in NewPayments :
              h = req[w] /\ CreationProved(h.id, h.payment) /\ h.payment.status = "PENDING"
        BY <1>6 DEF createPayment, ClaimsInv, ClaimHeld
    <2>2. PICK id \in PaymentIds, row \in ClaimRows : id = h.id /\ row = h.payment
        BY DEF NewPayments
    <2>3. /\ payments' = IF payments[id] = NoPayment THEN [payments EXCEPT ![id] = row] ELSE payments
          /\ Goto(w, Idle) /\ UNCHANGED <<mined, deep>>
        BY <1>6, <2>1, <2>2 DEF createPayment, Done
    <2>4. row # NoPayment
        BY DEF ClaimRows, NoPayment
    <2>5. /\ payments' \in [PaymentIds -> {NoPayment} \cup ClaimRows]
          /\ \A p \in PaymentIds : payments[p] # NoPayment => payments'[p] = payments[p]
          /\ payments'[id] = payments[id] \/ payments'[id] = row
          /\ \A p \in PaymentIds \ {id} : payments'[p] = payments[p]
        BY <1>0, <2>3
    <2>6. CreationProved(id, row)'
        BY <2>1, <2>2, <2>3 DEF CreationProved, Canonical, Receipts
    <2>7. payments'[id] = payments[id] \/ ClaimProved(id)'
        BY <2>1, <2>2, <2>5, <2>6 DEF ClaimProved
    <2> QED BY <1>0, <1>c, <1>i, <2>3, <2>5, <2>7, RequestGoes, ClaimsKeep
<1>7. ASSUME NEW w \in Workers, NEW payer \in Businesses, NEW i \in Receipts, NEW id \in PaymentIds,
             NEW action \in Actions, reconcileEnd(w, payer, i, id, action)
      PROVE  ClaimsInv'
    <2> DEFINE h == [at |-> "end payment", id |-> id, tx |-> mined[i], action |-> action]
    <2>1. /\ Goto(w, h) /\ UNCHANGED <<mined, deep, payments>> /\ i \in Canonical
          /\ payments[id] # NoPayment /\ mined[i].target = id
          /\ mined[i].call \in ExpectedMethods(action)
        BY <1>7 DEF reconcileEnd, LifecycleProved
    <2>2. mined[i] \in ClaimTxs
        BY <1>s
    <2>3. h \in Endings /\ h.at = "end payment" /\ h.id = id /\ h.action = action
        BY <2>2 DEF Endings
    <2> HIDE DEF h
    <2>4. FinalStatus(action) = EndOf(mined[i].call)
        BY <2>1 DEF Actions, ExpectedMethods, FinalStatus, EndOf
    <2>5. EndProved(id, FinalStatus(action))'
        BY <2>1, <2>4 DEF EndProved, Canonical, Receipts
    <2>6. req'[w] = h
        BY <1>0, <2>1, RequestGoes
    <2>7. ClaimHeld(w)'
        BY <2>1, <2>3, <2>5, <2>6 DEF ClaimHeld, At
    <2> QED BY <1>0, <1>c, <2>1, <2>7, RequestGoes, ClaimsKeep
<1>8. ASSUME NEW w \in Workers, storeEnd(w) PROVE ClaimsInv'
    <2>1. PICK h \in Endings :
              /\ h = req[w] /\ payments[h.id] # NoPayment
              /\ EndProved(h.id, FinalStatus(h.action))
        BY <1>8 DEF storeEnd, ClaimsInv, ClaimHeld
    <2>2. PICK id \in PaymentIds, action \in Actions : id = h.id /\ action = h.action
        BY DEF Endings
    <2>3. PICK status : status = FinalStatus(action)
        OBVIOUS
    <2>4. /\ payments' = payments \/ payments' = [payments EXCEPT ![id].status = status]
          /\ Goto(w, Idle) /\ UNCHANGED <<mined, deep>>
        BY <1>8, <2>1, <2>2, <2>3 DEF storeEnd, Done
    <2>5. status \in {"SETTLED", "CANCELLED", "REFUNDED"}
        BY <2>3 DEF Actions, FinalStatus
    <2>6. PICK old \in ClaimRows : old = payments[id]
        BY <1>0, <2>1, <2>2
    <2>7. PICK row : row = [old EXCEPT !.status = status]
        OBVIOUS
    <2>8. /\ row \in ClaimRows /\ row.status = status /\ row.tx = old.tx
          /\ row.business = old.business /\ row.details = old.details
        BY <2>5, <2>7 DEF ClaimRows
    <2>9. row # NoPayment
        BY <2>8 DEF ClaimRows, NoPayment
    <2>10. payments' = payments \/ payments' = [payments EXCEPT ![id] = row]
        BY <1>0, <2>4, <2>6, <2>7
    <2>11. /\ payments' \in [PaymentIds -> {NoPayment} \cup ClaimRows]
           /\ \A p \in PaymentIds : payments[p] # NoPayment => payments'[p] # NoPayment
           /\ payments'[id] = payments[id] \/ payments'[id] = row
           /\ \A p \in PaymentIds \ {id} : payments'[p] = payments[p]
        BY <1>0, <2>8, <2>9, <2>10
    <2>12. CreationProved(id, old)
        BY <2>1, <2>2, <2>6 DEF ClaimsInv, ClaimProved
    <2>13. CreationProved(id, row)'
        BY <2>4, <2>8, <2>12 DEF CreationProved, Canonical, Receipts
    <2>14. EndProved(id, row.status)'
        BY <2>1, <2>2, <2>3, <2>4, <2>8 DEF EndProved, Canonical, Receipts
    <2>15. payments'[id] = payments[id] \/ ClaimProved(id)'
        BY <2>11, <2>13, <2>14 DEF ClaimProved
    <2> QED BY <1>0, <1>c, <1>i, <2>4, <2>11, <2>15, RequestGoes, ClaimsKeep
<1>9. \A id \in PaymentIds : {0, id} \subseteq Nat
    BY ClaimsAssumption DEF PaymentIds
<1> QED BY <1>1, <1>2, <1>3, <1>4, <1>5, <1>6, <1>7, <1>8, <1>9 DEF ClaimsNext, ContractPays

LEMMA ClaimsProve == ClaimsInv => PaymentsProved
<1> SUFFICES ASSUME ClaimsInv, NEW id \in PaymentIds, payments[id] # NoPayment
             PROVE  /\ id \in UNION {Created(i) : i \in Canonical}
                    /\ mined[Creation(id)] = payments[id].tx
                    /\ payments[id].business = payments[id].tx.by
                    /\ payments[id].details = Event(id)[2]
                    /\ payments[id].status # "PENDING" => EndProved(id, payments[id].status)
    BY DEF PaymentsProved, EndProved, EndOf
<1>1. CreationProved(id, payments[id])
      /\ (payments[id].status # "PENDING" => EndProved(id, payments[id].status))
    BY DEF ClaimsInv, ClaimProved
<1>a. PICK i \in Canonical : \E e \in Range(mined[i].events) :
          /\ e[1] = id /\ payments[id].tx = mined[i] /\ payments[id].business = mined[i].by
          /\ payments[id].details = e[2]
    BY <1>1 DEF CreationProved
<1>2. PICK e \in Range(mined[i].events) :
          /\ e[1] = id /\ payments[id].tx = mined[i] /\ payments[id].business = mined[i].by
          /\ payments[id].details = e[2]
    BY <1>a
<1>3. i \in Receipts /\ id \in Created(i)
    BY <1>2 DEF Created, Canonical
<1> DEFINE c == CHOOSE j \in Receipts : id \in Created(j)
<1>4. c \in Receipts /\ id \in Created(c)
    BY <1>3
<1>5. Creation(id) = c
    BY DEF Creation
<1> HIDE DEF c
<1>6. c = i
    <2>1. PICK f \in Range(mined[c].events) : f[1] = id
        BY <1>4 DEF Created
    <2> QED BY <1>2, <1>3, <1>4, <2>1 DEF ClaimsInv, CreatedOnce, Receipts
<1> DEFINE f == CHOOSE x \in Range(mined[i].events) : x[1] = id
<1>7. f \in Range(mined[i].events) /\ f[1] = id
    BY <1>2
<1>8. Event(id) = f
    BY <1>5, <1>6 DEF Event
<1> HIDE DEF f
<1>9. f = e
    BY <1>2, <1>3, <1>7 DEF ClaimsInv, CreatedOnce, Receipts
<1> QED BY <1>1, <1>2, <1>3, <1>5, <1>6, <1>8, <1>9


(***************************************************************************)
(* Hedges (HedgeRecords).                                                  *)
(***************************************************************************)
VaultTxs == [event : {"OPENED"} \cup CloseKinds, type : HedgeTypes]
HedgeRows == [status : {"NONE", "OPEN", "CLOSED", "EXERCISED", "EXPIRED"},
              onChainStatus : {"NONE", "ACTIVE"} \cup CloseKinds, pnl : BOOLEAN]

\* A position is opened, then closed once.
VaultChain ==
    /\ Len(mined) \in 0..2
    /\ Len(mined) >= 1 => mined[1].event = "OPENED"
    /\ Len(mined) = 2 => mined[2].event \in CloseKinds

\* A closed row is what its closing receipt makes it.
ClosedAs(kind) == [status |-> HedgeStatus(kind), onChainStatus |-> kind,
                   pnl |-> kind \in {"SETTLED", "EXERCISED"}]
VaultEmitted(event) == \E i \in Canonical : mined[i].event = event
HedgeProved(r) ==
    /\ hedges[r].status # "NONE" => VaultEmitted("OPENED")
    /\ hedges[r].status \notin {"NONE", "OPEN"} =>
          \E kind \in CloseKinds : hedges[r] = ClosedAs(kind) /\ VaultEmitted(kind)

Openings == [at : {"create hedge"}, onChainStatus : {"NONE", "ACTIVE"} \cup CloseKinds]
Closes == [at : {"verify close"}, row : Hedges]
Closed == [at : {"store close"}, row : Hedges, kind : CloseKinds]
HedgeHeld(w) ==
    /\ At(w, "create hedge") => req[w] \in Openings /\ VaultEmitted("OPENED")
    /\ At(w, "verify close") => req[w] \in Closes /\ hedges[req[w].row].status # "NONE"
    /\ At(w, "store close") =>
          /\ req[w] \in Closed /\ hedges[req[w].row].status # "NONE"
          /\ VaultEmitted(req[w].kind)

HedgeInv ==
    /\ DOMAIN req = Workers
    /\ mined \in Seq(VaultTxs) /\ deep \in 0..Len(mined) /\ VaultChain
    /\ hedges \in [Hedges -> HedgeRows]
    /\ \A r \in Hedges : HedgeProved(r)
    /\ \A w \in Workers : HedgeHeld(w)

LEMMA HedgeStart == RequestsInit /\ HedgeInit => HedgeInv
<1> SUFFICES ASSUME RequestsInit, HedgeInit PROVE HedgeInv
    OBVIOUS
<1>1. DOMAIN req = Workers /\ mined \in Seq(VaultTxs) /\ deep \in 0..Len(mined) /\ VaultChain
    BY DEF RequestsInit, VaultChain
<1>2. hedges \in [Hedges -> HedgeRows]
    BY DEF HedgeInit, HedgeRows, NoHedge
<1>3. \A r \in Hedges : HedgeProved(r)
    BY DEF HedgeInit, HedgeProved, NoHedge
<1>4. \A w \in Workers : HedgeHeld(w)
    BY DEF RequestsInit, HedgeHeld, At, Idle
<1> QED BY <1>1, <1>2, <1>3, <1>4 DEF HedgeInv

\* Rows that stay or are written while receipts stay confirmed.
LEMMA HedgeReads ==
    ASSUME HedgeInv, hedges' \in [Hedges -> HedgeRows],
           \A r \in Hedges : hedges[r].status # "NONE" => hedges'[r].status # "NONE",
           \A r \in Hedges : hedges'[r] = hedges[r] \/ HedgeProved(r)',
           mined' \in Seq(VaultTxs), deep' \in 0..Len(mined'), VaultChain',
           Canonical \subseteq Canonical', \A i \in Canonical : mined'[i] = mined[i],
           DOMAIN req' = Workers,
           \A w \in Workers : req'[w] = req[w] \/ HedgeHeld(w)'
    PROVE  HedgeInv'
<1>1. \A event : VaultEmitted(event) => VaultEmitted(event)'
    BY DEF VaultEmitted
<1>2. ASSUME NEW r \in Hedges, hedges'[r] = hedges[r] PROVE HedgeProved(r)'
    <2>1. PICK row : row = hedges[r] /\ hedges'[r] = row
        BY <1>2
    <2>2. /\ row.status # "NONE" => VaultEmitted("OPENED")'
          /\ row.status \notin {"NONE", "OPEN"} =>
                \E kind \in CloseKinds : row = ClosedAs(kind) /\ VaultEmitted(kind)'
        BY <1>1, <2>1 DEF HedgeInv, HedgeProved
    <2> QED BY <2>1, <2>2 DEF HedgeProved
<1>3. ASSUME NEW w \in Workers, req'[w] = req[w] PROVE HedgeHeld(w)'
    <2>1. PICK h : h = req[w] /\ req'[w] = h
        BY <1>3
    <2>2. /\ h.at = "create hedge" => h \in Openings /\ VaultEmitted("OPENED")'
          /\ h.at = "verify close" => h \in Closes /\ hedges[h.row].status # "NONE"
          /\ h.at = "store close" => h \in Closed /\ hedges[h.row].status # "NONE" /\ VaultEmitted(h.kind)'
        BY <1>1, <2>1 DEF HedgeInv, HedgeHeld, At
    <2>3. h \in Closes \/ h \in Closed => h.row \in Hedges
        BY DEF Closes, Closed
    <2> QED BY <2>1, <2>2, <2>3 DEF HedgeHeld, At
<1> QED BY <1>2, <1>3 DEF HedgeInv

\* What the vault does.
LEMMA VaultMoves ==
    ASSUME HedgeInv, NEW tx, Mine(tx),
           \/ VaultStatus = "NONE" /\ tx \in VaultTxs /\ tx.event = "OPENED"
           \/ /\ VaultStatus = "ACTIVE" /\ \E kind \in CloseKinds :
                    tx = [event |-> kind, type |-> mined[1].type]
    PROVE  tx \in VaultTxs /\ VaultChain'
<1>0. mined \in Seq(VaultTxs) /\ Len(mined) \in 0..2 /\ Len(mined) \in Nat /\ VaultChain
    BY DEF HedgeInv, VaultChain
<1>1. mined' = Append(mined, tx)
    BY DEF Mine
<1>2. /\ Len(mined') = Len(mined) + 1 /\ mined'[Len(mined) + 1] = tx
      /\ \A i \in 1..Len(mined) : mined'[i] = mined[i]
    BY <1>0, <1>1, AppendProperties
<1>3. CASE VaultStatus = "NONE" /\ tx \in VaultTxs /\ tx.event = "OPENED"
    <2>1. Len(mined) = 0
        <3>0. Len(mined) # 0 => mined # <<>>
            OBVIOUS
        <3>1. CASE Len(mined) = 1
            BY <1>3, <3>0, <3>1 DEF VaultStatus
        <3>2. CASE Len(mined) = 2
            BY <1>0, <1>3, <3>2 DEF VaultStatus, VaultChain, CloseKinds
        <3> QED BY <1>0, <3>1, <3>2
    <2> QED BY <1>2, <1>3, <2>1 DEF VaultChain
<1>4. CASE VaultStatus = "ACTIVE" /\ \E kind \in CloseKinds :
               tx = [event |-> kind, type |-> mined[1].type]
    <2>1. Len(mined) = 1
        <3>1. CASE Len(mined) = 0
            BY <1>0, <1>4, <3>1 DEF VaultStatus
        <3>2. CASE Len(mined) = 2
            BY <1>0, <1>4, <3>2 DEF VaultStatus, VaultChain, CloseKinds
        <3> QED BY <1>0, <3>1, <3>2
    <2>2. mined[1] \in VaultTxs
        BY <1>0, <2>1
    <2>3. tx \in VaultTxs /\ tx.event \in CloseKinds
        BY <1>4, <2>2 DEF VaultTxs
    <2>4. Len(mined') = 2 /\ mined'[2] = tx /\ mined'[1] = mined[1]
        BY <1>2, <2>1
    <2>5. mined[1].event = "OPENED"
        BY <1>0, <2>1 DEF VaultChain
    <2> QED BY <2>3, <2>4, <2>5 DEF VaultChain
<1> QED BY <1>3, <1>4

\* A closing that is confirmed is the one there is.
LEMMA OneClose ==
    ASSUME HedgeInv, NEW k \in CloseKinds, NEW l \in CloseKinds, VaultEmitted(k), VaultEmitted(l)
    PROVE  k = l
<1>1. ASSUME NEW i \in Canonical, mined[i].event \in CloseKinds PROVE i = 2
    <2>1. i \in 1..Len(mined) /\ VaultChain /\ Len(mined) \in 0..2
        BY DEF Canonical, Receipts, HedgeInv, VaultChain
    <2>a. PICK n \in 0..2 : n = Len(mined)
        BY <2>1
    <2>b. i \in 1..n
        BY <2>1, <2>a
    <2>2. i \in {1, 2} /\ Len(mined) >= 1
        BY <2>a, <2>b
    <2>3. mined[1].event = "OPENED"
        BY <2>1, <2>2 DEF VaultChain
    <2> QED BY <1>1, <2>2, <2>3 DEF CloseKinds
<1> QED BY <1>1 DEF VaultEmitted

LEMMA VaultStatusTyped ==
    ASSUME HedgeInv PROVE VaultStatus \in {"NONE", "ACTIVE"} \cup CloseKinds
<1>1. Len(mined) \in {0, 1, 2} /\ VaultChain
    BY DEF HedgeInv, VaultChain
<1>2. mined \in Seq(VaultTxs)
    BY DEF HedgeInv
<1>3. CASE Len(mined) = 0
    BY <1>2, <1>3 DEF VaultStatus
<1>4. CASE Len(mined) = 1
    BY <1>4 DEF VaultStatus
<1>5. CASE Len(mined) = 2
    BY <1>1, <1>5 DEF VaultStatus, VaultChain
<1> QED BY <1>1, <1>3, <1>4, <1>5

LEMMA HedgeStep ==
    HedgeInv /\ [HedgeNext]_<<shared, hedges>> =>
        /\ HedgeInv'
        /\ \A r \in Hedges : hedges[r].status \notin {"NONE", "OPEN"} => hedges'[r] = hedges[r]
<1> DEFINE Kept == \A r \in Hedges : hedges[r].status \notin {"NONE", "OPEN"} => hedges'[r] = hedges[r]
<1> SUFFICES ASSUME HedgeInv, [HedgeNext]_<<shared, hedges>> PROVE HedgeInv' /\ Kept
    OBVIOUS
<1>0. /\ hedges \in [Hedges -> HedgeRows] /\ DOMAIN req = Workers
      /\ mined \in Seq(VaultTxs) /\ deep \in 0..Len(mined) /\ VaultChain
    BY DEF HedgeInv
<1>i. ASSUME NEW w \in Workers, req'[w] = Idle \/ req'[w].at = "audit" PROVE HedgeHeld(w)'
    <2>1. CASE req'[w] = Idle
        <3>1. req'[w].at = "idle"
            BY <2>1 DEF Idle
        <3> QED BY <3>1 DEF HedgeHeld, At
    <2>2. CASE req'[w].at = "audit"
        BY <2>2 DEF HedgeHeld, At
    <2> QED BY <1>i, <2>1, <2>2
<1>c. UNCHANGED <<mined, deep>> =>
          /\ mined' \in Seq(VaultTxs) /\ deep' \in 0..Len(mined') /\ VaultChain'
          /\ Canonical \subseteq Canonical' /\ \A i \in Canonical : mined'[i] = mined[i]
          /\ \A event : VaultEmitted(event) => VaultEmitted(event)'
    BY <1>0 DEF VaultChain, Canonical, Receipts, VaultEmitted
<1>1. CASE UNCHANGED <<shared, hedges>>
    BY <1>0, <1>1, <1>c, HedgeReads DEF shared
<1>2. ASSUME NEW type \in HedgeTypes, OpenPosition(type) PROVE HedgeInv' /\ Kept
    <2>1. PICK tx : tx = [event |-> "OPENED", type |-> type]
        OBVIOUS
    <2>2. tx \in VaultTxs /\ tx.event = "OPENED"
        BY <2>1 DEF VaultTxs
    <2>3. Mine(tx) /\ VaultStatus = "NONE" /\ hedges' = hedges
        BY <1>2, <2>1 DEF OpenPosition
    <2>4. VaultChain' /\ req' = req
        BY <2>2, <2>3, VaultMoves, ChainLeavesRequests
    <2> QED BY <1>0, <2>2, <2>3, <2>4, ReceiptsKept, HedgeReads
<1>3. ASSUME NEW kind \in CloseKinds, ClosePositionOnChain(kind) PROVE HedgeInv' /\ Kept
    <2>1. PICK tx : tx = [event |-> kind, type |-> mined[1].type]
        OBVIOUS
    <2>2. Mine(tx) /\ VaultStatus = "ACTIVE" /\ hedges' = hedges
        BY <1>3, <2>1 DEF ClosePositionOnChain
    <2>3. tx \in VaultTxs /\ VaultChain' /\ req' = req
        BY <2>1, <2>2, VaultMoves, ChainLeavesRequests
    <2> QED BY <1>0, <2>2, <2>3, ReceiptsKept, HedgeReads
<1>4. CASE ChainStep /\ UNCHANGED hedges
    <2>1. req' = req
        BY <1>4, ChainLeavesRequests
    <2>2. VaultChain'
        <3>1. CASE Confirm
            BY <1>0, <3>1 DEF Confirm, VaultChain
        <3>2. CASE Reorg
            <4>1. PICK keep \in deep..(Len(mined) - 1) : mined' = SubSeq(mined, 1, keep)
                BY <3>2 DEF Reorg, DropUnconfirmed
            <4>a. PICK n \in 0..2, d \in Nat : n = Len(mined) /\ d = deep
                BY <1>0 DEF VaultChain
            <4>b. keep \in d..(n - 1)
                BY <4>a
            <4>2. Len(mined) \in 0..2 /\ keep \in 0..1 /\ keep <= Len(mined)
                BY <4>a, <4>b
            <4>3. Len(mined') = keep /\ \A i \in 1..keep : mined'[i] = mined[i]
                BY <1>0, <4>1, <4>2, SubSeqProperties
            <4> QED BY <1>0, <4>2, <4>3 DEF VaultChain
        <3> QED BY <1>4, <3>1, <3>2 DEF ChainStep
    <2> QED BY <1>0, <1>4, <2>1, <2>2, ReceiptsKept, HedgeReads
<1>5. CASE RequestStep /\ UNCHANGED hedges
    <2>1. /\ DOMAIN req' = Workers /\ UNCHANGED <<mined, deep>>
          /\ \A v \in Workers : req'[v] = req[v] \/ req'[v] = Idle
        BY <1>0, <1>5, RequestEnds
    <2> QED BY <1>0, <1>5, <1>c, <1>i, <2>1, HedgeReads
<1>6. ASSUME NEW w \in Workers, NEW type \in HedgeTypes, CreateHedge(w, type)
      PROVE HedgeInv' /\ Kept
    <2> DEFINE h == [at |-> "create hedge", onChainStatus |-> VaultStatus]
    <2>1. Goto(w, h) /\ UNCHANGED <<mined, deep, hedges>>
        BY <1>6 DEF CreateHedge
    <2>2. h \in Openings /\ h.at = "create hedge"
        BY VaultStatusTyped DEF Openings
    <2> HIDE DEF h
    <2>3. VaultEmitted("OPENED")'
        BY <1>6, <1>c, <2>1 DEF CreateHedge, VerifyHedgeOpen, VaultReceipts, VaultEmitted
    <2>4. HedgeHeld(w)'
        BY <1>0, <2>1, <2>2, <2>3, RequestGoes DEF HedgeHeld, At
    <2> QED BY <1>0, <1>c, <2>1, <2>4, RequestGoes, HedgeReads
<1>7. ASSUME NEW w \in Workers, NEW r \in Hedges, InsertHedge(w, r) PROVE HedgeInv' /\ Kept
    <2>1. req[w] \in Openings /\ VaultEmitted("OPENED") /\ hedges[r].status = "NONE"
        BY <1>7 DEF InsertHedge, HedgeInv, HedgeHeld
    <2>2. PICK row : row = [status |-> "OPEN", pnl |-> FALSE, onChainStatus |-> req[w].onChainStatus]
        OBVIOUS
    <2>3. row \in HedgeRows /\ row.status = "OPEN"
        BY <2>1, <2>2 DEF HedgeRows, Openings
    <2> DEFINE h == [at |-> "audit", entry |-> [event |-> "hedge opened", row |-> r]]
    <2>4. /\ hedges' = [hedges EXCEPT ![r] = row] /\ UNCHANGED <<mined, deep>>
          /\ Goto(w, h) /\ h.at = "audit"
        BY <1>7, <2>2 DEF InsertHedge
    <2> HIDE DEF h
    <2>5. /\ hedges' \in [Hedges -> HedgeRows] /\ hedges'[r] = row
          /\ \A q \in Hedges \ {r} : hedges'[q] = hedges[q]
        BY <1>0, <2>3, <2>4
    <2>6. HedgeProved(r)' /\ HedgeHeld(w)'
        BY <1>0, <1>c, <1>i, <2>1, <2>3, <2>4, <2>5, RequestGoes DEF HedgeProved
    <2>7. Kept
        BY <2>1, <2>5
    <2> QED BY <1>0, <1>c, <2>3, <2>4, <2>5, <2>6, <2>7, RequestGoes, HedgeReads
<1>8. ASSUME NEW w \in Workers, NEW r \in Hedges, ClosePosition(w, r) PROVE HedgeInv' /\ Kept
    <2> DEFINE h == [at |-> "verify close", row |-> r]
    <2>1. Goto(w, h) /\ UNCHANGED <<mined, deep, hedges>> /\ hedges[r].status # "NONE"
        BY <1>8 DEF ClosePosition
    <2>2. h \in Closes /\ h.at = "verify close" /\ h.row = r
        BY DEF Closes
    <2> HIDE DEF h
    <2>3. HedgeHeld(w)'
        BY <1>0, <2>1, <2>2, RequestGoes DEF HedgeHeld, At
    <2> QED BY <1>0, <1>c, <2>1, <2>3, RequestGoes, HedgeReads
<1>9. ASSUME NEW w \in Workers, VerifyClose(w) PROVE HedgeInv' /\ Kept
    <2>1. PICK r \in Hedges : r = req[w].row /\ hedges[r].status # "NONE"
        BY <1>9 DEF VerifyClose, HedgeInv, HedgeHeld, Closes
    <2>2. PICK kind \in CloseKinds :
              /\ VerifyHedgeClose(kind)
              /\ Goto(w, [at |-> "store close", row |-> r, kind |-> kind])
        BY <1>9, <2>1 DEF VerifyClose
    <2> DEFINE h == [at |-> "store close", row |-> r, kind |-> kind]
    <2>3. h \in Closed /\ h.at = "store close" /\ h.row = r /\ h.kind = kind
        BY DEF Closed
    <2>4. Goto(w, h) /\ UNCHANGED <<mined, deep, hedges>>
        BY <1>9, <2>2 DEF VerifyClose
    <2> HIDE DEF h
    <2>5. VaultEmitted(kind)'
        BY <1>c, <2>2, <2>4 DEF VerifyHedgeClose, VaultReceipts, VaultEmitted
    <2>6. req'[w] = h
        BY <1>0, <2>4, RequestGoes
    <2>7. HedgeHeld(w)'
        BY <2>1, <2>3, <2>4, <2>5, <2>6 DEF HedgeHeld, At
    <2> QED BY <1>0, <1>c, <2>4, <2>7, RequestGoes, HedgeReads
<1>10. ASSUME NEW w \in Workers, StoreClose(w) PROVE HedgeInv' /\ Kept
    <2>1. PICK h \in Closed : h = req[w] /\ hedges[h.row].status # "NONE" /\ VaultEmitted(h.kind)
        BY <1>10 DEF StoreClose, HedgeInv, HedgeHeld
    <2>2. PICK r \in Hedges, kind \in CloseKinds : r = h.row /\ kind = h.kind
        BY DEF Closed
    <2>3. PICK row : row = ClosedAs(kind)
        OBVIOUS
    <2> DEFINE g == [at |-> "audit", entry |-> [event |-> kind, row |-> r]]
    <2>4. /\ hedges' = [hedges EXCEPT ![r] = row] /\ UNCHANGED <<mined, deep>>
          /\ Goto(w, g) /\ g.at = "audit"
        BY <1>10, <2>1, <2>2, <2>3 DEF StoreClose, ClosedAs
    <2> HIDE DEF g
    <2>5. row \in HedgeRows /\ row.status # "NONE"
        BY <2>3 DEF ClosedAs, HedgeRows, HedgeStatus
    <2>6. /\ hedges' \in [Hedges -> HedgeRows] /\ hedges'[r] = row
          /\ \A q \in Hedges \ {r} : hedges'[q] = hedges[q]
        BY <1>0, <2>4, <2>5
    <2>7. VaultEmitted(kind)' /\ VaultEmitted("OPENED")'
        BY <1>c, <2>1, <2>2, <2>4 DEF HedgeInv, HedgeProved
    <2>8. HedgeProved(r)'
        BY <2>3, <2>6, <2>7 DEF HedgeProved
    <2>9. HedgeHeld(w)'
        BY <1>0, <1>i, <2>4, RequestGoes
    <2>10. ASSUME hedges[r].status \notin {"NONE", "OPEN"} PROVE hedges'[r] = hedges[r]
        <3>1. PICK l \in CloseKinds : hedges[r] = ClosedAs(l) /\ VaultEmitted(l)
            BY <2>10 DEF HedgeInv, HedgeProved
        <3>2. l = kind
            BY <2>1, <2>2, <3>1, OneClose
        <3> QED BY <2>3, <2>6, <3>1, <3>2
    <2>11. Kept
        BY <2>6, <2>10
    <2> QED BY <1>0, <1>c, <2>4, <2>5, <2>6, <2>8, <2>9, <2>11, RequestGoes, HedgeReads
<1> QED BY <1>1, <1>2, <1>3, <1>4, <1>5, <1>6, <1>7, <1>8, <1>9, <1>10 DEF HedgeNext


(***************************************************************************)
(* Liquidity positions (PoolRecords).                                      *)
(***************************************************************************)
PoolTxs == Settlements \cup {Flashed}
PositionRows == [position : Positions \cup {"none"}, settlement : PoolTxs]

PoolProved(r) ==
    poolRows[r] # NoPosition =>
        poolRows[r].settlement \in Settlements /\ PoolReceipt(poolRows[r].settlement)
Additions == [at : {"create position"}, position : Positions]
Removals == [at : {"store removal"}, row : PoolRows, position : Positions]
PoolHeld(w) ==
    /\ At(w, "create position") => req[w] \in Additions /\ PoolReceipt(Added(req[w].position))
    /\ At(w, "store removal") => req[w] \in Removals /\ PoolReceipt(Removed(req[w].position))

PoolInv ==
    /\ DOMAIN req = Workers
    /\ mined \in Seq(PoolTxs) /\ deep \in 0..Len(mined)
    /\ poolRows \in [PoolRows -> PositionRows]
    /\ \A r \in PoolRows : PoolProved(r)
    /\ \A w \in Workers : PoolHeld(w)

LEMMA PoolStart == RequestsInit /\ PoolInit => PoolInv
<1> SUFFICES ASSUME RequestsInit, PoolInit PROVE PoolInv
    OBVIOUS
<1>1. DOMAIN req = Workers /\ mined \in Seq(PoolTxs) /\ deep \in 0..Len(mined)
    BY DEF RequestsInit
<1>2. poolRows \in [PoolRows -> PositionRows]
    BY DEF PoolInit, PositionRows, NoPosition, PoolTxs
<1>3. \A r \in PoolRows : PoolProved(r)
    BY DEF PoolInit, PoolProved
<1>4. \A w \in Workers : PoolHeld(w)
    BY DEF RequestsInit, PoolHeld, At, Idle
<1> QED BY <1>1, <1>2, <1>3, <1>4 DEF PoolInv

LEMMA PoolReads ==
    ASSUME PoolInv, poolRows' \in [PoolRows -> PositionRows],
           \A r \in PoolRows : poolRows'[r] = poolRows[r] \/ PoolProved(r)',
           mined' \in Seq(PoolTxs), deep' \in 0..Len(mined'),
           Canonical \subseteq Canonical', \A i \in Canonical : mined'[i] = mined[i],
           DOMAIN req' = Workers,
           \A w \in Workers : req'[w] = req[w] \/ PoolHeld(w)'
    PROVE  PoolInv'
<1>1. \A tx : PoolReceipt(tx) => PoolReceipt(tx)'
    BY DEF PoolReceipt
<1>2. ASSUME NEW r \in PoolRows, poolRows'[r] = poolRows[r] PROVE PoolProved(r)'
    <2>1. PICK row : row = poolRows[r] /\ poolRows'[r] = row
        BY <1>2
    <2>2. row # NoPosition => row.settlement \in Settlements /\ PoolReceipt(row.settlement)'
        BY <1>1, <2>1 DEF PoolInv, PoolProved
    <2> QED BY <2>1, <2>2 DEF PoolProved
<1>3. ASSUME NEW w \in Workers, req'[w] = req[w] PROVE PoolHeld(w)'
    <2>1. PICK h : h = req[w] /\ req'[w] = h
        BY <1>3
    <2>2. /\ h.at = "create position" => h \in Additions /\ PoolReceipt(Added(h.position))'
          /\ h.at = "store removal" => h \in Removals /\ PoolReceipt(Removed(h.position))'
        BY <1>1, <2>1 DEF PoolInv, PoolHeld, At
    <2> QED BY <2>1, <2>2 DEF PoolHeld, At
<1> QED BY <1>2, <1>3 DEF PoolInv

LEMMA PoolStep == PoolInv /\ [PoolNext]_<<shared, poolRows>> => PoolInv'
<1> SUFFICES ASSUME PoolInv, [PoolNext]_<<shared, poolRows>> PROVE PoolInv'
    OBVIOUS
<1>0. /\ poolRows \in [PoolRows -> PositionRows] /\ DOMAIN req = Workers
      /\ mined \in Seq(PoolTxs) /\ deep \in 0..Len(mined)
    BY DEF PoolInv
<1>i. ASSUME NEW w \in Workers, req'[w] = Idle \/ req'[w].at = "audit" PROVE PoolHeld(w)'
    <2>1. CASE req'[w] = Idle
        <3>1. req'[w].at = "idle"
            BY <2>1 DEF Idle
        <3> QED BY <3>1 DEF PoolHeld, At
    <2>2. CASE req'[w].at = "audit"
        BY <2>2 DEF PoolHeld, At
    <2> QED BY <1>i, <2>1, <2>2
<1>c. UNCHANGED <<mined, deep>> =>
          /\ mined' \in Seq(PoolTxs) /\ deep' \in 0..Len(mined')
          /\ Canonical \subseteq Canonical' /\ \A i \in Canonical : mined'[i] = mined[i]
          /\ \A tx : PoolReceipt(tx) => PoolReceipt(tx)'
    BY <1>0 DEF Canonical, Receipts, PoolReceipt
<1>1. CASE UNCHANGED <<shared, poolRows>>
    BY <1>0, <1>1, <1>c, PoolReads DEF shared
<1>2. CASE FlashOnChain \/ \E p \in Positions : AddOnChain(p) \/ RemoveOnChain(p)
    <2>1. PICK tx \in PoolTxs : Mine(tx) /\ poolRows' = poolRows
        BY <1>2 DEF FlashOnChain, AddOnChain, RemoveOnChain, PoolTxs, Settlements
    <2>2. req' = req
        BY <2>1, ChainLeavesRequests
    <2> QED BY <1>0, <2>1, <2>2, ReceiptsKept, PoolReads
<1>3. CASE ChainStep /\ UNCHANGED poolRows
    <2>1. req' = req
        BY <1>3, ChainLeavesRequests
    <2> QED BY <1>0, <1>3, <2>1, ReceiptsKept, PoolReads
<1>4. CASE RequestStep /\ UNCHANGED poolRows
    <2>1. /\ DOMAIN req' = Workers /\ UNCHANGED <<mined, deep>>
          /\ \A v \in Workers : req'[v] = req[v] \/ req'[v] = Idle
        BY <1>0, <1>4, RequestEnds
    <2> QED BY <1>0, <1>4, <1>c, <1>i, <2>1, PoolReads
<1>5. ASSUME NEW w \in Workers, NEW p \in Positions, AddLiquidity(w, p) PROVE PoolInv'
    <2> DEFINE h == [at |-> "create position", position |-> p]
    <2>1. Goto(w, h) /\ UNCHANGED <<mined, deep, poolRows>> /\ PoolReceipt(Added(p))
        BY <1>5 DEF AddLiquidity, VerifyLiquiditySettlement
    <2>2. h \in Additions /\ h.at = "create position" /\ h.position = p
        BY DEF Additions
    <2> HIDE DEF h
    <2>3. req'[w] = h /\ PoolReceipt(Added(p))'
        BY <1>0, <1>c, <2>1, RequestGoes
    <2>4. PoolHeld(w)'
        BY <2>2, <2>3 DEF PoolHeld, At
    <2> QED BY <1>0, <1>c, <2>1, <2>4, RequestGoes, PoolReads
<1>6. ASSUME NEW w \in Workers, NEW r \in PoolRows, InsertPosition(w, r) PROVE PoolInv'
    <2>1. PICK p \in Positions : p = req[w].position /\ PoolReceipt(Added(p))
        BY <1>6 DEF InsertPosition, PoolInv, PoolHeld, Additions
    <2>2. PICK row : row = [position |-> p, settlement |-> Added(p)]
        OBVIOUS
    <2>3. row \in PositionRows /\ row.settlement = Added(p) /\ Added(p) \in Settlements
        BY <2>2 DEF PositionRows, PoolTxs, Settlements
    <2> DEFINE h == [at |-> "audit", entry |-> [event |-> "liquidity added", row |-> r]]
    <2>4. /\ poolRows' = [poolRows EXCEPT ![r] = row] /\ UNCHANGED <<mined, deep>>
          /\ Goto(w, h) /\ h.at = "audit"
        BY <1>6, <2>1, <2>2 DEF InsertPosition
    <2> HIDE DEF h
    <2>5. /\ poolRows' \in [PoolRows -> PositionRows] /\ poolRows'[r] = row
          /\ \A q \in PoolRows \ {r} : poolRows'[q] = poolRows[q]
        BY <1>0, <2>3, <2>4
    <2>6. PoolReceipt(Added(p))'
        BY <1>c, <2>1, <2>4
    <2>7. PoolProved(r)' /\ PoolHeld(w)'
        BY <1>0, <1>i, <2>3, <2>4, <2>5, <2>6, RequestGoes DEF PoolProved
    <2> QED BY <1>0, <1>c, <2>4, <2>5, <2>7, RequestGoes, PoolReads
<1>7. ASSUME NEW w \in Workers, NEW r \in PoolRows, NEW p \in Positions, RemoveLiquidity(w, r, p)
      PROVE  PoolInv'
    <2> DEFINE h == [at |-> "store removal", row |-> r, position |-> p]
    <2>1. Goto(w, h) /\ UNCHANGED <<mined, deep, poolRows>> /\ PoolReceipt(Removed(p))
        BY <1>7 DEF RemoveLiquidity, VerifyLiquiditySettlement
    <2>2. h \in Removals /\ h.at = "store removal" /\ h.position = p
        BY DEF Removals
    <2> HIDE DEF h
    <2>3. req'[w] = h /\ PoolReceipt(Removed(p))'
        BY <1>0, <1>c, <2>1, RequestGoes
    <2>4. PoolHeld(w)'
        BY <2>2, <2>3 DEF PoolHeld, At
    <2> QED BY <1>0, <1>c, <2>1, <2>4, RequestGoes, PoolReads
<1>8. ASSUME NEW w \in Workers, StoreRemoval(w) PROVE PoolInv'
    <2>1. /\ req[w] \in Removals /\ PoolReceipt(Removed(req[w].position))
        BY <1>8 DEF StoreRemoval, PoolInv, PoolHeld
    <2>2. PICK r \in PoolRows, p \in Positions : r = req[w].row /\ p = req[w].position
        BY <2>1 DEF Removals
    <2>3. PICK row : row = [poolRows[r] EXCEPT !.settlement = Removed(p)]
        OBVIOUS
    <2>4. row \in PositionRows /\ row.settlement = Removed(p) /\ Removed(p) \in Settlements
        BY <1>0, <2>3 DEF PositionRows, PoolTxs, Settlements
    <2> DEFINE h == [at |-> "audit", entry |-> [event |-> "liquidity removed", row |-> r]]
    <2>5. /\ poolRows' = [poolRows EXCEPT ![r].settlement = Removed(p)] /\ UNCHANGED <<mined, deep>>
          /\ Goto(w, h) /\ h.at = "audit"
        BY <1>8, <2>2 DEF StoreRemoval
    <2> HIDE DEF h
    <2>6. /\ poolRows' \in [PoolRows -> PositionRows] /\ poolRows'[r] = row
          /\ \A q \in PoolRows \ {r} : poolRows'[q] = poolRows[q]
        BY <1>0, <2>3, <2>4, <2>5
    <2>7. PoolReceipt(Removed(p))'
        BY <1>c, <2>1, <2>2, <2>5
    <2>8. PoolProved(r)' /\ PoolHeld(w)'
        BY <1>0, <1>i, <2>4, <2>5, <2>6, <2>7, RequestGoes DEF PoolProved
    <2> QED BY <1>0, <1>c, <2>5, <2>6, <2>8, RequestGoes, PoolReads
<1>9. ASSUME NEW w \in Workers, RequestFlashLiquidity(w) PROVE PoolInv'
    <2> DEFINE h == [at |-> "audit", entry |-> [event |-> "flash loan"]]
    <2>1. Goto(w, h) /\ UNCHANGED <<mined, deep, poolRows>> /\ h.at = "audit"
        BY <1>9 DEF RequestFlashLiquidity
    <2> HIDE DEF h
    <2>2. PoolHeld(w)'
        BY <1>0, <1>i, <2>1, RequestGoes
    <2> QED BY <1>0, <1>c, <2>1, <2>2, RequestGoes, PoolReads
<1> QED BY <1>1, <1>2, <1>3, <1>4, <1>5, <1>6, <1>7, <1>8, <1>9 DEF PoolNext


(***************************************************************************)
(* What is left of the types of a business's row and of a page.            *)
(***************************************************************************)
MirrorRest ==
    /\ keys \subseteq used /\ used \subseteq Challenges
    /\ \A w \in Workers : At(w, "finalize registration") => req[w].challenge \in Challenges

LEMMA MirrorRestStart == RequestsInit /\ MirrorInit => MirrorRest
<1> SUFFICES ASSUME RequestsInit, MirrorInit PROVE MirrorRest
    OBVIOUS
<1>1. ASSUME NEW w \in Workers PROVE ~At(w, "finalize registration")
    <2>1. req[w] = Idle
        BY DEF RequestsInit
    <2>2. Idle.at = "idle"
        BY DEF Idle
    <2> QED BY <2>1, <2>2 DEF At
<1>2. keys = {} /\ used = {}
    BY DEF MirrorInit
<1> QED BY <1>1, <1>2 DEF MirrorRest

LEMMA MirrorRestStep ==
    BusinessInv /\ MirrorRest /\ [MirrorNext]_<<shared, mirrorVars>> => MirrorRest'
<1> SUFFICES ASSUME BusinessInv, MirrorRest, [MirrorNext]_<<shared, mirrorVars>>
             PROVE MirrorRest'
    OBVIOUS
<1>0. DOMAIN req = Workers
    BY DEF BusinessInv, MirrorTypes
<1>1. ASSUME keys' \subseteq used', used' \subseteq Challenges, NEW w \in Workers, NEW h, Goto(w, h),
             h.at # "finalize registration" \/ h.challenge \in Challenges
      PROVE  MirrorRest'
    <2>1. ASSUME NEW v \in Workers, At(v, "finalize registration")'
          PROVE req'[v].challenge \in Challenges
        <3>1. CASE v = w
            BY <1>0, <1>1, <2>1, <3>1, RequestGoes DEF At
        <3>2. CASE v # w
            <4>1. req'[v] = req[v]
                BY <1>0, <1>1, <3>2, RequestGoes
            <4> QED BY <2>1, <4>1 DEF At, MirrorRest
        <3> QED BY <3>1, <3>2
    <2> QED BY <1>1, <2>1 DEF MirrorRest, At
<1>2. CASE RegistryStep \/ (ChainStep /\ UNCHANGED mirrorVars) \/ UNCHANGED <<shared, mirrorVars>>
    <2>1. req' = req /\ UNCHANGED <<keys, used>>
        <3>1. CASE RegistryStep
            BY <3>1, RegistryMines, MirrorAssumption, ChainLeavesRequests DEF mirrorVars
        <3>2. CASE ChainStep /\ UNCHANGED mirrorVars
            BY <3>2, ChainLeavesRequests DEF mirrorVars
        <3>3. CASE UNCHANGED <<shared, mirrorVars>>
            BY <3>3 DEF shared, mirrorVars
        <3> QED BY <1>2, <3>1, <3>2, <3>3
    <2> QED BY <2>1 DEF MirrorRest, At
<1>3. CASE RequestStep /\ UNCHANGED mirrorVars
    <2>1. PICK w \in Workers : Goto(w, Idle)
        BY <1>3 DEF RequestStep, Audit, Fail, Done
    <2> QED BY <1>1, <1>3, <2>1 DEF mirrorVars, MirrorRest, Idle
<1>4. ASSUME NEW w \in Workers, FinalizeRegistration(w) PROVE MirrorRest'
    <2>1. PICK c \in Challenges : used' = used \cup {c} /\ keys' = {c} /\ Goto(w, Idle)
        BY <1>4 DEF FinalizeRegistration, KeysIssued, MirrorRest, Done
    <2> QED BY <1>1, <2>1 DEF MirrorRest, Idle
<1>5. ASSUME NEW w \in Workers, PersistTransition(w) PROVE MirrorRest'
    <2>1. (keys' = keys \/ keys' = {}) /\ used' = used /\ Goto(w, Idle)
        BY <1>5 DEF PersistTransition, Done
    <2> QED BY <1>1, <2>1 DEF MirrorRest, Idle
<1>6. ASSUME NEW w \in Workers, NEW c \in Challenges, NEW i, ProveRegistration(w, c, i)
      PROVE MirrorRest'
    <2> DEFINE h == [at |-> "finalize registration", challenge |-> c, tx |-> i]
    <2>1. Goto(w, h) /\ h.challenge = c /\ UNCHANGED <<keys, used>>
        BY <1>6 DEF ProveRegistration, mirrorVars
    <2> HIDE DEF h
    <2> QED BY <1>1, <2>1 DEF MirrorRest
<1>7. ASSUME NEW w \in Workers, NEW op, NEW i, NEW from, NEW update, Proved(w, op, i, from, update)
      PROVE  MirrorRest'
    <2> DEFINE h == [at |-> "persist", tx |-> i, from |-> from, update |-> update]
    <2>1. Goto(w, h) /\ h.at = "persist" /\ UNCHANGED <<keys, used>>
        BY <1>7 DEF Proved, mirrorVars
    <2> HIDE DEF h
    <2> QED BY <1>1, <2>1 DEF MirrorRest
<1>8. ASSUME NEW w \in Workers, NEW i,
             \/ ReconcileVerification(w, i) \/ ReconcileTierUpgrade(w, i)
             \/ ReconcileSuspension(w, i) \/ ReconcileReinstatement(w, i)
             \/ ReconcileRevocation(w, i)
      PROVE  MirrorRest'
    BY <1>7, <1>8 DEF ReconcileVerification, ReconcileTierUpgrade, ReconcileSuspension,
                      ReconcileReinstatement, ReconcileRevocation
<1> QED BY <1>2, <1>3, <1>4, <1>5, <1>6, <1>8 DEF MirrorNext

LEMMA MirrorTyped == BusinessInv /\ MirrorRest => RequestsTypeOK /\ MirrorTypeOK
<1> SUFFICES ASSUME BusinessInv, MirrorRest PROVE RequestsTypeOK /\ MirrorTypeOK
    OBVIOUS
<1>1. NoRegistration \in States /\ Registered \subseteq States
    BY MirrorAssumption, RequestsAssumption DEF NoRegistration, States, Registered
<1>2. history \in Seq(Receipts)
    <2>1. /\ history \in Seq(Nat) /\ Len(history) \in Nat
          /\ \A k \in 1..Len(history) : history[k] \in Receipts
        BY LenProperties DEF BusinessInv, MirrorTypes, HistoryTells, Canonical
    <2>2. history \in [1..Len(history) -> Receipts]
        BY <2>1, LenProperties
    <2> QED BY <2>1, <2>2, SeqDef
<1> QED BY <1>1, <1>2 DEF BusinessInv, MirrorTypes, MirrorRest, MirrorTypeOK, RequestsTypeOK

PageRest ==
    /\ session \subseteq Wallets /\ cached \subseteq Wallets
    /\ Len(sent) <= MaxSent /\ recorded \subseteq 1..Len(sent)

LEMMA PageRestStart == PageInit => PageRest
BY PagesAssumption DEF PageInit, PageRest

LEMMA PageRestStep == PageInv /\ PageRest /\ [PageNext]_pageVars => PageRest'
<1> SUFFICES ASSUME PageInv, PageRest, [PageNext]_pageVars PROVE PageRest'
    OBVIOUS
<1>0. /\ connected \in Wallets /\ sent \in Seq(Sent) /\ Len(sent) \in Nat
      /\ write.at \in {"receipt", "api"} => write.tx \in 1..Len(sent)
    BY LenProperties DEF PageInv, PageTypes
<1>1. CASE UNCHANGED pageVars
    BY <1>1 DEF pageVars, browser, PageRest
<1>2. ASSUME NEW w \in Wallets, SelectAccount(w) \/ SignIn(w) PROVE PageRest'
    BY <1>2 DEF SelectAccount, SignIn, Fetched, PageRest
<1>3. CASE SignOut \/ RefreshSession
    BY <1>0, <1>3 DEF SignOut, RefreshSession, Fetched, PageRest
<1>4. ASSUME NEW i \in Items, Order(i) \/ Resume(i) PROVE PageRest'
    BY <1>4 DEF Order, Resume, Quiet, browser, PageRest
<1>5. CASE Recover \/ SeeConfirmed \/ Reverted \/ GiveUp \/ Reload
    BY <1>5 DEF Recover, SeeConfirmed, Reverted, GiveUp, Reload, Quiet, browser, PageRest
<1>6. CASE Send
    <2>1. \E tx : sent' = Append(sent, tx)
        BY <1>6 DEF Send
    <2>2. Len(sent') = Len(sent) + 1 /\ Len(sent) < MaxSent
        BY <1>0, <1>6, <2>1 DEF Send
    <2>3. UNCHANGED <<session, cached, recorded>>
        BY <1>6 DEF Send, Quiet, browser
    <2> QED BY <1>0, <2>2, <2>3, PagesAssumption DEF PageRest
<1>7. CASE Answered
    BY <1>0, <1>7 DEF Answered, Quiet, browser, PageRest
<1>8. CASE Unanswered
    BY <1>0, <1>8 DEF Unanswered, Quiet, browser, PageRest
<1>9. ASSUME NEW n \in DOMAIN sent, MineSent(n) PROVE PageRest'
    <2>1. PICK status : sent' = [sent EXCEPT ![n].status = status]
        BY <1>9 DEF MineSent
    <2>2. Len(sent') = Len(sent)
        BY <1>0, <2>1
    <2> QED BY <1>9, <2>2 DEF MineSent, Quiet, browser, PageRest
<1> QED BY <1>1, <1>2, <1>3, <1>4, <1>5, <1>6, <1>7, <1>8, <1>9 DEF PageNext

LEMMA PageTyped == PageInv /\ PageRest => PageTypeOK
<1> SUFFICES ASSUME PageInv, PageRest PROVE PageTypeOK
    OBVIOUS
<1>1. sent \in Seq(Sent) /\ DOMAIN sent = 1..Len(sent)
    BY LenProperties DEF PageInv, PageTypes
<1>2. write.at \in {"idle", "send", "receipt", "api"}
    BY DEF PageInv, PageTypes, Writes, Idle0
<1> QED BY <1>1, <1>2 DEF PageInv, PageTypes, PageRest, PageTypeOK


(***************************************************************************)
(* One service at a time (MCRecords).  The state of a service that does    *)
(* not serve is as it started; the one that serves keeps its invariant.    *)
(***************************************************************************)
Chained == {"treasury", "streams", "hedges", "transfers", "pool", "appeals", "registry", "payments"}

ServiceInv ==
    /\ IF scenario = "treasury" THEN TreasuryInv ELSE TreasuryInit
    /\ IF scenario = "streams" THEN StreamInv ELSE StreamInit
    /\ IF scenario = "hedges" THEN HedgeInv ELSE HedgeInit
    /\ IF scenario = "transfers" THEN TransferInv ELSE TransferInit
    /\ IF scenario = "pool" THEN PoolInv ELSE PoolInit
    /\ IF scenario = "appeals" THEN AppealInv ELSE AppealInit
    /\ IF scenario = "invoices" THEN InvoiceInv ELSE InvoiceInit
    /\ IF scenario = "registry" THEN BusinessInv /\ MirrorRest ELSE MirrorInit
    /\ IF scenario = "pages" THEN PageInv /\ PageRest ELSE PageInit
    /\ IF scenario = "payments" THEN ClaimsInv ELSE ClaimsInit

\* The chain does not move where no service reads it.
ChainIdle == scenario \notin Chained => mined = <<>> /\ deep = 0 /\ DOMAIN req = Workers

RecordsInv == ServiceInv /\ ChainIdle

LEMMA RecordsStart == MCInit => RecordsInv
<1> SUFFICES ASSUME MCInit PROVE RecordsInv
    OBVIOUS
<1>1. /\ RequestsInit /\ TreasuryInit /\ StreamInit /\ HedgeInit /\ TransferInit /\ PoolInit
      /\ AppealInit /\ InvoiceInit /\ MirrorInit /\ PageInit /\ ClaimsInit
    BY DEF MCInit
<1>2. /\ TreasuryInv /\ StreamInv /\ HedgeInv /\ TransferInv /\ PoolInv /\ AppealInv /\ InvoiceInv
      /\ BusinessInv /\ MirrorRest /\ PageInv /\ PageRest /\ ClaimsInv
    BY <1>1, TreasuryStart, StreamStart, HedgeStart, TransferStart, PoolStart, AppealStart,
       InvoiceStart, BusinessInit, MirrorRestStart, PageStart, PageRestStart, ClaimsStart
<1>3. ServiceInv
    BY <1>1, <1>2 DEF ServiceInv
<1>4. ChainIdle
    BY <1>1 DEF ChainIdle, RequestsInit
<1> QED BY <1>3, <1>4 DEF RecordsInv

\* The invoices' gateway is no contract.
LEMMA InvoicesOffChain ==
    ASSUME DOMAIN req = Workers, [InvoiceNext]_<<shared, invoiceVars>>
    PROVE  UNCHANGED <<mined, deep>> /\ DOMAIN req' = Workers
<1>1. CASE UNCHANGED <<shared, invoiceVars>>
    BY <1>1 DEF shared
<1>2. CASE DebtorPays
    BY <1>2 DEF DebtorPays, shared
<1>3. ASSUME NEW w \in Workers, Fail(w) PROVE UNCHANGED <<mined, deep>> /\ DOMAIN req' = Workers
    BY <1>3 DEF Fail, Done, Goto
<1>4. ASSUME NEW w \in Workers, \/ CreateInvoice(w) \/ CallGateway(w) \/ StoreFinancing(w)
                                \/ SettleInvoice(w) \/ StoreSettlement(w) \/ RaiseDispute(w)
                                \/ \E k \in Keys, amount \in 1..Face : RequestFinancing(w, k, amount)
      PROVE UNCHANGED <<mined, deep>> /\ DOMAIN req' = Workers
    BY <1>4 DEF CreateInvoice, CallGateway, StoreFinancing, SettleInvoice, StoreSettlement,
        RaiseDispute, RequestFinancing, Done, Goto, shared
<1> QED BY <1>1, <1>2, <1>3, <1>4 DEF InvoiceNext

\* The service that serves steps; the others stay.
LEMMA OneServes ==
    ASSUME [MCNext /\ UNCHANGED scenario]_allVars
    PROVE  /\ scenario' = scenario
           /\ IF scenario = "treasury" THEN [TreasuryNext]_<<shared, treasuryVars>> ELSE UNCHANGED treasuryVars
           /\ IF scenario = "streams" THEN [StreamNext]_<<shared, streamVars>> ELSE UNCHANGED streamVars
           /\ IF scenario = "hedges" THEN [HedgeNext]_<<shared, hedges>> ELSE UNCHANGED hedges
           /\ IF scenario = "transfers" THEN [TransferNext]_transferAll ELSE UNCHANGED transferVars
           /\ IF scenario = "pool" THEN [PoolNext]_<<shared, poolRows>> ELSE UNCHANGED poolRows
           /\ IF scenario = "appeals" THEN [AppealNext]_<<shared, appealVars>> ELSE UNCHANGED appealVars
           /\ IF scenario = "invoices" THEN [InvoiceNext]_<<shared, invoiceVars>> ELSE UNCHANGED invoiceVars
           /\ IF scenario = "registry" THEN [MirrorNext]_<<shared, mirrorVars>> ELSE UNCHANGED mirrorVars
           /\ IF scenario = "pages" THEN [PageNext]_pageVars /\ UNCHANGED shared ELSE UNCHANGED pageVars
           /\ IF scenario = "payments" THEN [ClaimsNext]_<<shared, payments>> ELSE UNCHANGED payments
           /\ scenario \notin Chained \cup {"invoices"} => UNCHANGED shared
<1>1. CASE UNCHANGED allVars
    BY <1>1 DEF allVars, services, transferAll
<1>2. CASE MCNext /\ UNCHANGED scenario
    BY <1>2 DEF MCNext, Chained
<1> QED BY <1>1, <1>2

LEMMA RecordsStep == RecordsInv /\ [MCNext /\ UNCHANGED scenario]_allVars => RecordsInv'
<1> SUFFICES ASSUME RecordsInv, [MCNext /\ UNCHANGED scenario]_allVars PROVE RecordsInv'
    OBVIOUS
<1>0. scenario' = scenario
    BY OneServes
<1>1. IF scenario = "treasury" THEN TreasuryInv' ELSE TreasuryInit'
    <2>1. CASE scenario = "treasury"
        BY <2>1, OneServes, TreasuryStep DEF RecordsInv, ServiceInv
    <2>2. CASE scenario # "treasury"
        BY <2>2, OneServes DEF RecordsInv, ServiceInv, TreasuryInit, treasuryVars
    <2> QED BY <2>1, <2>2
<1>2. IF scenario = "streams" THEN StreamInv' ELSE StreamInit'
    <2>1. CASE scenario = "streams"
        BY <2>1, OneServes, StreamStep DEF RecordsInv, ServiceInv
    <2>2. CASE scenario # "streams"
        BY <2>2, OneServes DEF RecordsInv, ServiceInv, StreamInit, streamVars
    <2> QED BY <2>1, <2>2
<1>3. IF scenario = "hedges" THEN HedgeInv' ELSE HedgeInit'
    <2>1. CASE scenario = "hedges"
        BY <2>1, OneServes, HedgeStep DEF RecordsInv, ServiceInv
    <2>2. CASE scenario # "hedges"
        BY <2>2, OneServes DEF RecordsInv, ServiceInv, HedgeInit
    <2> QED BY <2>1, <2>2
<1>4. IF scenario = "transfers" THEN TransferInv' ELSE TransferInit'
    <2>1. CASE scenario = "transfers"
        BY <2>1, OneServes, TransferStep DEF RecordsInv, ServiceInv
    <2>2. CASE scenario # "transfers"
        BY <2>2, OneServes DEF RecordsInv, ServiceInv, TransferInit, transferVars
    <2> QED BY <2>1, <2>2
<1>5. IF scenario = "pool" THEN PoolInv' ELSE PoolInit'
    <2>1. CASE scenario = "pool"
        BY <2>1, OneServes, PoolStep DEF RecordsInv, ServiceInv
    <2>2. CASE scenario # "pool"
        BY <2>2, OneServes DEF RecordsInv, ServiceInv, PoolInit
    <2> QED BY <2>1, <2>2
<1>6. IF scenario = "appeals" THEN AppealInv' ELSE AppealInit'
    <2>1. CASE scenario = "appeals"
        BY <2>1, OneServes, AppealStep DEF RecordsInv, ServiceInv
    <2>2. CASE scenario # "appeals"
        BY <2>2, OneServes DEF RecordsInv, ServiceInv, AppealInit, appealVars
    <2> QED BY <2>1, <2>2
<1>7. IF scenario = "invoices" THEN InvoiceInv' ELSE InvoiceInit'
    <2>1. CASE scenario = "invoices"
        BY <2>1, OneServes, InvoiceStep DEF RecordsInv, ServiceInv
    <2>2. CASE scenario # "invoices"
        BY <2>2, OneServes DEF RecordsInv, ServiceInv, InvoiceInit, invoiceVars
    <2> QED BY <2>1, <2>2
<1>8. IF scenario = "registry" THEN BusinessInv' /\ MirrorRest' ELSE MirrorInit'
    <2>1. CASE scenario = "registry"
        BY <2>1, OneServes, BusinessStep, MirrorRestStep DEF RecordsInv, ServiceInv
    <2>2. CASE scenario # "registry"
        BY <2>2, OneServes DEF RecordsInv, ServiceInv, MirrorInit, mirrorVars
    <2> QED BY <2>1, <2>2
<1>9. IF scenario = "pages" THEN PageInv' /\ PageRest' ELSE PageInit'
    <2>1. CASE scenario = "pages"
        BY <2>1, OneServes, PageStep, PageRestStep DEF RecordsInv, ServiceInv
    <2>2. CASE scenario # "pages"
        BY <2>2, OneServes DEF RecordsInv, ServiceInv, PageInit, pageVars, browser
    <2> QED BY <2>1, <2>2
<1>10. IF scenario = "payments" THEN ClaimsInv' ELSE ClaimsInit'
    <2>1. CASE scenario = "payments"
        BY <2>1, OneServes, ClaimsStep DEF RecordsInv, ServiceInv
    <2>2. CASE scenario # "payments"
        BY <2>2, OneServes DEF RecordsInv, ServiceInv, ClaimsInit
    <2> QED BY <2>1, <2>2
<1>11. ServiceInv'
    BY <1>0, <1>1, <1>2, <1>3, <1>4, <1>5, <1>6, <1>7, <1>8, <1>9, <1>10 DEF ServiceInv
<1>12. ChainIdle'
    <2>1. CASE scenario = "invoices"
        BY <1>0, <2>1, OneServes, InvoicesOffChain DEF RecordsInv, ChainIdle, Chained
    <2>2. CASE scenario \notin Chained \cup {"invoices"}
        BY <1>0, <2>2, OneServes DEF RecordsInv, ChainIdle, shared
    <2>3. CASE scenario \in Chained
        BY <1>0, <2>3 DEF ChainIdle
    <2> QED BY <2>1, <2>2, <2>3
<1> QED BY <1>11, <1>12 DEF RecordsInv

LEMMA RecordsInvariant == MCSpec => []RecordsInv
<1>1. [MCNext /\ UNCHANGED scenario]_allVars /\ RecordsInv => RecordsInv'
    BY RecordsStep
<1> QED BY <1>1, RecordsStart, PTL DEF MCSpec


\* What a service that does not serve shows is nothing at all.
LEMMA NothingShown ==
    /\ TreasuryInit => ExecutionsMandated /\ TreasuryTypeOK
    /\ StreamInit => NeverOverstated /\ StreamTypeOK
    /\ HedgeInit => HedgeTypeOK
    /\ TransferInit => RefundedNotDelivered /\ TransferTypeOK
    /\ PoolInit => PoolTypeOK
    /\ AppealInit => OutcomesProved /\ AppealTypeOK
    /\ MirrorInit => MirrorHolds /\ MirrorTypeOK
    /\ PageInit => KeptUntilRecorded /\ PageTypeOK
    /\ ClaimsInit => PaymentsProved /\ ClaimsTypeOK
<1>1. ASSUME TreasuryInit PROVE ExecutionsMandated /\ TreasuryTypeOK
    BY <1>1 DEF TreasuryInit, NoProposal, ExecutionsMandated, TreasuryTypeOK
<1>2. ASSUME StreamInit PROVE NeverOverstated /\ StreamTypeOK
    <2>1. NoStream.status = "NONE"
        BY DEF NoStream
    <2>2. NeverOverstated
        BY <1>2, <2>1 DEF StreamInit, NeverOverstated, InStep
    <2>3. NoStream \in StreamRows /\ 0 \in 0..Horizon
        BY TotalNat DEF NoStream, StreamRows, StreamStatus
    <2> QED BY <1>2, <2>2, <2>3 DEF StreamInit, StreamTypeOK, StreamRows
<1>3. ASSUME HedgeInit PROVE HedgeTypeOK
    BY <1>3 DEF HedgeInit, NoHedge, HedgeTypeOK
<1>4. ASSUME TransferInit PROVE RefundedNotDelivered /\ TransferTypeOK
    BY <1>4 DEF TransferInit, NoTransfer, RefundedNotDelivered, TransferTypeOK
<1>5. ASSUME PoolInit PROVE PoolTypeOK
    BY <1>5 DEF PoolInit, NoPosition, PoolTypeOK
<1>6. ASSUME AppealInit PROVE OutcomesProved /\ AppealTypeOK
    BY <1>6 DEF AppealInit, NoAppeal, OutcomesProved, AppealTypeOK, Outcomes
<1>7. ASSUME MirrorInit PROVE MirrorHolds /\ MirrorTypeOK
    <2>1. business = NoRegistration /\ keys = {} /\ used = {} /\ history = <<>>
        BY <1>7 DEF MirrorInit
    <2>2. AppliedOnce
        BY <2>1 DEF AppliedOnce, IsInjective
    <2>3. OneDefaultKey
        BY <2>1, FS_EmptySet DEF OneDefaultKey
    <2>4. NoRegistration \in States
        BY MirrorAssumption, RequestsAssumption DEF NoRegistration, States
    <2> QED BY <2>1, <2>2, <2>3, <2>4 DEF MirrorHolds, MirrorTypeOK
<1>8. ASSUME PageInit PROVE KeptUntilRecorded /\ PageTypeOK
    <2>1. KeptUntilRecorded
        BY <1>8 DEF PageInit, KeptUntilRecorded
    <2>2. sent = <<>> /\ DOMAIN sent = {} /\ Len(sent) = 0
        BY <1>8 DEF PageInit
    <2> QED BY <1>8, <2>1, <2>2, PagesAssumption DEF PageInit, PageTypeOK, Idle0
<1>9. ASSUME ClaimsInit PROVE PaymentsProved /\ ClaimsTypeOK
    BY <1>9 DEF ClaimsInit, NoPayment, PaymentsProved, ClaimsTypeOK
<1> QED BY <1>1, <1>2, <1>3, <1>4, <1>5, <1>6, <1>7, <1>8, <1>9

LEMMA NothingFinanced == InvoiceInit => FinancingReconciles /\ InvoiceTypeOK
<1> SUFFICES ASSUME InvoiceInit PROVE FinancingReconciles /\ InvoiceTypeOK
    OBVIOUS
<1>1. FundedKeys = {}
    BY DEF InvoiceInit, FundedKeys, NoFinancing
<1>2. SumFunctionOnSet(advances, FundedKeys) = 0
    BY <1>1, SumEmpty
<1>3. FinancingReconciles
    BY <1>1, <1>2, InvoiceAssumption DEF InvoiceInit, FinancingReconciles
<1>4. InvoiceTypeOK
    BY InvoiceAssumption DEF InvoiceInit, InvoiceTypeOK, FinancingRows, NoFinancing
<1> QED BY <1>3, <1>4

LEMMA Served == RecordsInv => RecordsProved /\ MirrorHolds /\ KeptUntilRecorded
<1> SUFFICES ASSUME RecordsInv PROVE RecordsProved /\ MirrorHolds /\ KeptUntilRecorded
    OBVIOUS
<1>1. ExecutionsMandated /\ NeverOverstated /\ RefundedNotDelivered
    BY NothingShown, TreasuryProves, StreamProves, TransferProves DEF RecordsInv, ServiceInv
<1>2. OutcomesProved /\ PaymentsProved /\ FinancingReconciles
    BY NothingShown, NothingFinanced, AppealProves, ClaimsProve, InvoiceProves
       DEF RecordsInv, ServiceInv
<1>3. MirrorHolds /\ KeptUntilRecorded
    BY NothingShown, BusinessProves DEF RecordsInv, ServiceInv, PageInv
<1> QED BY <1>1, <1>2, <1>3 DEF RecordsProved

LEMMA Typed == RecordsInv => TypesOK
<1> SUFFICES ASSUME RecordsInv PROVE TypesOK
    OBVIOUS
<1>1. RequestsTypeOK
    <2>1. CASE scenario \notin Chained
        BY <2>1 DEF RecordsInv, ChainIdle, RequestsTypeOK
    <2>2. CASE scenario \in {"treasury", "streams", "hedges", "transfers"}
        BY <2>2 DEF RecordsInv, ServiceInv, TreasuryInv, TreasuryTypes, StreamInv, StreamTypes,
            HedgeInv, TransferInv, TransferTypes, RequestsTypeOK
    <2>3. CASE scenario \in {"pool", "appeals", "payments"}
        BY <2>3
           DEF RecordsInv, ServiceInv, PoolInv, AppealInv, AppealTypes, ClaimsInv,
               ClaimsTypes, RequestsTypeOK
    <2>4. CASE scenario = "registry"
        BY <2>4, MirrorTyped DEF RecordsInv, ServiceInv
    <2> QED BY <2>1, <2>2, <2>3, <2>4 DEF Chained
<1>2. TreasuryTypeOK
    BY NothingShown DEF RecordsInv, ServiceInv, TreasuryInv, TreasuryTypes
<1>3. StreamTypeOK
    BY NothingShown DEF RecordsInv, ServiceInv, StreamInv, StreamTypes
<1>4. HedgeTypeOK
    BY NothingShown DEF RecordsInv, ServiceInv, HedgeInv, HedgeRows, HedgeTypeOK
<1>5. TransferTypeOK
    BY NothingShown DEF RecordsInv, ServiceInv, TransferInv, TransferTypes
<1>6. PoolTypeOK
    <2>1. PoolInv => PoolTypeOK
        BY DEF PoolInv, PositionRows, PoolTypeOK, PoolTxs
    <2> QED BY <2>1, NothingShown DEF RecordsInv, ServiceInv
<1>7. AppealTypeOK
    BY NothingShown DEF RecordsInv, ServiceInv, AppealInv, AppealTypes
<1>8. InvoiceTypeOK
    BY NothingFinanced DEF RecordsInv, ServiceInv, InvoiceInv, InvoiceTypes
<1>9. MirrorTypeOK
    BY NothingShown, MirrorTyped DEF RecordsInv, ServiceInv
<1>10. PageTypeOK
    BY NothingShown, PageTyped DEF RecordsInv, ServiceInv
<1>11. ClaimsTypeOK
    <2>1. ASSUME ClaimsInv, NEW id \in PaymentIds
          PROVE  payments[id].status \in {"NONE", "PENDING", "SETTLED", "CANCELLED", "REFUNDED"}
        <3>1. payments[id] \in {NoPayment} \cup ClaimRows
            BY <2>1 DEF ClaimsInv, ClaimsTypes
        <3> QED BY <3>1 DEF NoPayment, ClaimRows
    <2>2. ClaimsInv => ClaimsTypeOK
        BY <2>1 DEF ClaimsTypeOK
    <2> QED BY <2>2, NothingShown DEF RecordsInv, ServiceInv
<1> QED BY <1>1, <1>2, <1>3, <1>4, <1>5, <1>6, <1>7, <1>8, <1>9, <1>10, <1>11 DEF TypesOK

\* A row that says something happened is right, whatever requests race, die or
\* are repeated and whatever unconfirmed blocks are replaced: executions had
\* their mandate, streams never overstate what is due, a refunded transfer was
\* not delivered, appeals and payments ended as the contract ended them, and an
\* invoice's financing adds up (services/treasury.ts, streaming.ts,
\* crosschain.ts, ai-compliance.ts, payment-reconciliation.ts, invoice.ts).
THEOREM RecordsAreProved == MCSpec => []RecordsProved
BY RecordsInvariant, Served, PTL

\* Rows, requests, the chain and the browser keep their types: no row gets a
\* status, a time or a receipt its table does not have (prisma/schema.prisma
\* and the services that write it).
THEOREM RecordTypes == MCSpec => []TypesOK
BY RecordsInvariant, Typed, PTL

\* The registry's and the page's promises hold in the composition as well
\* (services/business-reconciliation.ts, hooks/usePayment.ts).
THEOREM PromisesKept == MCSpec => []MirrorHolds /\ []KeptUntilRecorded
BY RecordsInvariant, Served, PTL


(***************************************************************************)
(* Every service keeps the book of receipts (ReceiptBook).                 *)
(***************************************************************************)
Grows == Canonical \subseteq Canonical' /\ \A i \in Canonical : mined'[i] = mined[i]

LEMMA ChainGrows ==
    ASSUME NEW S, mined \in Seq(S), deep \in 0..Len(mined),
           ChainStep \/ \E tx : Mine(tx)
    PROVE  Grows
<1>1. CASE ChainStep
    BY <1>1, ReceiptsKept DEF Grows
<1>2. ASSUME NEW tx, Mine(tx) PROVE Grows
    <2>1. mined \in Seq(S \cup {tx})
        <3>1. mined \in [1..Len(mined) -> S] /\ Len(mined) \in Nat
            BY LenProperties
        <3>2. mined \in [1..Len(mined) -> S \cup {tx}]
            BY <3>1
        <3> QED BY <3>1, <3>2, SeqDef
    <2> QED BY <1>2, <2>1, ReceiptsKept DEF Grows
<1> QED BY <1>1, <1>2

\* Facts that receipts prove stay proved.
LEMMA FactsGrow ==
    ASSUME Grows, scenario' = scenario
    PROVE  Confirmed(scenario) \subseteq Confirmed(scenario)'
<1>1. \A i \in Canonical : i \in Canonical' /\ mined'[i] = mined[i]
    BY DEF Grows
<1>2. CASE scenario = "streams"
    BY <1>1, <1>2 DEF Confirmed
<1>3. CASE scenario \in {"hedges", "appeals"}
    BY <1>1, <1>3 DEF Confirmed
<1>4. CASE scenario \notin {"streams", "hedges", "appeals"}
    BY <1>1, <1>4 DEF Confirmed
<1> QED BY <1>2, <1>3, <1>4

LEMMA BookGrows ==
    ASSUME Confirmed(scenario) \subseteq Confirmed(scenario)',
           \A r \in AllRows : Claims(r)' = Claims(r)
    PROVE  [Book!Next]_(Book!vars)
<1>1. [r \in AllRows |-> Claims(r)]' = [r \in AllRows |-> Claims(r)]
    OBVIOUS
<1> QED BY <1>1 DEF Book!Next, Book!Prove, Book!vars

LEMMA BookTaken ==
    ASSUME Confirmed(scenario)' = Confirmed(scenario), NEW r \in AllRows,
           \A q \in AllRows \ {r} : Claims(q)' = Claims(q),
           Claims(r)' # {}, Claims(r)' \subseteq Confirmed(scenario)
    PROVE  Book!Next
<1>1. [q \in AllRows |-> Claims(q)]'
        = [[q \in AllRows |-> Claims(q)] EXCEPT ![r] = [q \in AllRows |-> Claims(q)]'[r]]
    OBVIOUS
<1>2. [q \in AllRows |-> Claims(q)]'[r] = Claims(r)'
    OBVIOUS
<1>3. Book!Write(r)
    BY <1>1, <1>2 DEF Book!Write
<1> QED BY <1>3 DEF Book!Next


LEMMA Unmoved == UNCHANGED <<mined, deep>> => Grows
BY DEF Grows, Canonical, Receipts

(* Treasury. *)
LEMMA TreasuryTurns ==
    ASSUME TreasuryInv, [TreasuryNext]_<<shared, treasuryVars>>
    PROVE  \/ Grows /\ \A r \in Proposals : TreasuryClaims(proposals'[r]) = TreasuryClaims(proposals[r])
           \/ /\ UNCHANGED <<mined, deep>>
              /\ \E r \in Proposals : /\ \A q \in Proposals \ {r} : proposals'[q] = proposals[q]
                                      /\ TreasuryClaims(proposals'[r]) # {}
<1> DEFINE Same == Grows /\ \A r \in Proposals : TreasuryClaims(proposals'[r]) = TreasuryClaims(proposals[r])
           One == /\ UNCHANGED <<mined, deep>>
                  /\ \E r \in Proposals : /\ \A q \in Proposals \ {r} : proposals'[q] = proposals[q]
                                          /\ TreasuryClaims(proposals'[r]) # {}
<1> SUFFICES Same \/ One
    OBVIOUS
<1>0. /\ mined \in Seq(OnChainIds) /\ deep \in 0..Len(mined) /\ DOMAIN proposals = Proposals
      /\ \A p \in Proposals : DOMAIN proposals[p] = {"status", "required", "approvedBy", "lapsed", "executionTx"}
    BY DEF TreasuryInv, TreasuryTypes, TreasuryTypeOK
<1>1. CASE UNCHANGED proposals /\ (UNCHANGED <<mined, deep>> \/ ChainStep \/ \E tx : Mine(tx))
    BY <1>0, <1>1, ChainGrows, Unmoved
<1>2. CASE \/ UNCHANGED <<shared, treasuryVars>>
           \/ UpdateSpendingPolicy
           \/ (RequestStep \/ ChainStep) /\ UNCHANGED treasuryVars
    BY <1>0, <1>1, <1>2, RequestEnds
       DEF shared, treasuryVars, UpdateSpendingPolicy, TreasuryInv, TreasuryTypes
<1>3. ASSUME NEW id \in OnChainIds, TreasuryExecutes(id) PROVE Same \/ One
    BY <1>1, <1>3 DEF TreasuryExecutes, treasuryVars
<1>4. ASSUME NEW w \in Workers, NEW p \in Proposals, NEW id, CreateProposal(w, p) \/ ExecuteProposal(w, p, id)
      PROVE  Same \/ One
    BY <1>1, <1>4 DEF CreateProposal, ExecuteProposal, treasuryVars
<1>5. ASSUME NEW w \in Workers, VerifyExecution(w) PROVE Same \/ One
    BY <1>1, <1>5 DEF VerifyExecution, treasuryVars
<1>6. ASSUME UNCHANGED <<mined, deep>>, NEW p \in Proposals,
             \A q \in Proposals \ {p} : proposals'[q] = proposals[q],
             proposals'[p].executionTx = proposals[p].executionTx
      PROVE  Same \/ One
    <2>1. \A q \in Proposals : TreasuryClaims(proposals'[q]) = TreasuryClaims(proposals[q])
        BY <1>6 DEF TreasuryClaims
    <2> QED BY <1>6, <2>1, Unmoved
<1>7. ASSUME NEW p \in Proposals, Lapse(p) PROVE Same \/ One
    BY <1>0, <1>6, <1>7 DEF Lapse, shared
<1>8. ASSUME NEW w \in Workers, NEW p \in Proposals, NEW s \in Signers, ApproveProposal(w, p, s)
      PROVE Same \/ One
    <2>1. UNCHANGED <<mined, deep>>
        BY <1>8 DEF ApproveProposal
    <2>2. CASE proposals' = [proposals EXCEPT ![p].status = "EXPIRED"]
        BY <1>0, <1>6, <2>1, <2>2
    <2>3. ASSUME NEW a, NEW s2, proposals' = [proposals EXCEPT ![p].approvedBy = a, ![p].status = s2]
          PROVE  Same \/ One
        BY <1>0, <1>6, <2>1, <2>3
    <2> QED BY <1>8, <2>2, <2>3 DEF ApproveProposal
<1>9. ASSUME NEW w \in Workers, Propose(w) PROVE Same \/ One
    <2> DEFINE p == req[w].row
    <2>1. p \in Proposals /\ proposals[p].status = "NONE"
        BY <1>9 DEF Propose, TreasuryInv, ExecutionHeld, Drafts
    <2>2. proposals[p].executionTx = NoTx
        BY <2>1 DEF TreasuryInv, ProposalMandated, Settled
    <2>3. proposals' = [proposals EXCEPT ![p] = Draft(req[w].required)] /\ UNCHANGED <<mined, deep>>
        BY <1>9 DEF Propose
    <2>4. Draft(req[w].required).executionTx = NoTx
        BY DEF Draft, NoProposal
    <2> HIDE DEF p
    <2> QED BY <1>0, <1>6, <2>1, <2>2, <2>3, <2>4
<1>10. ASSUME NEW w \in Workers, RecordExecution(w) PROVE Same \/ One
    <2> DEFINE p == req[w].row
    <2>1. p \in Proposals /\ req[w].id \in OnChainIds
        BY <1>10 DEF RecordExecution, TreasuryInv, ExecutionHeld, Executions
    <2>2. /\ \A q \in Proposals \ {p} : proposals'[q] = proposals[q]
          /\ proposals'[p].executionTx = req[w].id /\ UNCHANGED <<mined, deep>>
        BY <1>0, <1>10, <2>1 DEF RecordExecution
    <2> HIDE DEF p
    <2>3. TreasuryClaims(proposals'[p]) # {}
        BY <2>1, <2>2, TreasuryAssumption DEF TreasuryClaims
    <2> QED BY <2>1, <2>2, <2>3
<1> HIDE DEF Same, One
<1> QED BY <1>2, <1>3, <1>4, <1>5, <1>7, <1>8, <1>9, <1>10 DEF TreasuryNext

LEMMA TreasuryClaimed ==
    ASSUME TreasuryInv, NEW r \in Proposals
    PROVE  TreasuryClaims(proposals[r]) \subseteq {mined[i] : i \in Canonical}
BY DEF TreasuryInv, ProposalMandated, VerifyTreasuryExecution, TreasuryClaims


(* Streams. *)
LEMMA StreamTurns ==
    ASSUME StreamInv, [StreamNext]_<<shared, streamVars>>
    PROVE  \/ Grows /\ \A r \in Streams : StreamClaims(streams'[r]) = StreamClaims(streams[r])
           \/ /\ UNCHANGED <<mined, deep>>
              /\ \E r \in Streams : /\ \A q \in Streams \ {r} : streams'[q] = streams[q]
                                    /\ StreamClaims(streams'[r]) # {}
<1> DEFINE Same == Grows /\ \A r \in Streams : StreamClaims(streams'[r]) = StreamClaims(streams[r])
           One == /\ UNCHANGED <<mined, deep>>
                  /\ \E r \in Streams : /\ \A q \in Streams \ {r} : streams'[q] = streams[q]
                                        /\ StreamClaims(streams'[r]) # {}
<1> SUFFICES Same \/ One
    OBVIOUS
<1>0. /\ mined \in Seq(StreamTxs) /\ deep \in 0..Len(mined) /\ DOMAIN req = Workers
      /\ streams \in [Streams -> StreamRows]
    BY DEF StreamInv, StreamTypes, StreamTypeOK, StreamRows
<1>1. CASE UNCHANGED streams /\ (UNCHANGED <<mined, deep>> \/ ChainStep \/ \E tx : Mine(tx))
    BY <1>0, <1>1, ChainGrows, Unmoved
<1>2. CASE \/ UNCHANGED <<shared, streamVars>>
           \/ Tick
           \/ (RequestStep \/ ChainStep) /\ UNCHANGED streamVars
    BY <1>0, <1>1, <1>2, RequestEnds DEF shared, streamVars, Tick
<1>3. CASE StreamContractStep
    <2>1. ASSUME NEW e, NEW s, Transact(e, s) PROVE Same \/ One
        BY <1>1, <2>1 DEF Transact, streamVars
    <2>2. OpenStream \/ PauseOnChain \/ CancelOnChain => Same \/ One
        BY <2>1 DEF OpenStream, PauseOnChain, CancelOnChain
    <2>3. ResumeOnChain \/ Withdraw => Same \/ One
        BY <2>1 DEF ResumeOnChain, Withdraw
    <2> QED BY <1>3, <2>2, <2>3 DEF StreamContractStep
<1>4. ASSUME NEW w \in Workers, NEW r \in Streams,
             \/ RecordWithdrawal(w, r)
             \/ \E kind \in Transitions : ApplyTransition(w, r, kind)
      PROVE  Same \/ One
    BY <1>1, <1>4 DEF RecordWithdrawal, ApplyTransition, streamVars
<1>5. ASSUME NEW w \in Workers, CreateStream(w) PROVE Same \/ One
    BY <1>1, <1>5 DEF CreateStream, streamVars
<1>6. ASSUME UNCHANGED <<mined, deep>>, NEW r \in Streams,
             \A q \in Streams \ {r} : streams'[q] = streams[q],
             streams'[r].status = streams[r].status \/ streams'[r].status # "NONE"
      PROVE  Same \/ One
    <2>1. CASE streams'[r].status = streams[r].status
        <3>1. \A q \in Streams : StreamClaims(streams'[q]) = StreamClaims(streams[q])
            BY <1>6, <2>1 DEF StreamClaims
        <3> QED BY <1>6, <3>1, Unmoved
    <2>2. CASE streams'[r].status # "NONE"
        <3>1. StreamClaims(streams'[r]) # {}
            BY <2>2 DEF StreamClaims
        <3> QED BY <1>6, <3>1
    <2> QED BY <1>6, <2>1, <2>2
<1>7. ASSUME NEW w \in Workers, NEW r \in Streams, InsertStream(w, r) PROVE Same \/ One
    <2> DEFINE row == [NoStream EXCEPT !.status = "ACTIVE"]
    <2>1. streams' = [streams EXCEPT ![r] = row] /\ UNCHANGED <<mined, deep>> /\ row.status = "ACTIVE"
        BY <1>7 DEF InsertStream, NoStream
    <2> HIDE DEF row
    <2> QED BY <1>0, <1>6, <2>1
<1>8. ASSUME NEW w \in Workers, StoreTransition(w) PROVE Same \/ One
    <2> DEFINE h == req[w]
    <2>1. h.row \in Streams /\ h.status # "NONE"
        BY <1>8 DEF StoreTransition, StreamInv, StreamHeld, Moves
    <2>2. /\ streams' = [streams EXCEPT ![h.row].status = h.status, ![h.row].pausedAt = h.pausedAt,
                                        ![h.row].paused = h.paused]
          /\ UNCHANGED <<mined, deep>>
        BY <1>8 DEF StoreTransition
    <2> HIDE DEF h
    <2>3. PICK r \in Streams : r = h.row
        BY <2>1
    <2>4. streams'[r].status = h.status /\ \A q \in Streams \ {r} : streams'[q] = streams[q]
        BY <1>0, <2>2, <2>3 DEF StreamRows
    <2> QED BY <1>6, <2>1, <2>2, <2>4
<1>9. ASSUME NEW w \in Workers, StoreWithdrawal(w) PROVE Same \/ One
    <2> DEFINE h == req[w]
    <2>1. h.row \in Streams
        BY <1>9 DEF StoreWithdrawal, StreamInv, StreamHeld, Withdrawals
    <2>2. streams' = [streams EXCEPT ![h.row].withdrawn = h.withdrawn] /\ UNCHANGED <<mined, deep>>
        BY <1>9 DEF StoreWithdrawal
    <2> HIDE DEF h
    <2>3. PICK r \in Streams : r = h.row
        BY <2>1
    <2>4. streams'[r].status = streams[r].status /\ \A q \in Streams \ {r} : streams'[q] = streams[q]
        BY <1>0, <2>2, <2>3 DEF StreamRows
    <2> QED BY <1>6, <2>2, <2>4
<1> HIDE DEF Same, One
<1> QED BY <1>2, <1>3, <1>4, <1>5, <1>7, <1>8, <1>9 DEF StreamNext

LEMMA StreamClaimed ==
    ASSUME StreamInv, NEW r \in Streams
    PROVE  StreamClaims(streams[r]) \subseteq UNION {mined[i].events : i \in Canonical}
<1>1. StatusProved(streams[r].status)
    BY DEF StreamInv, StreamShown
<1>2. \A kind : Emitted(kind) => kind \in UNION {mined[i].events : i \in Canonical}
    BY DEF Emitted
<1> QED BY <1>1, <1>2 DEF StatusProved, StreamClaims

(* Hedges. *)
LEMMA HedgeTurns ==
    ASSUME HedgeInv, [HedgeNext]_<<shared, hedges>>
    PROVE  \/ Grows /\ \A r \in Hedges : HedgeClaims(hedges'[r]) = HedgeClaims(hedges[r])
           \/ /\ UNCHANGED <<mined, deep>>
              /\ \E r \in Hedges : /\ \A q \in Hedges \ {r} : hedges'[q] = hedges[q]
                                   /\ HedgeClaims(hedges'[r]) # {}
<1> DEFINE Same == Grows /\ \A r \in Hedges : HedgeClaims(hedges'[r]) = HedgeClaims(hedges[r])
           One == /\ UNCHANGED <<mined, deep>>
                  /\ \E r \in Hedges : /\ \A q \in Hedges \ {r} : hedges'[q] = hedges[q]
                                       /\ HedgeClaims(hedges'[r]) # {}
<1> SUFFICES Same \/ One
    OBVIOUS
<1>0. /\ mined \in Seq(VaultTxs) /\ deep \in 0..Len(mined) /\ DOMAIN req = Workers
      /\ hedges \in [Hedges -> HedgeRows]
    BY DEF HedgeInv
<1>1. CASE UNCHANGED hedges /\ (UNCHANGED <<mined, deep>> \/ ChainStep \/ \E tx : Mine(tx))
    BY <1>0, <1>1, ChainGrows, Unmoved
<1>2. CASE \/ UNCHANGED <<shared, hedges>>
           \/ (RequestStep \/ ChainStep) /\ UNCHANGED hedges
    BY <1>0, <1>1, <1>2, RequestEnds DEF shared
<1>3. ASSUME NEW x, OpenPosition(x) \/ ClosePositionOnChain(x) PROVE Same \/ One
    BY <1>1, <1>3 DEF OpenPosition, ClosePositionOnChain
<1>4. ASSUME NEW w \in Workers, NEW x, CreateHedge(w, x) \/ ClosePosition(w, x)
      PROVE Same \/ One
    BY <1>1, <1>4 DEF CreateHedge, ClosePosition
<1>5. ASSUME NEW w \in Workers, VerifyClose(w) PROVE Same \/ One
    BY <1>1, <1>5 DEF VerifyClose
<1>6. ASSUME UNCHANGED <<mined, deep>>, NEW r \in Hedges, NEW row, hedges' = [hedges EXCEPT ![r] = row],
             row.status # "NONE"
      PROVE  Same \/ One
    <2>1. hedges'[r] = row /\ \A q \in Hedges \ {r} : hedges'[q] = hedges[q]
        BY <1>0, <1>6
    <2>2. HedgeClaims(hedges'[r]) # {}
        BY <1>6, <2>1 DEF HedgeClaims
    <2> QED BY <1>6, <2>1, <2>2
<1>7. ASSUME NEW w \in Workers, NEW r \in Hedges, InsertHedge(w, r) PROVE Same \/ One
    <2> DEFINE row == [status |-> "OPEN", pnl |-> FALSE, onChainStatus |-> req[w].onChainStatus]
    <2>1. hedges' = [hedges EXCEPT ![r] = row] /\ UNCHANGED <<mined, deep>> /\ row.status = "OPEN"
        BY <1>7 DEF InsertHedge
    <2> HIDE DEF row
    <2> QED BY <1>6, <2>1
<1>8. ASSUME NEW w \in Workers, StoreClose(w) PROVE Same \/ One
    <2> DEFINE h == req[w]
               row == [status |-> HedgeStatus(h.kind), onChainStatus |-> h.kind,
                       pnl |-> h.kind \in {"SETTLED", "EXERCISED"}]
    <2>1. h.row \in Hedges /\ h.kind \in CloseKinds
        BY <1>8 DEF StoreClose, HedgeInv, HedgeHeld, Closed
    <2>2. hedges' = [hedges EXCEPT ![h.row] = row] /\ UNCHANGED <<mined, deep>>
        BY <1>8 DEF StoreClose
    <2>3. row.status # "NONE"
        BY <2>1 DEF HedgeStatus, CloseKinds
    <2> HIDE DEF h, row
    <2>4. PICK r \in Hedges : r = h.row
        BY <2>1
    <2> QED BY <1>6, <2>2, <2>3, <2>4
<1> HIDE DEF Same, One
<1> QED BY <1>2, <1>3, <1>4, <1>5, <1>7, <1>8 DEF HedgeNext

LEMMA HedgeClaimed ==
    ASSUME HedgeInv, NEW r \in Hedges
    PROVE  HedgeClaims(hedges[r]) \subseteq {mined[i].event : i \in Canonical}
<1>1. HedgeProved(r)
    BY DEF HedgeInv
<1>2. \A kind : VaultEmitted(kind) => kind \in {mined[i].event : i \in Canonical}
    BY DEF VaultEmitted
<1>3. CASE hedges[r].status \in {"NONE", "OPEN"}
    BY <1>1, <1>2, <1>3 DEF HedgeProved, HedgeClaims
<1>4. CASE hedges[r].status \notin {"NONE", "OPEN"}
    <2>1. PICK kind \in CloseKinds : hedges[r] = ClosedAs(kind) /\ VaultEmitted(kind)
        BY <1>1, <1>4 DEF HedgeProved
    <2>2. hedges[r].onChainStatus = kind
        BY <2>1 DEF ClosedAs
    <2>3. HedgeClaims(hedges[r]) = {"OPENED", kind}
        BY <1>4, <2>2 DEF HedgeClaims
    <2> QED BY <1>1, <1>2, <1>4, <2>1, <2>3 DEF HedgeProved
<1> QED BY <1>3, <1>4


(* Appeals: what a row claims of the filing and the review is proved too. *)
FilingProved(a) ==
    /\ appeals[a].status # "NONE" => ModuleReceipt("filed")
    /\ appeals[a].reviewed => ModuleReceipt("review")
FilingHeld(w) ==
    /\ At(w, "create appeal") \/ At(w, "store review") \/ At(w, "store resolution") =>
          ModuleReceipt("filed")
    /\ At(w, "store review") => ModuleReceipt("review")
FilingInv == (\A a \in Appeals : FilingProved(a)) /\ (\A w \in Workers : FilingHeld(w))

LEMMA FilingStart == RequestsInit /\ AppealInit => FilingInv
<1> SUFFICES ASSUME RequestsInit, AppealInit PROVE FilingInv
    OBVIOUS
<1>1. \A a \in Appeals : FilingProved(a)
    BY DEF AppealInit, FilingProved, NoAppeal
<1>2. \A w \in Workers : FilingHeld(w)
    BY DEF RequestsInit, FilingHeld, At, Idle
<1> QED BY <1>1, <1>2 DEF FilingInv

LEMMA FilingStep == AppealInv /\ FilingInv /\ [AppealNext]_<<shared, appealVars>> => FilingInv'
<1> SUFFICES ASSUME AppealInv, FilingInv, [AppealNext]_<<shared, appealVars>> PROVE FilingInv'
    OBVIOUS
<1> DEFINE Rows == [status : AppealStatuses, reviewed : BOOLEAN, resolved : BOOLEAN,
                    outcome : Outcomes \cup {"NONE"}]
<1>0. /\ DOMAIN req = Workers /\ mined \in Seq(ModuleTxs) /\ deep \in 0..Len(mined)
      /\ appeals \in [Appeals -> Rows]
    BY DEF AppealInv, AppealTypes, AppealTypeOK, AppealStatuses
<1>1. ASSUME Grows PROVE \A e : ModuleReceipt(e) => ModuleReceipt(e)'
    BY <1>1 DEF Grows, ModuleReceipt
<1>2. ASSUME Grows, DOMAIN req' = Workers,
             \A a \in Appeals : appeals'[a] = appeals[a] \/ FilingProved(a)',
             \A w \in Workers : req'[w] = req[w] \/ FilingHeld(w)'
      PROVE  FilingInv'
    <2>1. ASSUME NEW a \in Appeals, appeals'[a] = appeals[a] PROVE FilingProved(a)'
        BY <1>1, <1>2, <2>1 DEF FilingInv, FilingProved
    <2>2. ASSUME NEW w \in Workers, req'[w] = req[w] PROVE FilingHeld(w)'
        BY <1>1, <1>2, <2>2 DEF FilingInv, FilingHeld, At
    <2> QED BY <1>2, <2>1, <2>2 DEF FilingInv
<1>3. ASSUME NEW w \in Workers, req'[w] = Idle \/ req'[w].at \in {"idle", "audit", "store override"}
      PROVE  FilingHeld(w)'
    <2>1. req'[w].at \in {"idle", "audit", "store override"}
        <3>1. Idle.at = "idle"
            BY DEF Idle
        <3>2. CASE req'[w] = Idle
            BY <3>1, <3>2
        <3> QED BY <1>3, <3>2
    <2> QED BY <2>1 DEF FilingHeld, At
<1> HIDE DEF Rows
<1>4. CASE \/ UNCHANGED <<shared, appealVars>>
           \/ ModuleStep
           \/ ChainStep /\ UNCHANGED appealVars
    <2>1. CASE UNCHANGED <<shared, appealVars>>
        BY <1>0, <1>2, <2>1, Unmoved DEF shared, appealVars
    <2>2. CASE ModuleStep \/ (ChainStep /\ UNCHANGED appealVars)
        <3>1. (ChainStep \/ \E tx \in ModuleTxs : Mine(tx)) /\ UNCHANGED appealVars
            BY <1>0, <2>2, ModuleEmits DEF Allowed, AppealInv
        <3>2. Grows /\ req' = req
            BY <1>0, <3>1, ChainGrows, ChainLeavesRequests
        <3> QED BY <1>0, <1>2, <3>1, <3>2 DEF appealVars
    <2> QED BY <1>4, <2>1, <2>2
<1>5. CASE RequestStep /\ UNCHANGED appealVars
    <2>1. /\ DOMAIN req' = Workers /\ Grows
          /\ \A v \in Workers : req'[v] = req[v] \/ req'[v] = Idle
        BY <1>0, <1>5, RequestEnds, Unmoved
    <2> QED BY <1>2, <1>3, <1>5, <2>1 DEF appealVars
<1>6. ASSUME NEW w \in Workers, NEW h, Goto(w, h), UNCHANGED <<mined, deep>>,
             \/ h.at \in {"audit", "store override"}
             \/ ModuleReceipt("filed") /\ (h.at = "store review" => ModuleReceipt("review")),
             \A a \in Appeals : appeals'[a] = appeals[a] \/ FilingProved(a)'
      PROVE  FilingInv'
    <2>1. Grows /\ DOMAIN req' = Workers /\ req'[w] = h /\ \A v \in Workers \ {w} : req'[v] = req[v]
        BY <1>0, <1>6, RequestGoes, Unmoved
    <2>2. FilingHeld(w)'
        <3>1. CASE h.at \in {"audit", "store override"}
            BY <1>3, <2>1, <3>1
        <3>2. CASE ModuleReceipt("filed") /\ (h.at = "store review" => ModuleReceipt("review"))
            BY <1>1, <2>1, <3>2 DEF FilingHeld, At
        <3> QED BY <1>6, <3>1, <3>2
    <2> QED BY <1>2, <1>6, <2>1, <2>2
<1>7. ASSUME NEW w \in Workers, OverrideDecision(w) PROVE FilingInv'
    <2> DEFINE h == [at |-> "store override"]
    <2>1. Goto(w, h) /\ UNCHANGED <<mined, deep, appeals>> /\ h.at = "store override"
        BY <1>7 DEF OverrideDecision, appealVars
    <2> HIDE DEF h
    <2> QED BY <1>6, <2>1
<1>8. ASSUME NEW w \in Workers, StoreOverride(w) PROVE FilingInv'
    <2> DEFINE h == [at |-> "audit", entry |-> [event |-> "overridden"]]
    <2>1. Goto(w, h) /\ UNCHANGED <<mined, deep, appeals>> /\ h.at = "audit"
        BY <1>8 DEF StoreOverride
    <2> HIDE DEF h
    <2> QED BY <1>6, <2>1
<1>9. ASSUME NEW w \in Workers, SubmitAppeal(w) PROVE FilingInv'
    <2> DEFINE h == [at |-> "create appeal", status |-> ModuleHead.status]
    <2>1. Goto(w, h) /\ UNCHANGED <<mined, deep, appeals>> /\ h.at = "create appeal" /\ ModuleReceipt("filed")
        BY <1>9 DEF SubmitAppeal, VerifyAppealFiling, appealVars
    <2> HIDE DEF h
    <2> QED BY <1>6, <2>1
<1>10. ASSUME NEW w \in Workers, NEW a \in Appeals, StartAppealReview(w, a) PROVE FilingInv'
    <2> DEFINE h == [at |-> "store review", row |-> a]
    <2>1. Goto(w, h) /\ UNCHANGED <<mined, deep, appeals>> /\ appeals[a].status = "SUBMITTED" /\ ModuleReceipt("review")
        BY <1>10 DEF StartAppealReview, VerifyAppealReview, appealVars
    <2>2. ModuleReceipt("filed")
        BY <2>1 DEF FilingInv, FilingProved
    <2> HIDE DEF h
    <2> QED BY <1>6, <2>1, <2>2
<1>11. ASSUME NEW w \in Workers, NEW a \in Appeals, ResolveAppeal(w, a) PROVE FilingInv'
    <2>1. PICK status \in Resolutions, outcome \in Outcomes :
              Goto(w, [at |-> "store resolution", row |-> a, status |-> status, outcome |-> outcome])
        BY <1>11 DEF ResolveAppeal
    <2> DEFINE h == [at |-> "store resolution", row |-> a, status |-> status, outcome |-> outcome]
    <2>2. Goto(w, h) /\ UNCHANGED <<mined, deep, appeals>> /\ appeals[a].status = "UNDER_REVIEW"
          /\ h.at = "store resolution"
        BY <1>11, <2>1 DEF ResolveAppeal, appealVars
    <2>3. ModuleReceipt("filed")
        BY <2>2 DEF FilingInv, FilingProved
    <2> HIDE DEF h
    <2> QED BY <1>6, <2>2, <2>3
<1>12. ASSUME NEW w \in Workers, NEW a \in Appeals, InsertAppeal(w, a) PROVE FilingInv'
    <2> DEFINE h == [at |-> "audit", entry |-> [event |-> "appealed", row |-> a]]
    <2>1. /\ Goto(w, h) /\ UNCHANGED <<mined, deep>> /\ h.at = "audit"
          /\ appeals' = [appeals EXCEPT ![a].status = req[w].status]
        BY <1>12 DEF InsertAppeal
    <2>2. ModuleReceipt("filed")
        BY <1>12 DEF InsertAppeal, FilingInv, FilingHeld
    <2> HIDE DEF h
    <2>3. appeals'[a].reviewed = appeals[a].reviewed /\ \A b \in Appeals \ {a} : appeals'[b] = appeals[b]
        BY <1>0, <2>1 DEF Rows
    <2>4. FilingProved(a)'
        BY <1>1, <2>1, <2>2, <2>3, Unmoved DEF FilingInv, FilingProved
    <2> QED BY <1>6, <2>1, <2>3, <2>4
<1>13. ASSUME NEW w \in Workers, StoreReview(w) PROVE FilingInv'
    <2> DEFINE h == [at |-> "audit", entry |-> [event |-> "review", row |-> req[w].row]]
    <2>0. PICK a \in Appeals : a = req[w].row
        BY <1>13 DEF StoreReview, AppealInv, AppealHeld, Reviews
    <2>1. /\ Goto(w, h) /\ UNCHANGED <<mined, deep>> /\ h.at = "audit"
          /\ appeals' = [appeals EXCEPT ![a].status = "UNDER_REVIEW", ![a].reviewed = TRUE]
        BY <1>13, <2>0 DEF StoreReview
    <2>2. ModuleReceipt("filed") /\ ModuleReceipt("review")
        BY <1>13 DEF StoreReview, FilingInv, FilingHeld
    <2> HIDE DEF h
    <2>3. \A b \in Appeals \ {a} : appeals'[b] = appeals[b]
        BY <1>0, <2>1
    <2>4. FilingProved(a)'
        BY <1>1, <2>1, <2>2, Unmoved DEF FilingProved
    <2> QED BY <1>6, <2>1, <2>3, <2>4
<1>14. ASSUME NEW w \in Workers, StoreResolution(w) PROVE FilingInv'
    <2>0. PICK a \in Appeals : a = req[w].row
        BY <1>14 DEF StoreResolution, AppealInv, AppealHeld, Rulings
    <2> DEFINE status == req[w].status
               h == [at |-> "audit", entry |-> [event |-> status, row |-> a]]
    <2>1. /\ Goto(w, h) /\ UNCHANGED <<mined, deep>> /\ h.at = "audit"
          /\ appeals' = [appeals EXCEPT ![a].status = status, ![a].resolved = TRUE,
                                        ![a].outcome = req[w].outcome]
        BY <1>14, <2>0 DEF StoreResolution
    <2>2. ModuleReceipt("filed")
        BY <1>14 DEF StoreResolution, FilingInv, FilingHeld
    <2> HIDE DEF h
    <2>3. appeals'[a].reviewed = appeals[a].reviewed /\ \A b \in Appeals \ {a} : appeals'[b] = appeals[b]
        BY <1>0, <2>1 DEF Rows
    <2>4. FilingProved(a)'
        BY <1>1, <2>1, <2>2, <2>3, Unmoved DEF FilingInv, FilingProved
    <2> QED BY <1>6, <2>1, <2>3, <2>4
<1> QED BY <1>4, <1>5, <1>7, <1>8, <1>9, <1>10, <1>11, <1>12, <1>13, <1>14 DEF AppealNext

LEMMA AppealClaimed ==
    ASSUME AppealInv, FilingInv, NEW a \in Appeals
    PROVE  AppealClaims(appeals[a]) \subseteq {mined[i].event : i \in Canonical}
<1>1. \A e : ModuleReceipt(e) => e \in {mined[i].event : i \in Canonical}
    BY DEF ModuleReceipt
<1>2. FilingProved(a) /\ (appeals[a].resolved => ModuleReceipt("resolved"))
    BY DEF FilingInv, AppealInv, AppealProved, OnceResolved
<1> QED BY <1>1, <1>2 DEF FilingProved, AppealClaims

LEMMA AppealTurns ==
    ASSUME AppealInv, [AppealNext]_<<shared, appealVars>>
    PROVE  \/ Grows /\ \A r \in Appeals : AppealClaims(appeals'[r]) = AppealClaims(appeals[r])
           \/ /\ UNCHANGED <<mined, deep>>
              /\ \E r \in Appeals : /\ \A q \in Appeals \ {r} : appeals'[q] = appeals[q]
                                    /\ AppealClaims(appeals'[r]) # {}
<1> DEFINE Same == Grows /\ \A r \in Appeals : AppealClaims(appeals'[r]) = AppealClaims(appeals[r])
           One == /\ UNCHANGED <<mined, deep>>
                  /\ \E r \in Appeals : /\ \A q \in Appeals \ {r} : appeals'[q] = appeals[q]
                                        /\ AppealClaims(appeals'[r]) # {}
           Rows == [status : AppealStatuses, reviewed : BOOLEAN, resolved : BOOLEAN,
                    outcome : Outcomes \cup {"NONE"}]
<1> SUFFICES Same \/ One
    OBVIOUS
<1>0. /\ mined \in Seq(ModuleTxs) /\ deep \in 0..Len(mined) /\ DOMAIN req = Workers
      /\ appeals \in [Appeals -> Rows]
    BY DEF AppealInv, AppealTypes, AppealTypeOK, AppealStatuses
<1>1. CASE UNCHANGED appeals /\ (UNCHANGED <<mined, deep>> \/ ChainStep \/ \E tx : Mine(tx))
    BY <1>0, <1>1, ChainGrows, Unmoved
<1>2. CASE \/ UNCHANGED <<shared, appealVars>>
           \/ (RequestStep \/ ChainStep) /\ UNCHANGED appealVars
    BY <1>0, <1>1, <1>2, RequestEnds DEF shared, appealVars
<1>3. CASE ModuleStep
    BY <1>0, <1>1, <1>3, ModuleEmits DEF appealVars
<1>4. ASSUME NEW w \in Workers, NEW a, \/ OverrideDecision(w) \/ StoreOverride(w) \/ SubmitAppeal(w)
                                        \/ StartAppealReview(w, a) \/ ResolveAppeal(w, a)
      PROVE  Same \/ One
    BY <1>1, <1>4
       DEF OverrideDecision, StoreOverride, SubmitAppeal, StartAppealReview, ResolveAppeal,
           appealVars
<1>5. ASSUME UNCHANGED <<mined, deep>>, NEW r \in Appeals,
             \A q \in Appeals \ {r} : appeals'[q] = appeals[q],
             appeals[r].status = "NONE" \/ appeals'[r].status # "NONE"
      PROVE  Same \/ One
    <2>1. CASE appeals'[r].status # "NONE"
        <3>1. AppealClaims(appeals'[r]) # {}
            BY <2>1 DEF AppealClaims
        <3> QED BY <1>5, <3>1
    <2>2. CASE appeals'[r].status = "NONE"
        <3>1. \A q \in Appeals : AppealClaims(appeals'[q]) = AppealClaims(appeals[q])
            BY <1>5, <2>2 DEF AppealClaims
        <3> QED BY <1>5, <3>1, Unmoved
    <2> QED BY <2>1, <2>2
<1>6. ASSUME NEW w \in Workers, NEW a \in Appeals, InsertAppeal(w, a) PROVE Same \/ One
    <2>1. /\ appeals' = [appeals EXCEPT ![a].status = req[w].status]
          /\ appeals[a].status = "NONE" /\ UNCHANGED <<mined, deep>>
        BY <1>6 DEF InsertAppeal
    <2> QED BY <1>0, <1>5, <2>1
<1>7. ASSUME NEW w \in Workers, StoreReview(w) PROVE Same \/ One
    <2>1. PICK a \in Appeals : a = req[w].row
        BY <1>7 DEF StoreReview, AppealInv, AppealHeld, Reviews
    <2>2. /\ appeals' = [appeals EXCEPT ![a].status = "UNDER_REVIEW", ![a].reviewed = TRUE]
          /\ UNCHANGED <<mined, deep>>
        BY <1>7, <2>1 DEF StoreReview
    <2>3. appeals'[a].status = "UNDER_REVIEW" /\ \A q \in Appeals \ {a} : appeals'[q] = appeals[q]
        BY <1>0, <2>2
    <2> QED BY <1>5, <2>2, <2>3
<1>8. ASSUME NEW w \in Workers, StoreResolution(w) PROVE Same \/ One
    <2> DEFINE h == req[w]
    <2>1. h.row \in Appeals /\ h.status \in Resolutions
        BY <1>8 DEF StoreResolution, AppealInv, AppealHeld, Rulings
    <2>2. /\ appeals' = [appeals EXCEPT ![h.row].status = h.status, ![h.row].resolved = TRUE,
                                        ![h.row].outcome = h.outcome]
          /\ UNCHANGED <<mined, deep>>
        BY <1>8 DEF StoreResolution
    <2> HIDE DEF h
    <2>3. PICK a \in Appeals : a = h.row
        BY <2>1
    <2>4. appeals'[a].status = h.status /\ \A q \in Appeals \ {a} : appeals'[q] = appeals[q]
        BY <1>0, <2>2, <2>3
    <2> QED BY <1>5, <2>1, <2>2, <2>4 DEF Resolutions
<1> HIDE DEF Same, One
<1> QED BY <1>2, <1>3, <1>4, <1>6, <1>7, <1>8 DEF AppealNext

(* Positions. *)
LEMMA PoolTurns ==
    ASSUME PoolInv, [PoolNext]_<<shared, poolRows>>
    PROVE  \/ Grows /\ \A r \in PoolRows : PoolClaims(poolRows'[r]) = PoolClaims(poolRows[r])
           \/ /\ UNCHANGED <<mined, deep>>
              /\ \E r \in PoolRows : /\ \A q \in PoolRows \ {r} : poolRows'[q] = poolRows[q]
                                     /\ PoolClaims(poolRows'[r]) # {}
<1> DEFINE Same == Grows /\ \A r \in PoolRows : PoolClaims(poolRows'[r]) = PoolClaims(poolRows[r])
           One == /\ UNCHANGED <<mined, deep>>
                  /\ \E r \in PoolRows : /\ \A q \in PoolRows \ {r} : poolRows'[q] = poolRows[q]
                                         /\ PoolClaims(poolRows'[r]) # {}
<1> SUFFICES Same \/ One
    OBVIOUS
<1>0. /\ mined \in Seq(PoolTxs) /\ deep \in 0..Len(mined) /\ DOMAIN req = Workers
      /\ poolRows \in [PoolRows -> PositionRows]
    BY DEF PoolInv
<1>1. CASE UNCHANGED poolRows /\ (UNCHANGED <<mined, deep>> \/ ChainStep \/ \E tx : Mine(tx))
    BY <1>0, <1>1, ChainGrows, Unmoved
<1>2. CASE \/ UNCHANGED <<shared, poolRows>>
           \/ (RequestStep \/ ChainStep) /\ UNCHANGED poolRows
    BY <1>0, <1>1, <1>2, RequestEnds DEF shared
<1>3. ASSUME NEW p, AddOnChain(p) \/ RemoveOnChain(p) \/ FlashOnChain PROVE Same \/ One
    BY <1>1, <1>3 DEF AddOnChain, RemoveOnChain, FlashOnChain
<1>4. ASSUME NEW w \in Workers, NEW p, NEW r,
             AddLiquidity(w, p) \/ RemoveLiquidity(w, r, p) \/ RequestFlashLiquidity(w)
      PROVE  Same \/ One
    BY <1>1, <1>4 DEF AddLiquidity, RemoveLiquidity, RequestFlashLiquidity
<1>5. ASSUME UNCHANGED <<mined, deep>>, NEW r \in PoolRows,
             \A q \in PoolRows \ {r} : poolRows'[q] = poolRows[q],
             NEW s \in Settlements, poolRows'[r].settlement = s
      PROVE  Same \/ One
    <2>1. s # Flashed
        BY <1>5 DEF Settlements, Flashed, Added, Removed
    <2>2. NoPosition.settlement = Flashed
        BY DEF NoPosition
    <2>3. poolRows'[r] # NoPosition
        BY <1>5, <2>1, <2>2
    <2>4. PoolClaims(poolRows'[r]) # {}
        BY <2>3 DEF PoolClaims
    <2> QED BY <1>5, <2>4
<1>6. ASSUME NEW w \in Workers, NEW r \in PoolRows, InsertPosition(w, r) PROVE Same \/ One
    <2>1. PICK p \in Positions : p = req[w].position
        BY <1>6 DEF InsertPosition, PoolInv, PoolHeld, Additions
    <2> DEFINE row == [position |-> p, settlement |-> Added(p)]
    <2>2. poolRows' = [poolRows EXCEPT ![r] = row] /\ UNCHANGED <<mined, deep>> /\ row.settlement = Added(p)
        BY <1>6, <2>1 DEF InsertPosition
    <2>3. Added(p) \in Settlements
        BY DEF Settlements
    <2> HIDE DEF row
    <2> QED BY <1>0, <1>5, <2>2, <2>3
<1>7. ASSUME NEW w \in Workers, StoreRemoval(w) PROVE Same \/ One
    <2> DEFINE h == req[w]
    <2>1. h.row \in PoolRows /\ Removed(h.position) \in Settlements
        BY <1>7 DEF StoreRemoval, PoolInv, PoolHeld, Removals, Settlements
    <2>2. poolRows' = [poolRows EXCEPT ![h.row].settlement = Removed(h.position)] /\ UNCHANGED <<mined, deep>>
        BY <1>7 DEF StoreRemoval
    <2> HIDE DEF h
    <2>3. PICK r \in PoolRows, s \in Settlements : r = h.row /\ s = Removed(h.position)
        BY <2>1
    <2>4. poolRows'[r].settlement = s /\ \A q \in PoolRows \ {r} : poolRows'[q] = poolRows[q]
        BY <1>0, <2>2, <2>3 DEF PositionRows
    <2> QED BY <1>5, <2>2, <2>4
<1> HIDE DEF Same, One
<1> QED BY <1>2, <1>3, <1>4, <1>6, <1>7 DEF PoolNext

LEMMA PoolClaimed ==
    ASSUME PoolInv, NEW r \in PoolRows
    PROVE  PoolClaims(poolRows[r]) \subseteq {mined[i] : i \in Canonical}
BY DEF PoolInv, PoolProved, PoolReceipt, PoolClaims


(* Transfers. *)
LEMMA TransferTurns ==
    ASSUME TransferInv, [TransferNext]_transferAll
    PROVE  \/ Grows /\ \A r \in Transfers : TransferClaims(transfers'[r]) = TransferClaims(transfers[r])
           \/ /\ UNCHANGED <<mined, deep>>
              /\ \E r \in Transfers : /\ \A q \in Transfers \ {r} : transfers'[q] = transfers[q]
                                      /\ TransferClaims(transfers'[r]) # {}
<1> DEFINE Same == Grows /\ \A r \in Transfers : TransferClaims(transfers'[r]) = TransferClaims(transfers[r])
           One == /\ UNCHANGED <<mined, deep>>
                  /\ \E r \in Transfers : /\ \A q \in Transfers \ {r} : transfers'[q] = transfers[q]
                                          /\ TransferClaims(transfers'[r]) # {}
<1> SUFFICES Same \/ One
    OBVIOUS
<1>0. /\ mined \in Seq(RouterStatuses) /\ deep \in 0..Len(mined) /\ DOMAIN req = Workers
      /\ transfers \in [Transfers -> [status : {"NONE", "INITIATED", "RECOVERED"},
                                      seen : RouterStatuses \cup {"NONE"}]]
    BY DEF TransferInv, TransferTypes, TransferTypeOK
<1>1. CASE UNCHANGED transfers /\ (UNCHANGED <<mined, deep>> \/ ChainStep \/ \E tx : Mine(tx))
    BY <1>0, <1>1, ChainGrows, Unmoved
<1>2. CASE \/ UNCHANGED transferAll
           \/ (RequestStep \/ ChainStep) /\ UNCHANGED transferVars
    BY <1>0, <1>1, <1>2, RequestEnds DEF transferAll, shared, transferVars
<1>3. CASE Initiate \/ SubmitRelayProof \/ ConfirmTransfer \/ MarkTransferFailed \/ RecoverOnChain
    BY <1>1, <1>3 DEF Initiate, SubmitRelayProof, ConfirmTransfer, MarkTransferFailed,
        RecoverOnChain, RouterMoves, transferVars
<1>4. CASE PassDeadline
    BY <1>1, <1>4 DEF PassDeadline, shared
<1>5. ASSUME NEW w \in Workers, NEW r, InitiateTransfer(w) \/ RecoverTransfer(w, r) \/ VerifyRecovery(w)
      PROVE  Same \/ One
    BY <1>1, <1>5 DEF InitiateTransfer, RecoverTransfer, VerifyRecovery, transferVars
<1>6. ASSUME UNCHANGED <<mined, deep>>, NEW r \in Transfers,
             \A q \in Transfers \ {r} : transfers'[q] = transfers[q],
             transfers'[r].status # "NONE"
      PROVE  Same \/ One
    <2>1. TransferClaims(transfers'[r]) # {}
        BY <1>6 DEF TransferClaims
    <2> QED BY <1>6, <2>1
<1>7. ASSUME NEW w \in Workers, NEW r \in Transfers, InsertTransfer(w, r) PROVE Same \/ One
    <2> DEFINE row == [status |-> "INITIATED", seen |-> req[w].seen]
    <2>1. transfers' = [transfers EXCEPT ![r] = row] /\ row.status = "INITIATED" /\ UNCHANGED <<mined, deep>>
        BY <1>7 DEF InsertTransfer
    <2> HIDE DEF row
    <2> QED BY <1>0, <1>6, <2>1
<1>8. ASSUME NEW w \in Workers, StoreRecovery(w) PROVE Same \/ One
    <2>1. PICK r \in Transfers : r = req[w].row
        BY <1>0, <1>8, HeldFields DEF StoreRecovery, TransferInv
    <2>2. transfers' = [transfers EXCEPT ![r].status = "RECOVERED"] /\ UNCHANGED <<mined, deep>>
        BY <1>8, <2>1 DEF StoreRecovery
    <2> QED BY <1>0, <1>6, <2>2
<1> HIDE DEF Same, One
<1> QED BY <1>2, <1>3, <1>4, <1>5, <1>7, <1>8 DEF TransferNext, RouterStep

LEMMA TransferClaimed ==
    ASSUME TransferInv, NEW r \in Transfers
    PROVE  TransferClaims(transfers[r]) \subseteq {mined[i] : i \in Canonical}
<1>1. transfers[r].status \in {"NONE", "INITIATED", "RECOVERED"} /\ RowProved(r)
    BY DEF TransferInv, TransferTypes, TransferTypeOK
<1> QED BY <1>1 DEF RowProved, RouterReceipt, TransferClaims

(* The business. *)
BusinessClaims == {mined[i] : i \in Range(history)}

LEMMA MirrorTurns ==
    ASSUME BusinessInv, [MirrorNext]_<<shared, mirrorVars>>
    PROVE  \/ Grows /\ BusinessClaims' = BusinessClaims
           \/ UNCHANGED <<mined, deep>> /\ BusinessClaims' # {}
<1> DEFINE Same == Grows /\ BusinessClaims' = BusinessClaims
           One == UNCHANGED <<mined, deep>> /\ BusinessClaims' # {}
<1> SUFFICES Same \/ One
    OBVIOUS
<1>0. /\ mined \in Seq(RegistryTxs) /\ deep \in 0..Len(mined) /\ DOMAIN req = Workers
      /\ history \in Seq(Nat) /\ DOMAIN history = 1..Len(history)
      /\ \A k \in 1..Len(history) : history[k] \in Canonical
    BY LenProperties DEF BusinessInv, MirrorTypes, HistoryTells
<1>1. ASSUME Grows, history' = history PROVE BusinessClaims' = BusinessClaims
    <2>1. \A i \in Range(history) : mined'[i] = mined[i]
        BY <1>0, <1>1 DEF Grows, Range
    <2> QED BY <1>1, <2>1 DEF BusinessClaims
<1>2. CASE \/ UNCHANGED <<shared, mirrorVars>>
           \/ RegistryStep
           \/ (RequestStep \/ ChainStep) /\ UNCHANGED mirrorVars
    <2>1. Grows /\ history' = history
        BY <1>0, <1>2, RequestEnds, RegistryMines, MirrorAssumption, ChainGrows, Unmoved
           DEF shared, mirrorVars
    <2> QED BY <1>1, <2>1
<1>3. ASSUME NEW w \in Workers, NEW c, NEW i,
             \/ ProveRegistration(w, c, i)
             \/ ReconcileVerification(w, i) \/ ReconcileTierUpgrade(w, i) \/ ReconcileSuspension(w, i)
             \/ ReconcileReinstatement(w, i) \/ ReconcileRevocation(w, i)
      PROVE  Same \/ One
    <2>1. UNCHANGED <<mined, deep, history>>
        BY <1>3
           DEF ProveRegistration, ReconcileVerification, ReconcileTierUpgrade,
               ReconcileSuspension,
            ReconcileReinstatement, ReconcileRevocation, Proved, mirrorVars
    <2> QED BY <1>1, <2>1, Unmoved
<1>4. ASSUME UNCHANGED <<mined, deep>>, NEW i, history' = Append(history, i) PROVE Same \/ One
    <2>1. Len(history) + 1 \in DOMAIN history'
        BY <1>0, <1>4
    <2>2. Range(history') # {}
        BY <2>1 DEF Range
    <2> QED BY <1>4, <2>2 DEF BusinessClaims
<1>5. ASSUME NEW w \in Workers, FinalizeRegistration(w) \/ PersistTransition(w)
      PROVE Same \/ One
    <2>1. UNCHANGED <<mined, deep>> /\ (history' = history \/ \E i : history' = Append(history, i))
        BY <1>5 DEF FinalizeRegistration, PersistTransition
    <2> QED BY <1>1, <1>4, <2>1, Unmoved
<1> HIDE DEF Same, One
<1> QED BY <1>2, <1>3, <1>5 DEF MirrorNext

LEMMA BusinessClaimed == BusinessInv => BusinessClaims \subseteq {mined[i] : i \in Canonical}
<1> SUFFICES ASSUME BusinessInv PROVE BusinessClaims \subseteq {mined[i] : i \in Canonical}
    OBVIOUS
<1>1. /\ DOMAIN history = 1..Len(history)
      /\ \A k \in 1..Len(history) : history[k] \in Canonical
    BY LenProperties DEF BusinessInv, MirrorTypes, HistoryTells
<1> QED BY <1>1 DEF BusinessClaims, Range


(* All of them. *)
LEMMA RowCases ==
    ASSUME NEW r \in AllRows
    PROVE  \/ \E s \in Streams : r = <<"streams", s>>
           \/ \E s \in Hedges : r = <<"hedges", s>>
           \/ \E s \in Transfers : r = <<"transfers", s>>
           \/ \E s \in Appeals : r = <<"appeals", s>>
           \/ \E s \in PoolRows : r = <<"pool", s>>
           \/ \E s \in Proposals : r = <<"treasury", s>>
           \/ r = <<"registry", "business">>
BY DEF AllRows

LEMMA RowsThere ==
    /\ \A s \in Streams : <<"streams", s>> \in AllRows
    /\ \A s \in Hedges : <<"hedges", s>> \in AllRows
    /\ \A s \in Transfers : <<"transfers", s>> \in AllRows
    /\ \A s \in Appeals : <<"appeals", s>> \in AllRows
    /\ \A s \in PoolRows : <<"pool", s>> \in AllRows
    /\ \A s \in Proposals : <<"treasury", s>> \in AllRows
    /\ <<"registry", "business">> \in AllRows
BY DEF AllRows

\* A row's claims are those of its table, now and after a step.
LEMMA ClaimsOf ==
    /\ \A s : /\ Claims(<<"streams", s>>) = StreamClaims(streams[s])
              /\ Claims(<<"hedges", s>>) = HedgeClaims(hedges[s])
              /\ Claims(<<"transfers", s>>) = TransferClaims(transfers[s])
              /\ Claims(<<"appeals", s>>) = AppealClaims(appeals[s])
              /\ Claims(<<"pool", s>>) = PoolClaims(poolRows[s])
              /\ Claims(<<"treasury", s>>) = TreasuryClaims(proposals[s])
              /\ Claims(<<"registry", s>>) = BusinessClaims
    /\ \A s : /\ Claims(<<"streams", s>>)' = StreamClaims(streams'[s])
              /\ Claims(<<"hedges", s>>)' = HedgeClaims(hedges'[s])
              /\ Claims(<<"transfers", s>>)' = TransferClaims(transfers'[s])
              /\ Claims(<<"appeals", s>>)' = AppealClaims(appeals'[s])
              /\ Claims(<<"pool", s>>)' = PoolClaims(poolRows'[s])
              /\ Claims(<<"treasury", s>>)' = TreasuryClaims(proposals'[s])
              /\ Claims(<<"registry", s>>)' = BusinessClaims'
<1>1. \A s : /\ <<"streams", s>>[1] = "streams" /\ <<"streams", s>>[2] = s
             /\ <<"hedges", s>>[1] = "hedges" /\ <<"hedges", s>>[2] = s
             /\ <<"transfers", s>>[1] = "transfers" /\ <<"transfers", s>>[2] = s
             /\ <<"appeals", s>>[1] = "appeals" /\ <<"appeals", s>>[2] = s
             /\ <<"pool", s>>[1] = "pool" /\ <<"pool", s>>[2] = s
             /\ <<"treasury", s>>[1] = "treasury" /\ <<"treasury", s>>[2] = s
             /\ <<"registry", s>>[1] = "registry"
    OBVIOUS
<1>2. ASSUME NEW s
      PROVE  /\ Claims(<<"streams", s>>) = StreamClaims(streams[s])
             /\ Claims(<<"hedges", s>>) = HedgeClaims(hedges[s])
             /\ Claims(<<"transfers", s>>) = TransferClaims(transfers[s])
             /\ Claims(<<"appeals", s>>) = AppealClaims(appeals[s])
             /\ Claims(<<"pool", s>>) = PoolClaims(poolRows[s])
             /\ Claims(<<"treasury", s>>) = TreasuryClaims(proposals[s])
             /\ Claims(<<"registry", s>>) = BusinessClaims
    BY <1>1 DEF Claims, BusinessClaims
<1>3. ASSUME NEW s
      PROVE  /\ Claims(<<"streams", s>>)' = StreamClaims(streams'[s])
             /\ Claims(<<"hedges", s>>)' = HedgeClaims(hedges'[s])
             /\ Claims(<<"transfers", s>>)' = TransferClaims(transfers'[s])
             /\ Claims(<<"appeals", s>>)' = AppealClaims(appeals'[s])
             /\ Claims(<<"pool", s>>)' = PoolClaims(poolRows'[s])
             /\ Claims(<<"treasury", s>>)' = TreasuryClaims(proposals'[s])
             /\ Claims(<<"registry", s>>)' = BusinessClaims'
    BY <1>1 DEF Claims, BusinessClaims
<1> QED BY <1>2, <1>3


LEMMA NothingClaimed ==
    /\ StreamInit => \A s \in Streams : StreamClaims(streams[s]) = {}
    /\ HedgeInit => \A s \in Hedges : HedgeClaims(hedges[s]) = {}
    /\ TransferInit => \A s \in Transfers : TransferClaims(transfers[s]) = {}
    /\ AppealInit => \A s \in Appeals : AppealClaims(appeals[s]) = {}
    /\ PoolInit => \A s \in PoolRows : PoolClaims(poolRows[s]) = {}
    /\ TreasuryInit => \A s \in Proposals : TreasuryClaims(proposals[s]) = {}
    /\ MirrorInit => BusinessClaims = {}
<1>1. StreamInit => \A s \in Streams : StreamClaims(streams[s]) = {}
    BY DEF StreamInit, NoStream, StreamClaims
<1>2. HedgeInit => \A s \in Hedges : HedgeClaims(hedges[s]) = {}
    BY DEF HedgeInit, NoHedge, HedgeClaims
<1>3. TransferInit => \A s \in Transfers : TransferClaims(transfers[s]) = {}
    BY DEF TransferInit, NoTransfer, TransferClaims
<1>4. AppealInit => \A s \in Appeals : AppealClaims(appeals[s]) = {}
    BY DEF AppealInit, NoAppeal, AppealClaims
<1>5. PoolInit => \A s \in PoolRows : PoolClaims(poolRows[s]) = {}
    BY DEF PoolInit, PoolClaims
<1>6. TreasuryInit => \A s \in Proposals : TreasuryClaims(proposals[s]) = {}
    BY DEF TreasuryInit, NoProposal, TreasuryClaims
<1>7. MirrorInit => BusinessClaims = {}
    <2> SUFFICES ASSUME history = <<>> PROVE BusinessClaims = {}
        BY DEF MirrorInit
    <2>1. Range(history) = {}
        BY DEF Range
    <2> QED BY <2>1 DEF BusinessClaims
<1> QED BY <1>1, <1>2, <1>3, <1>4, <1>5, <1>6, <1>7

\* The appeals' rows claim their filings as well.
BookRest == scenario = "appeals" => FilingInv
OnlyClaimed == \A r \in AllRows : Claims(r) \subseteq Confirmed(scenario)

LEMMA ConfirmedFacts ==
    /\ scenario = "streams" => Confirmed(scenario) = UNION {mined[i].events : i \in Canonical}
    /\ scenario \in {"hedges", "appeals"} => Confirmed(scenario) = {mined[i].event : i \in Canonical}
    /\ scenario \in {"transfers", "pool", "treasury", "registry"} =>
          Confirmed(scenario) = {mined[i] : i \in Canonical}
BY DEF Confirmed

LEMMA Claimed == RecordsInv /\ BookRest => OnlyClaimed
<1> SUFFICES ASSUME RecordsInv, BookRest, NEW r \in AllRows
             PROVE  Claims(r) \subseteq Confirmed(scenario)
    BY DEF OnlyClaimed
<1>1. ASSUME NEW s \in Streams PROVE StreamClaims(streams[s]) \subseteq Confirmed(scenario)
    BY StreamClaimed, ConfirmedFacts, NothingClaimed DEF RecordsInv, ServiceInv
<1>2. ASSUME NEW s \in Hedges PROVE HedgeClaims(hedges[s]) \subseteq Confirmed(scenario)
    BY HedgeClaimed, ConfirmedFacts, NothingClaimed DEF RecordsInv, ServiceInv
<1>3. ASSUME NEW s \in Transfers
      PROVE TransferClaims(transfers[s]) \subseteq Confirmed(scenario)
    BY TransferClaimed, ConfirmedFacts, NothingClaimed DEF RecordsInv, ServiceInv
<1>4. ASSUME NEW s \in Appeals PROVE AppealClaims(appeals[s]) \subseteq Confirmed(scenario)
    BY AppealClaimed, ConfirmedFacts, NothingClaimed DEF RecordsInv, ServiceInv, BookRest
<1>5. ASSUME NEW s \in PoolRows PROVE PoolClaims(poolRows[s]) \subseteq Confirmed(scenario)
    BY PoolClaimed, ConfirmedFacts, NothingClaimed DEF RecordsInv, ServiceInv
<1>6. ASSUME NEW s \in Proposals
      PROVE TreasuryClaims(proposals[s]) \subseteq Confirmed(scenario)
    BY TreasuryClaimed, ConfirmedFacts, NothingClaimed DEF RecordsInv, ServiceInv
<1>7. BusinessClaims \subseteq Confirmed(scenario)
    BY BusinessClaimed, ConfirmedFacts, NothingClaimed DEF RecordsInv, ServiceInv
<1> QED BY <1>1, <1>2, <1>3, <1>4, <1>5, <1>6, <1>7, RowCases, ClaimsOf

LEMMA OthersStay ==
    ASSUME RecordsInv, [MCNext /\ UNCHANGED scenario]_allVars
    PROVE  \A r \in AllRows : r[1] # scenario => Claims(r)' = Claims(r)
<1>1. /\ scenario # "streams" => streams' = streams
      /\ scenario # "hedges" => hedges' = hedges
      /\ scenario # "transfers" => transfers' = transfers
      /\ scenario # "appeals" => appeals' = appeals
      /\ scenario # "pool" => poolRows' = poolRows
      /\ scenario # "treasury" => proposals' = proposals
    BY OneServes DEF streamVars, transferVars, appealVars, treasuryVars
<1>2. scenario # "registry" => BusinessClaims' = BusinessClaims
    <2> SUFFICES ASSUME scenario # "registry" PROVE BusinessClaims' = BusinessClaims
        OBVIOUS
    <2>1. history = <<>> /\ history' = history
        BY OneServes DEF mirrorVars, MirrorInit, RecordsInv, ServiceInv
    <2>2. Range(history) = {} /\ Range(history') = {}
        BY <2>1 DEF Range
    <2> QED BY <2>2 DEF BusinessClaims
<1>3. /\ \A s : <<"streams", s>>[1] = "streams" /\ <<"hedges", s>>[1] = "hedges"
                /\ <<"transfers", s>>[1] = "transfers" /\ <<"appeals", s>>[1] = "appeals"
                /\ <<"pool", s>>[1] = "pool" /\ <<"treasury", s>>[1] = "treasury"
                /\ <<"registry", s>>[1] = "registry"
    OBVIOUS
<1>4. ASSUME NEW r \in AllRows, r[1] # scenario PROVE Claims(r)' = Claims(r)
    <2>1. CASE \E s \in Streams : r = <<"streams", s>>
        <3>1. PICK s \in Streams : r = <<"streams", s>>
            BY <2>1
        <3> QED BY <1>1, <1>3, <1>4, <3>1, ClaimsOf
    <2>2. CASE \E s \in Hedges : r = <<"hedges", s>>
        <3>1. PICK s \in Hedges : r = <<"hedges", s>>
            BY <2>2
        <3> QED BY <1>1, <1>3, <1>4, <3>1, ClaimsOf
    <2>3. CASE \E s \in Transfers : r = <<"transfers", s>>
        <3>1. PICK s \in Transfers : r = <<"transfers", s>>
            BY <2>3
        <3> QED BY <1>1, <1>3, <1>4, <3>1, ClaimsOf
    <2>4. CASE \E s \in Appeals : r = <<"appeals", s>>
        <3>1. PICK s \in Appeals : r = <<"appeals", s>>
            BY <2>4
        <3> QED BY <1>1, <1>3, <1>4, <3>1, ClaimsOf
    <2>5. CASE \E s \in PoolRows : r = <<"pool", s>>
        <3>1. PICK s \in PoolRows : r = <<"pool", s>>
            BY <2>5
        <3> QED BY <1>1, <1>3, <1>4, <3>1, ClaimsOf
    <2>6. CASE \E s \in Proposals : r = <<"treasury", s>>
        <3>1. PICK s \in Proposals : r = <<"treasury", s>>
            BY <2>6
        <3> QED BY <1>1, <1>3, <1>4, <3>1, ClaimsOf
    <2>7. CASE r = <<"registry", "business">>
        BY <1>2, <1>3, <1>4, <2>7, ClaimsOf
    <2> QED BY <2>1, <2>2, <2>3, <2>4, <2>5, <2>6, <2>7, RowCases
<1> QED BY <1>4


\* What the serving table does is a step of the book.
LEMMA TableTurns ==
    ASSUME RecordsInv, [MCNext /\ UNCHANGED scenario]_allVars, OnlyClaimed',
           NEW t, t = scenario, NEW S,
           \A s \in S : <<t, s>> \in AllRows,
           \A r \in AllRows : r[1] = t => \E s \in S : r = <<t, s>>,
           \/ Grows /\ \A s \in S : Claims(<<t, s>>)' = Claims(<<t, s>>)
           \/ /\ UNCHANGED <<mined, deep>>
              /\ \E s \in S : /\ \A q \in S \ {s} : Claims(<<t, q>>)' = Claims(<<t, q>>)
                              /\ Claims(<<t, s>>)' # {}
    PROVE  [Book!Next]_(Book!vars)
<1>0. scenario' = scenario
    BY OneServes
<1>1. CASE Grows /\ \A s \in S : Claims(<<t, s>>)' = Claims(<<t, s>>)
    <2>1. \A r \in AllRows : Claims(r)' = Claims(r)
        BY <1>1, OthersStay
    <2> QED BY <1>0, <1>1, <2>1, FactsGrow, BookGrows
<1>2. ASSUME UNCHANGED <<mined, deep>>, NEW s \in S,
             \A q \in S \ {s} : Claims(<<t, q>>)' = Claims(<<t, q>>), Claims(<<t, s>>)' # {}
      PROVE  Book!Next
    <2>1. PICK r \in AllRows : r = <<t, s>>
        OBVIOUS
    <2>2. \A q \in AllRows \ {r} : Claims(q)' = Claims(q)
        BY <1>2, <2>1, OthersStay
    <2>3. Confirmed(scenario)' = Confirmed(scenario)
        BY <1>0, <1>2 DEF Confirmed, Canonical, Receipts
    <2>4. Claims(r)' # {}
        BY <1>2, <2>1
    <2>5. Claims(r)' \subseteq Confirmed(scenario)
        BY <2>3 DEF OnlyClaimed
    <2> QED BY <2>2, <2>3, <2>4, <2>5, BookTaken
<1> QED BY <1>1, <1>2

LEMMA ClaimsChain == ClaimsInv /\ [ClaimsNext]_<<shared, payments>> => Grows
<1> SUFFICES ASSUME ClaimsInv, [ClaimsNext]_<<shared, payments>> PROVE Grows
    OBVIOUS
<1>0. mined \in Seq(ClaimTxs) /\ deep \in 0..Len(mined) /\ DOMAIN req = Workers
    BY DEF ClaimsInv, ClaimsTypes
<1>1. ASSUME NEW call, NEW by, NEW target, NEW events, Transaction(call, by, target, events)
      PROVE Grows
    BY <1>0, <1>1, ChainGrows DEF Transaction
<1>2. ASSUME NEW by, NEW d, initiatePayment(by, d) \/ initiatePaymentBatch(by, d) PROVE Grows
    BY <1>1, <1>2 DEF initiatePayment, initiatePaymentBatch
<1>3. ASSUME NEW call, NEW id, endPayment(call, id) PROVE Grows
    BY <1>1, <1>3 DEF endPayment
<1>4. ASSUME NEW w \in Workers, NEW b, NEW i, NEW id, NEW d, NEW claimed,
             \/ reconcilePayment(w, b, i, claimed, d) \/ reconcileEnd(w, b, i, id, d)
             \/ createPayment(w) \/ storeEnd(w)
      PROVE  Grows
    BY <1>4, Unmoved DEF reconcilePayment, reconcileEnd, createPayment, storeEnd
<1>5. CASE \/ UNCHANGED <<shared, payments>>
           \/ (RequestStep \/ ChainStep) /\ UNCHANGED payments
    BY <1>0, <1>5, RequestEnds, ChainGrows, Unmoved DEF shared
<1> QED BY <1>2, <1>3, <1>4, <1>5 DEF ClaimsNext

LEMMA TablesOf ==
    /\ \A r \in AllRows : r[1] = "streams" => \E s \in Streams : r = <<"streams", s>>
    /\ \A r \in AllRows : r[1] = "hedges" => \E s \in Hedges : r = <<"hedges", s>>
    /\ \A r \in AllRows : r[1] = "transfers" => \E s \in Transfers : r = <<"transfers", s>>
    /\ \A r \in AllRows : r[1] = "appeals" => \E s \in Appeals : r = <<"appeals", s>>
    /\ \A r \in AllRows : r[1] = "pool" => \E s \in PoolRows : r = <<"pool", s>>
    /\ \A r \in AllRows : r[1] = "treasury" => \E s \in Proposals : r = <<"treasury", s>>
    /\ \A r \in AllRows : r[1] = "registry" => \E s \in {"business"} : r = <<"registry", s>>
    /\ \A r \in AllRows : r[1] \in {"streams", "hedges", "transfers", "appeals", "pool", "treasury", "registry"}
BY DEF AllRows

LEMMA BookSteps ==
    RecordsInv /\ OnlyClaimed' /\ [MCNext /\ UNCHANGED scenario]_allVars => [Book!Next]_(Book!vars)
<1> SUFFICES ASSUME RecordsInv, OnlyClaimed', [MCNext /\ UNCHANGED scenario]_allVars
             PROVE  [Book!Next]_(Book!vars)
    OBVIOUS
<1>1. CASE scenario = "streams"
    <2>1. \/ Grows /\ \A s \in Streams : Claims(<<"streams", s>>)' = Claims(<<"streams", s>>)
          \/ /\ UNCHANGED <<mined, deep>>
             /\ \E s \in Streams : /\ \A q \in Streams \ {s} : Claims(<<"streams", q>>)' = Claims(<<"streams", q>>)
                                   /\ Claims(<<"streams", s>>)' # {}
        BY <1>1, OneServes, StreamTurns, ClaimsOf DEF RecordsInv, ServiceInv
    <2>2. \A s \in Streams : <<"streams", s>> \in AllRows
        BY RowsThere
    <2>3. \A r \in AllRows : r[1] = "streams" => \E s \in Streams : r = <<"streams", s>>
        BY TablesOf
    <2> QED BY <1>1, <2>1, <2>2, <2>3, TableTurns
<1>2. CASE scenario = "hedges"
    <2>1. \/ Grows /\ \A s \in Hedges : Claims(<<"hedges", s>>)' = Claims(<<"hedges", s>>)
          \/ /\ UNCHANGED <<mined, deep>>
             /\ \E s \in Hedges : /\ \A q \in Hedges \ {s} : Claims(<<"hedges", q>>)' = Claims(<<"hedges", q>>)
                                  /\ Claims(<<"hedges", s>>)' # {}
        BY <1>2, OneServes, HedgeTurns, ClaimsOf DEF RecordsInv, ServiceInv
    <2>2. \A s \in Hedges : <<"hedges", s>> \in AllRows
        BY RowsThere
    <2>3. \A r \in AllRows : r[1] = "hedges" => \E s \in Hedges : r = <<"hedges", s>>
        BY TablesOf
    <2> QED BY <1>2, <2>1, <2>2, <2>3, TableTurns
<1>3. CASE scenario = "transfers"
    <2>1. \/ Grows /\ \A s \in Transfers : Claims(<<"transfers", s>>)' = Claims(<<"transfers", s>>)
          \/ /\ UNCHANGED <<mined, deep>>
             /\ \E s \in Transfers :
                   /\ \A q \in Transfers \ {s} : Claims(<<"transfers", q>>)' = Claims(<<"transfers", q>>)
                   /\ Claims(<<"transfers", s>>)' # {}
        BY <1>3, OneServes, TransferTurns, ClaimsOf DEF RecordsInv, ServiceInv
    <2>2. \A s \in Transfers : <<"transfers", s>> \in AllRows
        BY RowsThere
    <2>3. \A r \in AllRows : r[1] = "transfers" => \E s \in Transfers : r = <<"transfers", s>>
        BY TablesOf
    <2> QED BY <1>3, <2>1, <2>2, <2>3, TableTurns
<1>4. CASE scenario = "appeals"
    <2>1. \/ Grows /\ \A s \in Appeals : Claims(<<"appeals", s>>)' = Claims(<<"appeals", s>>)
          \/ /\ UNCHANGED <<mined, deep>>
             /\ \E s \in Appeals : /\ \A q \in Appeals \ {s} : Claims(<<"appeals", q>>)' = Claims(<<"appeals", q>>)
                                   /\ Claims(<<"appeals", s>>)' # {}
        BY <1>4, OneServes, AppealTurns, ClaimsOf DEF RecordsInv, ServiceInv
    <2>2. \A s \in Appeals : <<"appeals", s>> \in AllRows
        BY RowsThere
    <2>3. \A r \in AllRows : r[1] = "appeals" => \E s \in Appeals : r = <<"appeals", s>>
        BY TablesOf
    <2> QED BY <1>4, <2>1, <2>2, <2>3, TableTurns
<1>5. CASE scenario = "pool"
    <2>1. \/ Grows /\ \A s \in PoolRows : Claims(<<"pool", s>>)' = Claims(<<"pool", s>>)
          \/ /\ UNCHANGED <<mined, deep>>
             /\ \E s \in PoolRows : /\ \A q \in PoolRows \ {s} : Claims(<<"pool", q>>)' = Claims(<<"pool", q>>)
                                    /\ Claims(<<"pool", s>>)' # {}
        BY <1>5, OneServes, PoolTurns, ClaimsOf DEF RecordsInv, ServiceInv
    <2>2. \A s \in PoolRows : <<"pool", s>> \in AllRows
        BY RowsThere
    <2>3. \A r \in AllRows : r[1] = "pool" => \E s \in PoolRows : r = <<"pool", s>>
        BY TablesOf
    <2> QED BY <1>5, <2>1, <2>2, <2>3, TableTurns
<1>6. CASE scenario = "treasury"
    <2>1. \/ Grows /\ \A s \in Proposals : Claims(<<"treasury", s>>)' = Claims(<<"treasury", s>>)
          \/ /\ UNCHANGED <<mined, deep>>
             /\ \E s \in Proposals :
                   /\ \A q \in Proposals \ {s} : Claims(<<"treasury", q>>)' = Claims(<<"treasury", q>>)
                   /\ Claims(<<"treasury", s>>)' # {}
        BY <1>6, OneServes, TreasuryTurns, ClaimsOf DEF RecordsInv, ServiceInv
    <2>2. \A s \in Proposals : <<"treasury", s>> \in AllRows
        BY RowsThere
    <2>3. \A r \in AllRows : r[1] = "treasury" => \E s \in Proposals : r = <<"treasury", s>>
        BY TablesOf
    <2> QED BY <1>6, <2>1, <2>2, <2>3, TableTurns
<1>7. CASE scenario = "registry"
    <2>1. \/ Grows /\ \A s \in {"business"} : Claims(<<"registry", s>>)' = Claims(<<"registry", s>>)
          \/ /\ UNCHANGED <<mined, deep>>
             /\ \E s \in {"business"} :
                   /\ \A q \in {"business"} \ {s} : Claims(<<"registry", q>>)' = Claims(<<"registry", q>>)
                   /\ Claims(<<"registry", s>>)' # {}
        BY <1>7, OneServes, MirrorTurns, ClaimsOf DEF RecordsInv, ServiceInv
    <2>2. \A s \in {"business"} : <<"registry", s>> \in AllRows
        BY RowsThere
    <2>3. \A r \in AllRows : r[1] = "registry" => \E s \in {"business"} : r = <<"registry", s>>
        BY TablesOf
    <2> QED BY <1>7, <2>1, <2>2, <2>3, TableTurns
<1>8. CASE scenario \notin {"streams", "hedges", "transfers", "appeals", "pool", "treasury", "registry"}
    <2>1. Grows
        <3>1. CASE scenario = "payments"
            BY <3>1, OneServes, ClaimsChain DEF RecordsInv, ServiceInv
        <3>2. CASE scenario = "invoices"
            BY <3>2, OneServes, InvoicesOffChain, Unmoved DEF RecordsInv, ChainIdle, Chained
        <3>3. CASE scenario \notin {"payments", "invoices"}
            BY <1>8, <3>3, OneServes, Unmoved DEF shared, Chained
        <3> QED BY <3>1, <3>2, <3>3
    <2>2. \A r \in AllRows : Claims(r)' = Claims(r)
        BY <1>8, OthersStay, TablesOf
    <2> QED BY <2>1, <2>2, OneServes, FactsGrow, BookGrows
<1> QED BY <1>1, <1>2, <1>3, <1>4, <1>5, <1>6, <1>7, <1>8


LEMMA BookBegins == MCInit => Book!Init
<1> SUFFICES ASSUME MCInit PROVE Book!Init
    OBVIOUS
<1>0. /\ RequestsInit /\ TreasuryInit /\ StreamInit /\ HedgeInit /\ TransferInit /\ PoolInit
      /\ AppealInit /\ MirrorInit
    BY DEF MCInit
<1>1. Canonical = {}
    BY <1>0 DEF RequestsInit, Canonical, Receipts
<1>2. Confirmed(scenario) = {}
    <2>1. UNION {mined[i].events : i \in Canonical} = {} /\ {mined[i].event : i \in Canonical} = {}
          /\ {mined[i] : i \in Canonical} = {}
        BY <1>1
    <2> QED BY <2>1 DEF Confirmed
<1>3. ASSUME NEW r \in AllRows PROVE Claims(r) = {}
    BY <1>0, <1>3, RowCases, ClaimsOf, NothingClaimed
<1> QED BY <1>2, <1>3 DEF Book!Init

LEMMA BookRestStart == MCInit => BookRest
BY FilingStart DEF MCInit, BookRest

LEMMA BookRestStep ==
    RecordsInv /\ BookRest /\ [MCNext /\ UNCHANGED scenario]_allVars => BookRest'
<1> SUFFICES ASSUME RecordsInv, BookRest, [MCNext /\ UNCHANGED scenario]_allVars PROVE BookRest'
    OBVIOUS
<1>1. CASE scenario = "appeals"
    BY <1>1, OneServes, FilingStep DEF BookRest, RecordsInv, ServiceInv
<1>2. CASE scenario # "appeals"
    BY <1>2, OneServes DEF BookRest
<1> QED BY <1>1, <1>2

LEMMA CloseStays ==
    RecordsInv /\ [MCNext /\ UNCHANGED scenario]_allVars =>
        [\A r \in Hedges : hedges[r].status \notin {"NONE", "OPEN"} => hedges'[r] = hedges[r]]_hedges
<1> SUFFICES ASSUME RecordsInv, [MCNext /\ UNCHANGED scenario]_allVars
             PROVE  [\A r \in Hedges : hedges[r].status \notin {"NONE", "OPEN"} => hedges'[r] = hedges[r]]_hedges
    OBVIOUS
<1>1. CASE scenario = "hedges"
    BY <1>1, OneServes, HedgeStep DEF RecordsInv, ServiceInv
<1>2. CASE scenario # "hedges"
    BY <1>2, OneServes
<1> QED BY <1>1, <1>2

\* Every service that records what a contract did implements the one book of
\* receipts: a row takes a claim only when a receipt with enough confirmations
\* proves it, one row at a time, never gives all its claims up again, and what
\* was proved once stays proved; and a hedge keeps the close it was given
\* (services/treasury.ts, streaming.ts, fx.ts, crosschain.ts, liquidity.ts,
\* ai-compliance.ts, business-reconciliation.ts).
THEOREM ServicesKeepTheBook == MCSpec => BookKept
<1>1. MCSpec => [](RecordsInv /\ BookRest)
    <2>1. MCInit => RecordsInv /\ BookRest
        BY RecordsStart, BookRestStart
    <2>2. RecordsInv /\ BookRest /\ [MCNext /\ UNCHANGED scenario]_allVars => (RecordsInv /\ BookRest)'
        BY RecordsStep, BookRestStep
    <2> QED BY <2>1, <2>2, PTL DEF MCSpec
<1>2. MCSpec => []OnlyClaimed
    BY <1>1, Claimed, PTL
<1>3. MCSpec => Book!Spec
    BY <1>1, <1>2, BookBegins, BookSteps, PTL DEF MCSpec, Book!Spec
<1>4. MCSpec => HedgeKeepsItsClose
    BY <1>1, CloseStays, PTL DEF MCSpec, HedgeKeepsItsClose
<1> QED BY <1>3, <1>4 DEF BookKept
=============================================================================
