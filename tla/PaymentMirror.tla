--------------------------- MODULE PaymentMirror ---------------------------
(***************************************************************************)
(* The backend's record of one on-chain payment: the payment row, its      *)
(* compliance submission intent, its screening and its audit entries, as   *)
(* payment-reconciliation.ts and compliance.ts write them.                 *)
(*                                                                         *)
(* A worker is one HTTP request being served.  Between two awaits of a     *)
(* request anything else may happen: other requests, a reorganisation of   *)
(* the chain, a crash.  The label of a worker names what it does next; a   *)
(* database transaction (Serializable, or a single statement) is one step, *)
(* and so is a chain verification, whose last read is one snapshot         *)
(* (canonical-chain-transaction.ts).  A request that is refused, times out *)
(* or dies leaves only what it has committed.                              *)
(***************************************************************************)
EXTENDS Naturals, FiniteSets, Sequences

CONSTANTS
    Workers,        \* requests in service at the same time
    MinConf,        \* minimumConfirmations of the chain configuration
    Blocks,         \* block numbers the submission may be mined at
    MaxFaults,      \* bound: crashes, timeouts and database failures
    MaxReorgs,      \* bound: reorganisations of the chain
    MaxLogged       \* bound: audit entries of a kind are counted up to here, a second too

ASSUME MirrorAssumption == /\ MinConf \in Nat \ {0}
                           /\ Blocks \subseteq Nat \ {0}
                           /\ {MaxFaults, MaxReorgs} \subseteq Nat
                           /\ MaxLogged \in Nat \ {0, 1}

Verdicts == {"PASSED", "UNDER_REVIEW", "FAILED"}
Lifecycle == {"settle", "cancel", "refund"}
Txs == {"create", "screen"} \cup Lifecycle
Final == {"SETTLED", "CANCELLED", "REFUNDED"}
Screened == {"APPROVED", "FLAGGED", "REJECTED"}
PaymentStatus == {"NONE", "PENDING"} \cup Screened \cup Final

Mined == [tx : Txs, block : Blocks \cup {0}, depth : 1..MinConf, joined : BOOLEAN]

\* What a worker carries from one await to the next.
Evidence == [block : Blocks \cup {0}, verdict : Verdicts \cup {"NONE"}]
NoEvidence == [block |-> 0, verdict |-> "NONE"]

Labels == {"idle", "create", "upsert", "request", "verify", "recheck", "store",
           "recover", "revalidate", "commit", "escalate"} \cup Lifecycle
AuditKinds == {"PAYMENT_CREATED", "COMPLIANCE"} \cup Lifecycle

VARIABLES
    chain,      \* the payment's transactions on the canonical chain, in order
    verdict,    \* the operator's answer, "NONE" before the first request
    row,        \* Payment.status, "NONE" before the row exists
    intent,     \* ComplianceSubmissionIntent: its state and its evidence
    screening,  \* the ComplianceScreening row
    audit,      \* number of AuditLog entries of each kind
    pc, held,   \* per worker: its label, and the evidence it holds
    finality,   \* whether a reorganisation spares confirmed transactions
    exposed,    \* history: workers past their last check when one came
    faults, reorgs

backend == <<row, intent, screening, audit>>
bounds == <<finality, faults, reorgs>>
vars == <<chain, verdict, backend, pc, held, exposed, bounds>>

NoIntent == [state |-> "NONE", evidence |-> NoEvidence]
NoScreening == [status |-> "NONE", block |-> 0]

TypeOK ==
    /\ chain \in Seq(Mined)
    /\ verdict \in Verdicts \cup {"NONE"}
    /\ row \in PaymentStatus
    /\ intent \in [state : {"NONE", "PENDING", "VERIFIED", "COMPLETED"}, evidence : Evidence]
    /\ screening \in [status : Verdicts \cup {"NONE", "ESCALATED"}, block : Blocks \cup {0}]
    /\ audit \in [AuditKinds -> 0..MaxLogged]
    /\ pc \in [Workers -> Labels]
    /\ held \in [Workers -> Evidence]
    /\ exposed \subseteq Workers
    /\ finality \in BOOLEAN /\ faults \in 0..MaxFaults /\ reorgs \in 0..MaxReorgs

Init ==
    /\ chain = <<>> /\ verdict = "NONE"
    /\ row = "NONE" /\ intent = NoIntent /\ screening = NoScreening
    /\ audit = [k \in AuditKinds |-> 0]
    /\ pc = [w \in Workers |-> "idle"]
    /\ held = [w \in Workers |-> NoEvidence]
    /\ exposed = {} /\ faults = 0 /\ reorgs = 0
    /\ finality \in BOOLEAN

----------------------------------------------------------------------------
(* The chain and the operator. *)

\* The payment's status in the contract (NoblePay.sol).
ContractStatus ==
    IF chain = <<>> THEN "NONE"
    ELSE CASE chain[Len(chain)].tx = "create" -> "PENDING"
           [] chain[Len(chain)].tx = "screen" -> verdict
           [] chain[Len(chain)].tx = "settle" -> "SETTLED"
           [] OTHER -> "REFUNDED"

\* The statuses a NoblePay call starts from.  The screening is the operator's,
\* who sends it once and holds the only key.
Accepted(tx) ==
    CASE tx = "create" -> chain = <<>>
      [] tx = "screen" -> verdict # "NONE" /\ ContractStatus = "PENDING"
      [] tx = "cancel" -> ContractStatus = "PENDING"
      [] tx = "settle" -> ContractStatus = "PASSED"
      [] tx = "refund" -> ContractStatus \in Verdicts

\* A transaction enters the newest block.  Only two facts about blocks are ever
\* read: the number of the submission's, and whether the block of the creation
\* holds the next transaction too.
Mine(tx) ==
    /\ Accepted(tx)
    /\ \E b \in IF tx = "screen" THEN Blocks ELSE {0}, joined \in BOOLEAN :
          /\ joined => Len(chain) = 1 /\ chain[1].depth = 1
          /\ chain' = Append(chain, [tx |-> tx, block |-> b, depth |-> 1, joined |-> joined])
    /\ UNCHANGED <<verdict, backend, pc, held, exposed, bounds>>

Deepen ==
    /\ \E i \in 1..Len(chain) : chain[i].depth < MinConf
    /\ chain' = [i \in 1..Len(chain) |->
                   [chain[i] EXCEPT !.depth = IF @ < MinConf THEN @ + 1 ELSE @]]
    /\ UNCHANGED <<verdict, backend, pc, held, exposed, bounds>>

\* Blocks are replaced; the transactions in them wait to be mined again.  With
\* finality a confirmed one never leaves.
Reorg ==
    /\ reorgs < MaxReorgs
    /\ \E keep \in 0..(Len(chain) - 1) :
          /\ finality => \A i \in (keep + 1)..Len(chain) : chain[i].depth < MinConf
          /\ ~chain[keep + 1].joined
          /\ chain' = SubSeq(chain, 1, keep)
    /\ reorgs' = reorgs + 1
    /\ exposed' = exposed \cup {w \in Workers : pc[w] \in {"create", "commit"} \cup Lifecycle}
    /\ UNCHANGED <<verdict, backend, pc, held, finality, faults>>

At(tx) == {i \in 1..Len(chain) : chain[i].tx = tx}
\* Mutant: one confirmation less is enough
ConfirmedEarly(tx) == \E i \in At(tx) : chain[i].depth >= MinConf - 1

Confirmed(tx) == \E i \in At(tx) : chain[i].depth >= MinConf
BlockOf(tx) == chain[CHOOSE i \in At(tx) : TRUE].block

\* The verifier of compliance-chain.ts accepts the operator's transaction, and
\* reports its block and its disposition.
Verifies == Confirmed("screen")
Proof == [block |-> BlockOf("screen"), verdict |-> verdict]

----------------------------------------------------------------------------
(* Requests. *)

Goto(w, label) == /\ pc' = [pc EXCEPT ![w] = label]
                  /\ exposed' = exposed \ {w}
Holding(w, e) == held' = [held EXCEPT ![w] = e]
Done(w) == Goto(w, "idle") /\ Holding(w, NoEvidence)
World == <<chain, verdict, bounds>>

\* reconcile: the creation is confirmed, and the contract state at the end of
\* its block is still the one the creation left.
CreatedAlone == \A i \in 1..Len(chain) : ~chain[i].joined

reconcile(w) ==
    /\ pc[w] = "idle" /\ Confirmed("create") /\ CreatedAlone
    /\ Goto(w, "create")
    /\ UNCHANGED <<World, backend, held>>

Logged(kind) == audit' = [audit EXCEPT ![kind] = IF @ < MaxLogged THEN @ + 1 ELSE @]

commitCreate(w) ==
    /\ pc[w] = "create"
    /\ IF row = "NONE" THEN row' = "PENDING" /\ Logged("PAYMENT_CREATED")
                       ELSE UNCHANGED <<row, audit>>
    /\ Done(w)
    /\ UNCHANGED <<World, intent, screening>>

reconcileLifecycle(w, tx) ==
    /\ pc[w] = "idle" /\ row # "NONE" /\ Confirmed(tx)
    /\ Goto(w, tx)
    /\ UNCHANGED <<World, backend, held>>

FinalStatus(tx) == CASE tx = "settle" -> "SETTLED"
                     [] tx = "cancel" -> "CANCELLED"
                     [] tx = "refund" -> "REFUNDED"

\* Mutant: applies the transaction without looking for its audit entry
applyAgain(w, tx) ==
    /\ pc[w] = tx
    /\ row' = FinalStatus(tx) /\ Logged(tx)
    /\ Done(w)
    /\ UNCHANGED <<World, intent, screening>>

\* Mutant: mirrors the end of a payment that was never screened only
applyToPending(w, tx) ==
    /\ pc[w] = tx
    /\ IF audit[tx] = 0 /\ row = "PENDING" THEN row' = FinalStatus(tx) /\ Logged(tx)
                                           ELSE UNCHANGED <<row, audit>>
    /\ Done(w)
    /\ UNCHANGED <<World, intent, screening>>

\* The audit entry of the transaction marks what was applied before; a replay
\* (or a conflict with it) changes nothing.
commitLifecycle(w, tx) ==
    /\ pc[w] = tx
    /\ IF audit[tx] = 0 THEN row' = FinalStatus(tx) /\ Logged(tx)
                        ELSE UNCHANGED <<row, audit>>
    /\ Done(w)
    /\ UNCHANGED <<World, intent, screening>>

\* submitForScreening reads the payment; one that left PENDING is answered
\* from what is stored, or refused.
submitForScreening(w) ==
    /\ pc[w] = "idle" /\ row = "PENDING"
    /\ Goto(w, "upsert")
    /\ UNCHANGED <<World, backend, held>>

upsertIntent(w) ==
    /\ pc[w] = "upsert"
    /\ intent' = IF intent.state = "NONE" THEN [intent EXCEPT !.state = "PENDING"] ELSE intent
    /\ Goto(w, IF intent'.state = "PENDING" THEN "request" ELSE "recover")
    /\ UNCHANGED <<World, row, screening, audit, held>>

\* The operator answers each request of the payment as it answered the first.
requestSubmission(w) ==
    /\ pc[w] = "request"
    /\ verdict' \in IF verdict = "NONE" THEN Verdicts ELSE {verdict}
    /\ Goto(w, "verify")
    /\ UNCHANGED <<chain, backend, held, bounds>>

verifySubmission(w) ==
    /\ pc[w] = "verify"
    /\ IF Verifies THEN Goto(w, "recheck") /\ Holding(w, Proof) ELSE Done(w)
    /\ UNCHANGED <<World, backend>>

\* revalidateComplianceEvidence: the chain still says what the worker holds.
Revalidated(w, next) ==
    /\ IF Verifies /\ Proof = held[w] THEN Goto(w, next) /\ UNCHANGED held ELSE Done(w)
    /\ UNCHANGED <<World, backend>>

recheckEvidence(w) == pc[w] = "recheck" /\ Revalidated(w, "store")

\* Mutant: stores the evidence whatever the state of the intent
storeAnyState(w) ==
    /\ pc[w] = "store"
    /\ intent' = [state |-> "VERIFIED", evidence |-> held[w]]
    /\ Goto(w, "revalidate")
    /\ UNCHANGED <<World, row, screening, audit, held>>

persistVerifiedComplianceEvidence(w) ==
    /\ pc[w] = "store"
    /\ IF intent.state = "PENDING"
       THEN intent' = [state |-> "VERIFIED", evidence |-> held[w]] /\ Goto(w, "revalidate")
       ELSE UNCHANGED intent /\ Goto(w, "recover")
    /\ UNCHANGED <<World, row, screening, audit, held>>

\* Mutant: durable evidence is treated as corrupt
recoverNothing(w) ==
    /\ pc[w] = "recover"
    /\ Done(w)
    /\ UNCHANGED <<World, backend>>

\* The durable evidence is taken over when the chain still confirms it.
recoverVerifiedComplianceEvidence(w) ==
    /\ pc[w] = "recover"
    /\ IF intent.state # "PENDING" /\ Verifies /\ Proof = intent.evidence
       THEN Goto(w, "revalidate") /\ Holding(w, intent.evidence)
       ELSE Done(w)
    /\ UNCHANGED <<World, backend>>

\* Mutant: commits on the evidence it holds
trustEvidence(w) ==
    /\ pc[w] = "revalidate" /\ Goto(w, "commit")
    /\ UNCHANGED <<World, backend, held>>

revalidateComplianceEvidence(w) == pc[w] = "revalidate" /\ Revalidated(w, "commit")

\* Mutant: the verdict is taken for a payment status
SameStatus(v) == v

NewStatus(v) == CASE v = "PASSED" -> "APPROVED"
                  [] v = "FAILED" -> "REJECTED"
                  [] v = "UNDER_REVIEW" -> "FLAGGED"

\* Mutant: does not read the payment again
commitAnyStatus(w) ==
    /\ pc[w] = "commit"
    /\ screening' = [status |-> held[w].verdict, block |-> held[w].block]
    /\ row' = NewStatus(held[w].verdict)
    /\ intent' = [intent EXCEPT !.state = "COMPLETED"]
    /\ Logged("COMPLIANCE")
    /\ Done(w)
    /\ UNCHANGED World

\* Mutant: leaves the intent VERIFIED
commitUncompleted(w) ==
    /\ pc[w] = "commit"
    /\ IF row = "PENDING"
       THEN /\ screening' = [status |-> held[w].verdict, block |-> held[w].block]
            /\ row' = NewStatus(held[w].verdict)
            /\ Logged("COMPLIANCE")
       ELSE UNCHANGED <<row, screening, audit>>
    /\ Done(w)
    /\ UNCHANGED <<World, intent>>

\* One transaction: the screening, the payment, the intent and the audit entry.
\* A payment that left PENDING keeps its row; the intent of a screening that
\* exists is completed, anything else is refused.
commitScreening(w) ==
    /\ pc[w] = "commit"
    /\ IF row = "PENDING"
       THEN /\ screening' = [status |-> held[w].verdict, block |-> held[w].block]
            /\ row' = NewStatus(held[w].verdict)
            /\ intent' = [intent EXCEPT !.state = "COMPLETED"]
            /\ Logged("COMPLIANCE")
       ELSE /\ intent' = IF screening = NoScreening THEN intent
                         ELSE [intent EXCEPT !.state = "COMPLETED"]
            /\ UNCHANGED <<row, screening, audit>>
    /\ Done(w)
    /\ UNCHANGED World

reviewFlaggedPayment(w) ==
    /\ pc[w] = "idle" /\ row = "FLAGGED" /\ screening # NoScreening
    /\ Goto(w, "escalate")
    /\ UNCHANGED <<World, backend, held>>

commitEscalation(w) ==
    /\ pc[w] = "escalate"
    /\ screening' = [screening EXCEPT !.status = "ESCALATED"]
    /\ Done(w)
    /\ UNCHANGED <<World, row, intent, audit>>

\* A crash, a timeout (the operator may have acted), a failed statement.
Fail(w) ==
    /\ pc[w] # "idle" /\ faults < MaxFaults
    /\ faults' = faults + 1
    /\ Done(w)
    /\ UNCHANGED <<chain, verdict, backend, finality, reorgs>>

Step(w) ==
    \/ commitCreate(w) \/ \E tx \in Lifecycle : commitLifecycle(w, tx)
    \/ upsertIntent(w) \/ requestSubmission(w) \/ verifySubmission(w) \/ recheckEvidence(w)
    \/ persistVerifiedComplianceEvidence(w) \/ recoverVerifiedComplianceEvidence(w)
    \/ revalidateComplianceEvidence(w) \/ commitScreening(w) \/ commitEscalation(w)

Next ==
    \/ \E tx \in Txs : Mine(tx)
    \/ Deepen \/ Reorg
    \/ \E w \in Workers :
          \/ reconcile(w) \/ submitForScreening(w) \/ reviewFlaggedPayment(w)
          \/ \E tx \in Lifecycle : reconcileLifecycle(w, tx)
          \/ Step(w) \/ Fail(w)

Spec == Init /\ [][Next]_vars

\* Requests in service make progress; the chain mines what is sent to it and
\* buries what it mined; clients repeat a request until it is answered.
Fairness ==
    /\ WF_vars(Deepen) /\ WF_vars(Mine("create")) /\ WF_vars(Mine("screen"))
    /\ \A w \in Workers : WF_vars(Step(w))
    /\ SF_vars(\E w \in Workers : reconcile(w))
    /\ SF_vars(\E w \in Workers : submitForScreening(w))
    /\ \A tx \in Lifecycle : SF_vars(\E w \in Workers : reconcileLifecycle(w, tx))

----------------------------------------------------------------------------
(* Properties. *)

\* With finality, everything the backend ever recorded is on the chain and
\* stays there: the row, a screening at its block with its verdict, a final
\* status.  (minimumConfirmations is the operator's finality depth: reading a
\* transaction one confirmation early records what a reorganisation removes.)
MirrorTrue ==
    finality =>
        /\ row # "NONE" => At("create") # {}
        /\ intent.state \in {"VERIFIED", "COMPLETED"} =>
              At("screen") # {} /\ intent.evidence = Proof
        /\ screening # NoScreening => At("screen") # {} /\ screening.block = BlockOf("screen")
        /\ \A tx \in Lifecycle : row = FinalStatus(tx) => At(tx) # {}

\* The audit log tells the row's history exactly: one entry for the creation,
\* one for the screening, one for each lifecycle transaction that was applied,
\* however often and however concurrently requests are repeated.
AuditExact ==
    /\ \A k \in AuditKinds : audit[k] <= 1
    /\ row # "NONE" <=> audit["PAYMENT_CREATED"] = 1
    /\ screening # NoScreening <=> audit["COMPLIANCE"] = 1
    /\ \A tx \in Lifecycle : row = FinalStatus(tx) => audit[tx] = 1
    /\ finality => Cardinality({tx \in Lifecycle : audit[tx] = 1}) <= 1

\* What the backend shows of a payment and what it can account for: both follow
\* the chain, whichever requests are repeated, race or die
\* (services/payment-reconciliation.ts, compliance.ts).
MirrorExact == MirrorTrue /\ AuditExact

\* The intent, the screening and the row agree: a completed intent has its
\* screening and the other way round, and a row that shows a verdict shows the
\* verdict of the intent's evidence.
ScreeningAgrees ==
    /\ intent.state = "COMPLETED" <=> screening # NoScreening
    /\ screening # NoScreening =>
          /\ screening.block = intent.evidence.block
          /\ \/ screening.status = intent.evidence.verdict
             \/ screening.status = "ESCALATED" /\ intent.evidence.verdict = "UNDER_REVIEW"
    /\ row \in Screened => row = NewStatus(intent.evidence.verdict)

\* A payment whose end was mirrored never goes back to a screening status: the
\* worker that verified a submission meanwhile leaves the row alone.
FinalStays == [][(row \in Final) => (row' \in Final)]_vars

\* Evidence is written once: an intent never goes back, and the evidence that
\* one worker stored is the evidence every later worker finds.
EvidenceDurable ==
    [][/\ intent.state \in {"VERIFIED", "COMPLETED"} =>
             /\ intent'.evidence = intent.evidence
             /\ intent'.state \in {intent.state, "COMPLETED"}
       /\ screening # NoScreening => screening'.block = screening.block]_vars

\* Even when confirmed blocks are replaced, a worker records a verdict, a new
\* row or an end that the chain does not hold only if the reorganisation came
\* between its last check and its commit.
WindowOnly ==
    [][(\A w \in Workers \ exposed :
          /\ pc[w] = "create" /\ row' # row => At("create") # {}
          /\ pc[w] = "commit" /\ pc'[w] = "idle" /\ row' # row =>
                At("screen") # {} /\ BlockOf("screen") = screening'.block
          /\ \A tx \in Lifecycle :
                pc[w] = tx /\ pc'[w] = "idle" /\ row' # row => At(tx) # {})]_vars

\* With finality, a payment that waits for its verdict gets one or ends.
ScreeningDecided == finality => (row = "PENDING" ~> row # "PENDING")

\* With finality, a confirmed end of a payment is mirrored, unless the contract
\* had left PENDING in the very block of the creation, which is never recorded.
EndMirrored ==
    finality => \A tx \in Lifecycle :
        (Confirmed("create") /\ CreatedAlone /\ Confirmed(tx)) ~> row = FinalStatus(tx)

\* A payment's verdict and its end reach the row (the same services).
MirrorCatchesUp == ScreeningDecided /\ EndMirrored

\* deploy/compliance-api-contract.md:117: verified evidence is stored "before
\* advancing the local payment, so a database failure after chain success
\* resumes from that evidence on retry".
EvidenceResumes == finality => (intent.state = "VERIFIED" ~> intent.state = "COMPLETED")

----------------------------------------------------------------------------
(* What TLC explores: two kinds of chain side by side, one whose            *)
(* reorganisations spare what is confirmed, where requests also fail, and   *)
(* one where a reorganisation may be of any depth.                          *)

FaultsInScope == finality \/ faults = 0

MCSpec == Init /\ [][Next /\ FaultsInScope']_vars
MCFairSpec == MCSpec /\ Fairness
=============================================================================
