------------------------ MODULE PaymentMirrorProofs ------------------------
(***************************************************************************)
(* Proofs about PaymentMirror, for any number of requests, confirmations,  *)
(* faults and reorganisations (of any depth).                              *)
(***************************************************************************)
EXTENDS PaymentMirror, SequenceTheorems, FiniteSetTheorems, TLAPS

Stored == {"VERIFIED", "COMPLETED"}

\* The operator has answered every submission the chain holds.
ChainAnswered == \A i \in 1..Len(chain) : chain[i].tx = "screen" => verdict \in Verdicts

\* The row, the screening and the intent move together.
RowsAgree ==
    /\ row \in {"NONE", "PENDING"} => screening = NoScreening
    /\ row \in Screened => intent.state = "COMPLETED"
    /\ intent.state \in Stored => intent.evidence.verdict \in Verdicts

\* What a request holds when it gets to a label: past the store, it is the
\* evidence of the intent, whoever stored it.
HeldAgrees(w) ==
    /\ pc[w] \in {"request", "verify", "recheck", "store"} => intent.state # "NONE"
    /\ pc[w] \in {"recheck", "store"} => held[w].verdict \in Verdicts
    /\ pc[w] = "recover" => intent.state \in Stored
    /\ pc[w] \in {"revalidate", "commit"} =>
          intent.state \in Stored /\ held[w] = intent.evidence
    /\ pc[w] = "escalate" =>
          screening # NoScreening /\ intent.evidence.verdict = "UNDER_REVIEW"

MirrorInv ==
    /\ TypeOK
    /\ ChainAnswered /\ RowsAgree /\ ScreeningAgrees
    /\ \A w \in Workers : HeldAgrees(w)

(***************************************************************************)
(* The chain.                                                              *)
(***************************************************************************)
LEMMA ProofTyped ==
    ASSUME TypeOK, ChainAnswered, Verifies
    PROVE  Proof \in Evidence /\ Proof.verdict \in Verdicts
<1>1. PICK i \in 1..Len(chain) : chain[i].tx = "screen"
    BY DEF Verifies, Confirmed, At
<1>2. At("screen") # {}
    BY <1>1 DEF At
<1> DEFINE j == CHOOSE k \in At("screen") : TRUE
<1>3. j \in At("screen") /\ At("screen") \subseteq 1..Len(chain)
    BY <1>2 DEF At
<1>4. chain \in Seq(Mined)
    BY DEF TypeOK
<1>5. BlockOf("screen") \in Blocks \cup {0}
    <2>1. BlockOf("screen") = chain[j].block
        BY DEF BlockOf
    <2> HIDE DEF j
    <2>2. j \in 1..Len(chain)
        BY <1>3
    <2>3. chain[j] \in Mined
        BY <1>4, <2>2
    <2> QED BY <2>1, <2>3 DEF Mined
<1>6. verdict \in Verdicts
    BY <1>1 DEF ChainAnswered
<1> QED BY <1>5, <1>6 DEF Proof, Evidence

LEMMA MineKeeps ==
    ASSUME MirrorInv, NEW tx \in Txs, Mine(tx)
    PROVE  chain' \in Seq(Mined) /\ ChainAnswered'
<1>1. PICK b \in Blocks \cup {0}, joined \in BOOLEAN :
          chain' = Append(chain, [tx |-> tx, block |-> b, depth |-> 1, joined |-> joined])
    <2>1. CASE tx = "screen"  BY <2>1 DEF Mine
    <2>2. CASE tx # "screen"  BY <2>2 DEF Mine
    <2> QED BY <2>1, <2>2
<1> DEFINE e == [tx |-> tx, block |-> b, depth |-> 1, joined |-> joined]
<1>2. e \in Mined
    BY MirrorAssumption DEF Mined
<1>3. chain \in Seq(Mined)
    BY DEF MirrorInv, TypeOK
<1>4. chain' \in Seq(Mined)
    BY <1>1, <1>2, <1>3, AppendProperties
<1>5. tx = "screen" => verdict \in Verdicts
    BY DEF Mine, Accepted, MirrorInv, TypeOK
<1>6. verdict' = verdict
    BY DEF Mine
<1>7. /\ Len(chain') = Len(chain) + 1
      /\ \A i \in 1..Len(chain) : chain'[i] = chain[i]
      /\ chain'[Len(chain) + 1] = e
    BY <1>1, <1>2, <1>3, AppendProperties
<1>8. Len(chain) \in Nat
    BY <1>3
<1>9. ASSUME NEW i \in 1..Len(chain'), chain'[i].tx = "screen" PROVE verdict \in Verdicts
    <2>1. i \in 1..Len(chain) \/ i = Len(chain) + 1
        BY <1>7, <1>8
    <2>2. CASE i \in 1..Len(chain)
        BY <2>2, <1>7, <1>9 DEF MirrorInv, ChainAnswered
    <2>3. CASE i = Len(chain) + 1
        BY <2>3, <1>5, <1>7, <1>9
    <2> QED BY <2>1, <2>2, <2>3
<1>10. ChainAnswered'
    BY <1>6, <1>9 DEF ChainAnswered
<1> QED BY <1>4, <1>10

LEMMA DeepenKeeps ==
    ASSUME MirrorInv, Deepen
    PROVE  chain' \in Seq(Mined) /\ ChainAnswered'
<1> DEFINE E(i) == [chain[i] EXCEPT !.depth = IF @ < MinConf THEN @ + 1 ELSE @]
<1>1. chain \in Seq(Mined) /\ Len(chain) \in Nat
    BY DEF MirrorInv, TypeOK
<1>2. chain' = [i \in 1..Len(chain) |-> E(i)]
    BY DEF Deepen
<1>3. ASSUME NEW i \in 1..Len(chain) PROVE E(i) \in Mined /\ E(i).tx = chain[i].tx
    <2>1. chain[i] \in Mined
        BY <1>1
    <2> QED BY <2>1, MirrorAssumption DEF Mined
<1>4. chain' \in [1..Len(chain) -> Mined]
    BY <1>2, <1>3
<1>5. chain' \in Seq(Mined) /\ Len(chain') = Len(chain)
    BY <1>1, <1>4, SeqDef, LenProperties
<1>6. ChainAnswered'
    BY <1>2, <1>3, <1>5 DEF ChainAnswered, MirrorInv, Deepen
<1> QED BY <1>5, <1>6

LEMMA ReorgKeeps ==
    ASSUME MirrorInv, Reorg
    PROVE  chain' \in Seq(Mined) /\ ChainAnswered'
<1>1. PICK keep \in 0..(Len(chain) - 1) : chain' = SubSeq(chain, 1, keep)
    BY DEF Reorg
<1>2. chain \in Seq(Mined) /\ Len(chain) \in Nat
    BY DEF MirrorInv, TypeOK
<1>3. /\ chain' \in Seq(Mined) /\ Len(chain') = keep
      /\ \A i \in 1..keep : chain'[i] = chain[i]
    BY <1>1, <1>2
<1>4. \A i \in 1..keep : i \in 1..Len(chain)
    BY <1>2
<1>5. ChainAnswered'
    BY <1>3, <1>4 DEF ChainAnswered, MirrorInv, Reorg
<1> QED BY <1>3, <1>5

(***************************************************************************)
(* The requests.                                                           *)
(***************************************************************************)
LEMMA InitInv == Init => MirrorInv
<1> SUFFICES ASSUME Init PROVE MirrorInv
    OBVIOUS
<1>1. NoEvidence \in Evidence
    BY DEF NoEvidence, Evidence
<1>2. chain \in Seq(Mined) /\ Len(chain) = 0
    BY DEF Init
<1>3. TypeOK
    BY <1>1, <1>2, MirrorAssumption
       DEF TypeOK, Init, NoIntent, NoScreening, PaymentStatus, AuditKinds, Labels, Lifecycle
<1>4. ChainAnswered
    BY <1>2 DEF ChainAnswered
<1>5. RowsAgree /\ ScreeningAgrees
    BY DEF RowsAgree, ScreeningAgrees, Init, NoIntent, NoScreening, Screened, Stored
<1>6. \A w \in Workers : HeldAgrees(w)
    BY DEF HeldAgrees, Init
<1> QED BY <1>3, <1>4, <1>5, <1>6 DEF MirrorInv

\* A step of one request that writes neither the rows nor the chain preserves
\* the invariant when the request itself is left in agreement.
LEMMA LabelKeeps ==
    ASSUME MirrorInv, NEW w \in Workers, NEW label \in Labels, NEW e \in Evidence,
           pc' = [pc EXCEPT ![w] = label], held' = [held EXCEPT ![w] = e],
           exposed' \subseteq Workers,
           UNCHANGED <<chain, row, intent, screening, audit, finality, reorgs>>,
           faults' \in 0..MaxFaults,
           verdict' \in Verdicts \cup {"NONE"}, verdict # "NONE" => verdict' = verdict,
           HeldAgrees(w)'
    PROVE  MirrorInv'
<1>1. TypeOK'
    BY DEF MirrorInv, TypeOK
<1>2. ChainAnswered'
    BY DEF MirrorInv, ChainAnswered, Verdicts
<1>3. RowsAgree' /\ ScreeningAgrees'
    BY DEF MirrorInv, RowsAgree, ScreeningAgrees
<1>4. ASSUME NEW v \in Workers PROVE HeldAgrees(v)'
    <2>1. CASE v = w  BY <2>1
    <2>2. CASE v # w
        BY <2>2 DEF MirrorInv, TypeOK, HeldAgrees
    <2> QED BY <2>1, <2>2
<1> QED BY <1>1, <1>2, <1>3, <1>4 DEF MirrorInv

LEMMA ChainStepKeeps ==
    ASSUME MirrorInv, (\E tx \in Txs : Mine(tx)) \/ Deepen \/ Reorg
    PROVE  MirrorInv'
<1>1. chain' \in Seq(Mined) /\ ChainAnswered'
    BY MineKeeps, DeepenKeeps, ReorgKeeps
<1> DEFINE Rest == /\ UNCHANGED <<verdict, row, intent, screening, audit>>
                   /\ UNCHANGED <<pc, held, finality, faults>>
                   /\ exposed' \subseteq Workers /\ reorgs' \in 0..MaxReorgs
<1>2. Rest
    <2>1. ASSUME NEW tx \in Txs, Mine(tx) PROVE Rest
        BY <2>1 DEF Mine, backend, bounds, MirrorInv, TypeOK
    <2>2. ASSUME Deepen PROVE Rest
        BY <2>2 DEF Deepen, backend, bounds, MirrorInv, TypeOK
    <2>3. ASSUME Reorg PROVE Rest
        BY <2>3, MirrorAssumption DEF Reorg, backend, MirrorInv, TypeOK
    <2> QED BY <2>1, <2>2, <2>3
<1>3. TypeOK'
    BY <1>1, <1>2 DEF MirrorInv, TypeOK
<1>4. RowsAgree' /\ ScreeningAgrees' /\ \A w \in Workers : HeldAgrees(w)'
    BY <1>2 DEF MirrorInv, RowsAgree, ScreeningAgrees, HeldAgrees
<1> QED BY <1>1, <1>3, <1>4 DEF MirrorInv

\* The requests that leave the rows alone.
LEMMA RelabelKeeps ==
    ASSUME MirrorInv, NEW w \in Workers,
           \/ reconcile(w) \/ submitForScreening(w) \/ reviewFlaggedPayment(w)
           \/ \E tx \in Lifecycle : reconcileLifecycle(w, tx)
           \/ requestSubmission(w) \/ verifySubmission(w) \/ recheckEvidence(w)
           \/ recoverVerifiedComplianceEvidence(w) \/ revalidateComplianceEvidence(w)
           \/ Fail(w)
    PROVE  MirrorInv'
<1> USE DEF backend, bounds, World, Goto, Holding, Done
<1>0. /\ held = [held EXCEPT ![w] = held[w]] /\ held[w] \in Evidence
      /\ NoEvidence \in Evidence /\ exposed \ {w} \subseteq Workers
      /\ pc \in [Workers -> Labels] /\ faults \in 0..MaxFaults
      /\ verdict \in Verdicts \cup {"NONE"} /\ intent.evidence \in Evidence
    BY DEF MirrorInv, TypeOK, NoEvidence, Evidence
<1>1. CASE reconcile(w)
    <2>1. HeldAgrees(w)'
        BY <1>0, <1>1 DEF reconcile, HeldAgrees
    <2> QED BY <1>0, <1>1, <2>1, LabelKeeps DEF reconcile, Labels
<1>2. CASE submitForScreening(w)
    <2>1. HeldAgrees(w)'
        BY <1>0, <1>2 DEF submitForScreening, HeldAgrees
    <2> QED BY <1>0, <1>2, <2>1, LabelKeeps DEF submitForScreening, Labels
<1>3. CASE reviewFlaggedPayment(w)
    <2>1. intent.evidence.verdict = "UNDER_REVIEW"
        BY <1>3 DEF reviewFlaggedPayment, MirrorInv, ScreeningAgrees, RowsAgree, Screened,
                    NewStatus, Stored, Verdicts
    <2>2. HeldAgrees(w)'
        BY <1>0, <1>3, <2>1 DEF reviewFlaggedPayment, HeldAgrees
    <2> QED BY <1>0, <1>3, <2>2, LabelKeeps DEF reviewFlaggedPayment, Labels
<1>4. ASSUME NEW tx \in Lifecycle, reconcileLifecycle(w, tx) PROVE MirrorInv'
    <2>1. HeldAgrees(w)'
        BY <1>0, <1>4 DEF reconcileLifecycle, HeldAgrees, Lifecycle
    <2> QED BY <1>0, <1>4, <2>1, LabelKeeps DEF reconcileLifecycle, Labels
<1>5. CASE requestSubmission(w)
    <2>1. HeldAgrees(w)'
        BY <1>0, <1>5 DEF requestSubmission, HeldAgrees, MirrorInv
    <2>2. verdict' \in Verdicts \cup {"NONE"} /\ (verdict # "NONE" => verdict' = verdict)
        BY <1>0, <1>5 DEF requestSubmission
    <2> QED BY <1>0, <1>5, <2>1, <2>2, LabelKeeps DEF requestSubmission, Labels
<1>6. CASE verifySubmission(w)
    <2>1. CASE Verifies
        <3>1. Proof \in Evidence /\ Proof.verdict \in Verdicts
            BY <2>1, ProofTyped DEF MirrorInv
        <3>2. HeldAgrees(w)'
            BY <1>0, <1>6, <2>1, <3>1 DEF verifySubmission, HeldAgrees, MirrorInv, TypeOK
        <3> QED BY <1>0, <1>6, <2>1, <3>1, <3>2, LabelKeeps DEF verifySubmission, Labels
    <2>2. CASE ~Verifies
        <3>1. HeldAgrees(w)'
            BY <1>0, <1>6, <2>2 DEF verifySubmission, HeldAgrees
        <3> QED BY <1>0, <1>6, <2>2, <3>1, LabelKeeps DEF verifySubmission, Labels
    <2> QED BY <2>1, <2>2
<1>7. CASE recheckEvidence(w)
    <2>1. CASE Verifies /\ Proof = held[w]
        <3>1. HeldAgrees(w)'
            BY <1>0, <1>7, <2>1 DEF recheckEvidence, Revalidated, HeldAgrees, MirrorInv
        <3> QED BY <1>0, <1>7, <2>1, <3>1, LabelKeeps DEF recheckEvidence, Revalidated, Labels
    <2>2. CASE ~(Verifies /\ Proof = held[w])
        <3>1. HeldAgrees(w)'
            BY <1>0, <1>7, <2>2 DEF recheckEvidence, Revalidated, HeldAgrees
        <3> QED BY <1>0, <1>7, <2>2, <3>1, LabelKeeps DEF recheckEvidence, Revalidated, Labels
    <2> QED BY <2>1, <2>2
<1>8. CASE recoverVerifiedComplianceEvidence(w)
    <2> DEFINE ok == intent.state # "PENDING" /\ Verifies /\ Proof = intent.evidence
    <2>1. CASE ok
        <3>1. HeldAgrees(w)'
            BY <1>0, <1>8, <2>1
               DEF recoverVerifiedComplianceEvidence, HeldAgrees, MirrorInv, TypeOK
        <3> QED BY <1>0, <1>8, <2>1, <3>1, LabelKeeps
                DEF recoverVerifiedComplianceEvidence, Labels
    <2>2. CASE ~ok
        <3>1. HeldAgrees(w)'
            BY <1>0, <1>8, <2>2 DEF recoverVerifiedComplianceEvidence, HeldAgrees
        <3> QED BY <1>0, <1>8, <2>2, <3>1, LabelKeeps
                DEF recoverVerifiedComplianceEvidence, Labels
    <2> QED BY <2>1, <2>2
<1>9. CASE revalidateComplianceEvidence(w)
    <2>1. CASE Verifies /\ Proof = held[w]
        <3>1. HeldAgrees(w)'
            BY <1>0, <1>9, <2>1
               DEF revalidateComplianceEvidence, Revalidated, HeldAgrees, MirrorInv
        <3> QED BY <1>0, <1>9, <2>1, <3>1, LabelKeeps
                DEF revalidateComplianceEvidence, Revalidated, Labels
    <2>2. CASE ~(Verifies /\ Proof = held[w])
        <3>1. HeldAgrees(w)'
            BY <1>0, <1>9, <2>2 DEF revalidateComplianceEvidence, Revalidated, HeldAgrees
        <3> QED BY <1>0, <1>9, <2>2, <3>1, LabelKeeps
                DEF revalidateComplianceEvidence, Revalidated, Labels
    <2> QED BY <2>1, <2>2
<1>10. CASE Fail(w)
    <2>1. HeldAgrees(w)'
        BY <1>0, <1>10 DEF Fail, HeldAgrees
    <2>2. faults' \in 0..MaxFaults
        BY <1>0, <1>10, MirrorAssumption DEF Fail
    <2> QED BY <1>0, <1>10, <2>1, <2>2, LabelKeeps DEF Fail, Labels
<1> QED BY <1>1, <1>2, <1>3, <1>4, <1>5, <1>6, <1>7, <1>8, <1>9, <1>10

(***************************************************************************)
(* The transactions.                                                       *)
(***************************************************************************)
LEMMA LoggedTyped ==
    ASSUME TypeOK, NEW kind \in AuditKinds, Logged(kind)
    PROVE  audit' \in [AuditKinds -> 0..MaxLogged]
    BY MirrorAssumption DEF TypeOK, Logged

LEMMA commitCreateKeeps ==
    ASSUME MirrorInv, NEW w \in Workers, commitCreate(w)
    PROVE  MirrorInv'
<1>1. /\ pc' = [pc EXCEPT ![w] = "idle"] /\ held' = [held EXCEPT ![w] = NoEvidence]
      /\ exposed' = exposed \ {w}
      /\ UNCHANGED <<chain, verdict, finality, faults, reorgs, intent, screening>>
      /\ row' = row \/ (row = "NONE" /\ row' = "PENDING")
    BY DEF commitCreate, Done, Goto, Holding, World, bounds
<1>2. audit' \in [AuditKinds -> 0..MaxLogged]
    BY LoggedTyped DEF commitCreate, AuditKinds, MirrorInv, TypeOK
<1>3. TypeOK'
    BY <1>1, <1>2 DEF MirrorInv, TypeOK, NoEvidence, Evidence, Labels, PaymentStatus
<1>4. ChainAnswered' /\ RowsAgree' /\ ScreeningAgrees'
    BY <1>1 DEF MirrorInv, ChainAnswered, RowsAgree, ScreeningAgrees, Screened
<1>5. ASSUME NEW v \in Workers PROVE HeldAgrees(v)'
    BY <1>1 DEF MirrorInv, TypeOK, HeldAgrees
<1> QED BY <1>3, <1>4, <1>5 DEF MirrorInv

LEMMA commitLifecycleKeeps ==
    ASSUME MirrorInv, NEW w \in Workers, NEW tx \in Lifecycle, commitLifecycle(w, tx)
    PROVE  MirrorInv'
<1>1. /\ pc' = [pc EXCEPT ![w] = "idle"] /\ held' = [held EXCEPT ![w] = NoEvidence]
      /\ exposed' = exposed \ {w}
      /\ UNCHANGED <<chain, verdict, finality, faults, reorgs, intent, screening>>
    BY DEF commitLifecycle, Done, Goto, Holding, World, bounds
<1>2. row' = row \/ row' \in Final
    BY DEF commitLifecycle, FinalStatus, Lifecycle, Final
<1>3. audit' \in [AuditKinds -> 0..MaxLogged]
    BY LoggedTyped DEF commitLifecycle, AuditKinds, MirrorInv, TypeOK
<1>4. TypeOK'
    BY <1>1, <1>2, <1>3 DEF MirrorInv, TypeOK, NoEvidence, Evidence, Labels, PaymentStatus
<1>5. ChainAnswered' /\ RowsAgree' /\ ScreeningAgrees'
    BY <1>1, <1>2 DEF MirrorInv, ChainAnswered, RowsAgree, ScreeningAgrees, Screened, Final
<1>6. ASSUME NEW v \in Workers PROVE HeldAgrees(v)'
    BY <1>1 DEF MirrorInv, TypeOK, HeldAgrees
<1> QED BY <1>4, <1>5, <1>6 DEF MirrorInv

LEMMA upsertIntentKeeps ==
    ASSUME MirrorInv, NEW w \in Workers, upsertIntent(w)
    PROVE  MirrorInv'
<1> DEFINE label == IF intent'.state = "PENDING" THEN "request" ELSE "recover"
<1>1. /\ pc' = [pc EXCEPT ![w] = label]
      /\ exposed' = exposed \ {w}
      /\ UNCHANGED <<chain, verdict, finality, faults, reorgs, held, row, screening, audit>>
    BY DEF upsertIntent, Goto, World, bounds
<1>2. \/ intent' = intent /\ intent.state # "NONE"
      \/ intent.state = "NONE" /\ intent' = [intent EXCEPT !.state = "PENDING"]
    BY DEF upsertIntent
<1>3. /\ intent'.evidence = intent.evidence /\ intent'.state # "NONE"
      /\ intent'.state \in Stored <=> intent.state \in Stored
      /\ intent'.state = "COMPLETED" <=> intent.state = "COMPLETED"
      /\ intent' \in [state : {"NONE", "PENDING", "VERIFIED", "COMPLETED"}, evidence : Evidence]
    BY <1>2 DEF MirrorInv, TypeOK, Stored
<1>4. label = "request" \/ (label = "recover" /\ intent'.state \in Stored)
    BY <1>3 DEF Stored
<1> HIDE DEF label
<1>5. TypeOK'
    BY <1>1, <1>3, <1>4 DEF MirrorInv, TypeOK, Labels
<1>6. ChainAnswered' /\ RowsAgree' /\ ScreeningAgrees'
    BY <1>1, <1>3 DEF MirrorInv, ChainAnswered, RowsAgree, ScreeningAgrees
<1>7. ASSUME NEW v \in Workers PROVE HeldAgrees(v)'
    BY <1>1, <1>3, <1>4 DEF MirrorInv, TypeOK, HeldAgrees
<1> QED BY <1>5, <1>6, <1>7 DEF MirrorInv

LEMMA persistKeeps ==
    ASSUME MirrorInv, NEW w \in Workers, persistVerifiedComplianceEvidence(w)
    PROVE  MirrorInv'
<1> USE DEF persistVerifiedComplianceEvidence, Goto, World, bounds
<1>1. /\ exposed' = exposed \ {w} /\ pc[w] = "store"
      /\ UNCHANGED <<chain, verdict, finality, faults, reorgs, held, row, screening, audit>>
    OBVIOUS
<1>2. /\ intent.state # "NONE" /\ held[w] \in Evidence /\ held[w].verdict \in Verdicts
    BY <1>1 DEF MirrorInv, TypeOK, HeldAgrees
<1>3. CASE intent.state = "PENDING"
    <2>1. /\ intent' = [state |-> "VERIFIED", evidence |-> held[w]]
          /\ pc' = [pc EXCEPT ![w] = "revalidate"]
        BY <1>3
    <2>2. TypeOK'
        BY <1>1, <1>2, <2>1 DEF MirrorInv, TypeOK, Labels
    <2>3. ChainAnswered' /\ RowsAgree' /\ ScreeningAgrees'
        BY <1>1, <1>2, <1>3, <2>1
           DEF MirrorInv, ChainAnswered, RowsAgree, ScreeningAgrees, Stored
    <2>4. ASSUME NEW v \in Workers PROVE HeldAgrees(v)'
        <3>1. CASE v = w
            BY <1>1, <2>1, <3>1 DEF MirrorInv, TypeOK, HeldAgrees, Stored
        <3>2. CASE v # w
            <4>1. pc'[v] = pc[v] /\ held'[v] = held[v] /\ screening' = screening
                BY <1>1, <2>1, <3>2 DEF MirrorInv, TypeOK
            <4>2. screening = NoScreening
                BY <1>3 DEF MirrorInv, ScreeningAgrees
            <4>3. HeldAgrees(v)
                BY DEF MirrorInv
            <4> QED BY <1>3, <2>1, <4>1, <4>2, <4>3 DEF HeldAgrees, Stored
        <3> QED BY <3>1, <3>2
    <2> QED BY <2>2, <2>3, <2>4 DEF MirrorInv
<1>4. CASE intent.state # "PENDING"
    <2>1. intent' = intent /\ pc' = [pc EXCEPT ![w] = "recover"] /\ intent.state \in Stored
        BY <1>2, <1>4 DEF MirrorInv, TypeOK, Stored
    <2>2. TypeOK'
        BY <1>1, <2>1 DEF MirrorInv, TypeOK, Labels
    <2>3. ChainAnswered' /\ RowsAgree' /\ ScreeningAgrees'
        BY <1>1, <2>1 DEF MirrorInv, ChainAnswered, RowsAgree, ScreeningAgrees
    <2>4. ASSUME NEW v \in Workers PROVE HeldAgrees(v)'
        BY <1>1, <2>1 DEF MirrorInv, TypeOK, HeldAgrees
    <2> QED BY <2>2, <2>3, <2>4 DEF MirrorInv
<1> QED BY <1>3, <1>4

\* The commit of a screening, in the two cases of the payment it reads.
LEMMA commitScreeningKeeps ==
    ASSUME MirrorInv, NEW w \in Workers, commitScreening(w)
    PROVE  MirrorInv'
<1>1. /\ pc' = [pc EXCEPT ![w] = "idle"] /\ held' = [held EXCEPT ![w] = NoEvidence]
      /\ exposed' = exposed \ {w} /\ pc[w] = "commit"
      /\ UNCHANGED <<chain, verdict, finality, faults, reorgs>>
    BY DEF commitScreening, Done, Goto, Holding, World, bounds
<1>2. /\ intent.state \in Stored /\ held[w] = intent.evidence
      /\ intent.evidence.verdict \in Verdicts
      /\ intent.evidence \in Evidence
    BY <1>1 DEF MirrorInv, TypeOK, HeldAgrees, RowsAgree
<1>3. CASE row = "PENDING"
    <2>1. /\ screening' = [status |-> intent.evidence.verdict, block |-> intent.evidence.block]
          /\ row' = NewStatus(intent.evidence.verdict)
          /\ intent' = [intent EXCEPT !.state = "COMPLETED"]
          /\ Logged("COMPLIANCE")
        BY <1>2, <1>3 DEF commitScreening
    <2>2. audit' \in [AuditKinds -> 0..MaxLogged]
        BY <2>1, LoggedTyped DEF AuditKinds, MirrorInv
    <2>3. row' \in Screened
        BY <1>2, <2>1 DEF NewStatus, Verdicts, Screened
    <2>4. intent'.state = "COMPLETED" /\ intent'.evidence = intent.evidence
        BY <2>1 DEF MirrorInv, TypeOK
    <2>5. screening' # NoScreening
        BY <1>2, <2>1 DEF NoScreening, Verdicts
    <2>6. TypeOK'
        BY <1>1, <1>2, <2>1, <2>2, <2>3
           DEF MirrorInv, TypeOK, NoEvidence, Evidence, Labels, PaymentStatus
    <2>7. ChainAnswered' /\ RowsAgree'
        BY <1>1, <1>2, <2>3, <2>4 DEF MirrorInv, ChainAnswered, RowsAgree, Screened
    <2>8. ScreeningAgrees'
        BY <1>2, <2>1, <2>4, <2>5 DEF ScreeningAgrees, NewStatus
    <2>9. ASSUME NEW v \in Workers PROVE HeldAgrees(v)'
        <3>1. CASE v = w
            BY <1>1, <3>1 DEF MirrorInv, TypeOK, HeldAgrees
        <3>2. CASE v # w
            <4>1. pc'[v] = pc[v] /\ held'[v] = held[v] /\ HeldAgrees(v)
                BY <1>1, <3>2 DEF MirrorInv, TypeOK
            <4> QED BY <2>4, <2>5, <4>1 DEF HeldAgrees, Stored
        <3> QED BY <3>1, <3>2
    <2> QED BY <2>6, <2>7, <2>8, <2>9 DEF MirrorInv
<1>4. CASE row # "PENDING"
    <2>1. UNCHANGED <<row, screening, audit>>
        BY <1>4 DEF commitScreening
    <2>2. intent' = intent
        <3>1. CASE screening = NoScreening
            BY <1>4, <3>1 DEF commitScreening
        <3>2. CASE screening # NoScreening
            <4>1. intent.state = "COMPLETED"
                BY <3>2 DEF MirrorInv, ScreeningAgrees
            <4>2. intent' = [intent EXCEPT !.state = "COMPLETED"]
                BY <1>4, <3>2 DEF commitScreening
            <4> QED BY <4>1, <4>2 DEF MirrorInv, TypeOK
        <3> QED BY <3>1, <3>2
    <2>3. TypeOK'
        BY <1>1, <2>1, <2>2 DEF MirrorInv, TypeOK, NoEvidence, Evidence, Labels
    <2>4. ChainAnswered' /\ RowsAgree' /\ ScreeningAgrees'
        BY <1>1, <2>1, <2>2 DEF MirrorInv, ChainAnswered, RowsAgree, ScreeningAgrees
    <2>5. ASSUME NEW v \in Workers PROVE HeldAgrees(v)'
        BY <1>1, <2>1, <2>2 DEF MirrorInv, TypeOK, HeldAgrees
    <2> QED BY <2>3, <2>4, <2>5 DEF MirrorInv
<1> QED BY <1>3, <1>4

LEMMA commitEscalationKeeps ==
    ASSUME MirrorInv, NEW w \in Workers, commitEscalation(w)
    PROVE  MirrorInv'
<1>1. /\ pc' = [pc EXCEPT ![w] = "idle"] /\ held' = [held EXCEPT ![w] = NoEvidence]
      /\ exposed' = exposed \ {w} /\ pc[w] = "escalate"
      /\ screening' = [screening EXCEPT !.status = "ESCALATED"]
      /\ UNCHANGED <<chain, verdict, finality, faults, reorgs, row, intent, audit>>
    BY DEF commitEscalation, Done, Goto, Holding, World, bounds
<1>2. screening # NoScreening /\ intent.evidence.verdict = "UNDER_REVIEW"
    BY <1>1 DEF MirrorInv, HeldAgrees
<1>3. /\ screening' # NoScreening /\ screening'.block = screening.block
      /\ screening'.status = "ESCALATED"
    BY <1>1 DEF MirrorInv, TypeOK, NoScreening
<1>4. TypeOK'
    BY <1>1 DEF MirrorInv, TypeOK, NoEvidence, Evidence, Labels
<1>5. ChainAnswered' /\ RowsAgree'
    BY <1>1, <1>2 DEF MirrorInv, ChainAnswered, RowsAgree
<1>6. ScreeningAgrees'
    BY <1>1, <1>2, <1>3 DEF MirrorInv, ScreeningAgrees
<1>7. ASSUME NEW v \in Workers PROVE HeldAgrees(v)'
    BY <1>1, <1>2, <1>3 DEF MirrorInv, TypeOK, HeldAgrees
<1> QED BY <1>4, <1>5, <1>6, <1>7 DEF MirrorInv

LEMMA StepKeeps == MirrorInv /\ [Next]_vars => MirrorInv'
<1> SUFFICES ASSUME MirrorInv, [Next]_vars PROVE MirrorInv'
    OBVIOUS
<1>1. CASE (\E tx \in Txs : Mine(tx)) \/ Deepen \/ Reorg
    BY <1>1, ChainStepKeeps
<1>2. ASSUME NEW w \in Workers,
             \/ reconcile(w) \/ submitForScreening(w) \/ reviewFlaggedPayment(w)
             \/ \E tx \in Lifecycle : reconcileLifecycle(w, tx)
             \/ requestSubmission(w) \/ verifySubmission(w) \/ recheckEvidence(w)
             \/ recoverVerifiedComplianceEvidence(w) \/ revalidateComplianceEvidence(w)
             \/ Fail(w)
      PROVE  MirrorInv'
    BY <1>2, RelabelKeeps
<1>3. ASSUME NEW w \in Workers,
             \/ commitCreate(w) \/ \E tx \in Lifecycle : commitLifecycle(w, tx)
             \/ upsertIntent(w) \/ persistVerifiedComplianceEvidence(w)
             \/ commitScreening(w) \/ commitEscalation(w)
      PROVE  MirrorInv'
    BY <1>3, commitCreateKeeps, commitLifecycleKeeps, upsertIntentKeeps, persistKeeps,
       commitScreeningKeeps, commitEscalationKeeps
<1>4. CASE UNCHANGED vars
    <2>1. TypeOK'
        BY <1>4 DEF vars, backend, bounds, MirrorInv, TypeOK
    <2>2. ChainAnswered' /\ RowsAgree' /\ ScreeningAgrees' /\ \A w \in Workers : HeldAgrees(w)'
        BY <1>4 DEF vars, backend, bounds, MirrorInv, ChainAnswered, RowsAgree,
                    ScreeningAgrees, HeldAgrees
    <2> QED BY <2>1, <2>2 DEF MirrorInv
<1> QED BY <1>1, <1>2, <1>3, <1>4 DEF Next, Step

(***************************************************************************)
(* Theorems.                                                               *)
(***************************************************************************)
LEMMA Inductive == Spec => []MirrorInv
    BY InitInv, StepKeeps, PTL DEF Spec

\* Type correctness of the backend's record (the rows and the requests that
\* compliance.ts and payment-reconciliation.ts write) for any constants.
THEOREM MirrorTypes == Spec => []TypeOK
<1>1. MirrorInv => TypeOK
    BY DEF MirrorInv
<1> QED BY <1>1, Inductive, PTL

\* The screening, the intent and the row agree however many requests race,
\* fail and repeat and however deep the chain reorganises: what a request
\* commits in submitForScreening is the evidence the intent holds.
THEOREM ScreeningsAgree == Spec => []ScreeningAgrees
<1>1. MirrorInv => ScreeningAgrees
    BY DEF MirrorInv
<1> QED BY <1>1, Inductive, PTL

\* A mirrored end (reconcileLifecycle) is never overwritten by a screening that
\* was verified meanwhile.
THEOREM EndsStay == Spec => FinalStays
<1>1. ASSUME MirrorInv, [Next]_vars, row \in Final PROVE row' \in Final
    <2>1. CASE \E tx \in Txs : Mine(tx)
        BY <1>1, <2>1 DEF Mine, backend
    <2>2. CASE Deepen \/ Reorg
        BY <1>1, <2>2 DEF Deepen, Reorg, backend
    <2>3. ASSUME NEW w \in Workers, NEW tx \in Lifecycle, commitLifecycle(w, tx)
          PROVE  row' \in Final
        BY <1>1, <2>3 DEF commitLifecycle, FinalStatus, Lifecycle, Final
    <2>4. ASSUME NEW w \in Workers, commitCreate(w) \/ commitScreening(w) PROVE row' \in Final
        BY <1>1, <2>4 DEF commitCreate, commitScreening, Final
    <2>5. ASSUME NEW w \in Workers,
                 \/ reconcile(w) \/ submitForScreening(w) \/ reviewFlaggedPayment(w)
                 \/ \E tx \in Lifecycle : reconcileLifecycle(w, tx)
                 \/ upsertIntent(w) \/ requestSubmission(w) \/ verifySubmission(w)
                 \/ recheckEvidence(w) \/ persistVerifiedComplianceEvidence(w)
                 \/ recoverVerifiedComplianceEvidence(w) \/ revalidateComplianceEvidence(w)
                 \/ commitEscalation(w) \/ Fail(w)
          PROVE  row' = row
        BY <2>5 DEF reconcile, submitForScreening, reviewFlaggedPayment, reconcileLifecycle,
                    upsertIntent, requestSubmission, verifySubmission, recheckEvidence,
                    Revalidated, persistVerifiedComplianceEvidence,
                    recoverVerifiedComplianceEvidence, revalidateComplianceEvidence,
                    commitEscalation, Fail, backend
    <2>6. CASE UNCHANGED vars
        BY <1>1, <2>6 DEF vars, backend
    <2> QED BY <1>1, <2>1, <2>2, <2>3, <2>4, <2>5, <2>6 DEF Next, Step
<1>2. MirrorInv /\ [Next]_vars => [(row \in Final) => (row' \in Final)]_vars
    BY <1>1
<1> QED BY <1>2, Inductive, PTL DEF Spec, FinalStays

\* Evidence is written once: the intent never goes back, and neither its
\* evidence nor the block of a screening ever changes.
THEOREM EvidenceStays == Spec => EvidenceDurable
<1> DEFINE Durable ==
        /\ intent.state \in {"VERIFIED", "COMPLETED"} =>
              /\ intent'.evidence = intent.evidence
              /\ intent'.state \in {intent.state, "COMPLETED"}
        /\ screening # NoScreening => screening'.block = screening.block
<1>1. ASSUME MirrorInv, [Next]_vars PROVE Durable
    <2>1. CASE \E tx \in Txs : Mine(tx)
        BY <2>1 DEF Mine, backend
    <2>2. CASE Deepen \/ Reorg
        BY <2>2 DEF Deepen, Reorg, backend
    <2>3. ASSUME NEW w \in Workers,
                 \/ reconcile(w) \/ submitForScreening(w) \/ reviewFlaggedPayment(w)
                 \/ \E tx \in Lifecycle : reconcileLifecycle(w, tx)
                 \/ \E tx \in Lifecycle : commitLifecycle(w, tx)
                 \/ commitCreate(w) \/ requestSubmission(w) \/ verifySubmission(w)
                 \/ recheckEvidence(w) \/ recoverVerifiedComplianceEvidence(w)
                 \/ revalidateComplianceEvidence(w) \/ Fail(w)
          PROVE  intent' = intent /\ screening' = screening
        BY <2>3 DEF reconcile, submitForScreening, reviewFlaggedPayment, reconcileLifecycle,
                    commitLifecycle, commitCreate, requestSubmission, verifySubmission,
                    recheckEvidence, Revalidated, recoverVerifiedComplianceEvidence,
                    revalidateComplianceEvidence, Fail, backend
    <2>4. ASSUME NEW w \in Workers, upsertIntent(w) PROVE Durable
        BY <2>4 DEF upsertIntent
    <2>5. ASSUME NEW w \in Workers, persistVerifiedComplianceEvidence(w) PROVE Durable
        BY <2>5 DEF persistVerifiedComplianceEvidence
    <2>6. ASSUME NEW w \in Workers, commitScreening(w) PROVE Durable
        <3>1. intent' = intent \/ intent' = [intent EXCEPT !.state = "COMPLETED"]
            BY <2>6 DEF commitScreening
        <3>2. row = "PENDING" \/ screening' = screening
            BY <2>6 DEF commitScreening
        <3> QED BY <1>1, <3>1, <3>2 DEF MirrorInv, TypeOK, RowsAgree
    <2>7. ASSUME NEW w \in Workers, commitEscalation(w) PROVE Durable
        BY <1>1, <2>7 DEF commitEscalation, MirrorInv, TypeOK
    <2>8. CASE UNCHANGED vars
        BY <2>8 DEF vars, backend
    <2> QED BY <1>1, <2>1, <2>2, <2>3, <2>4, <2>5, <2>6, <2>7, <2>8 DEF Next, Step
<1>2. MirrorInv /\ [Next]_vars => [Durable]_vars
    BY <1>1
<1> QED BY <1>2, Inductive, PTL DEF Spec, EvidenceDurable

(***************************************************************************)
(* The record follows the chain.                                           *)
(*                                                                         *)
(* What the rows say was confirmed when it was written, and with finality  *)
(* what is confirmed stays; what a request checked and has not committed   *)
(* yet stays until a reorganisation comes, which exposes the request.      *)
(***************************************************************************)

\* The creation first, the screening next, an end last.
ChainShape ==
    \A i \in 1..Len(chain) :
        /\ chain[i].tx = "create" <=> i = 1
        /\ chain[i].tx = "screen" => i = 2
        /\ chain[i].tx \in Lifecycle => i = Len(chain)

\* What a request has checked and not committed is on the chain.
Grounded(w) ==
    /\ finality \/ w \notin exposed =>
          /\ pc[w] = "create" => Confirmed("create")
          /\ \A tx \in Lifecycle : pc[w] = tx => Confirmed(tx)
          /\ pc[w] = "commit" => Verifies /\ held[w] = Proof
    /\ finality /\ pc[w] \in {"recheck", "store"} => Verifies /\ held[w] = Proof

\* What is recorded is on the chain, where nothing confirmed is ever replaced.
Recorded ==
    finality =>
        /\ row # "NONE" => Confirmed("create")
        /\ intent.state \in Stored => Verifies /\ intent.evidence = Proof
        /\ \A tx \in Lifecycle : audit[tx] # 0 => Confirmed(tx)

AuditTells ==
    /\ \A k \in AuditKinds : audit[k] <= 1
    /\ row # "NONE" <=> audit["PAYMENT_CREATED"] = 1
    /\ screening # NoScreening <=> audit["COMPLIANCE"] = 1
    /\ \A tx \in Lifecycle : row = FinalStatus(tx) => audit[tx] = 1
    /\ \A w \in Workers : pc[w] \in Lifecycle => row # "NONE"

FollowInv ==
    /\ MirrorInv
    /\ ChainShape /\ Recorded /\ AuditTells
    /\ \A w \in Workers : Grounded(w)

\* The confirmed transactions are still there after a step.
Survives ==
    \A i \in 1..Len(chain) :
        chain[i].depth >= MinConf =>
            /\ i \in 1..Len(chain')
            /\ chain'[i].tx = chain[i].tx /\ chain'[i].block = chain[i].block
            /\ chain'[i].depth >= MinConf

LEMMA AcceptedNext ==
    ASSUME MirrorInv, ChainShape, NEW tx \in Txs, Accepted(tx)
    PROVE  /\ tx = "create" <=> Len(chain) = 0
           /\ tx = "screen" => Len(chain) = 1
           /\ \A i \in 1..Len(chain) : chain[i].tx \notin Lifecycle
<1>1. chain \in Seq(Mined) /\ Len(chain) \in Nat /\ (chain = <<>> <=> Len(chain) = 0)
    BY EmptySeq DEF MirrorInv, TypeOK
<1>2. verdict \in Verdicts \cup {"NONE"}
    BY DEF MirrorInv, TypeOK
<1>3. CASE tx = "create"
    BY <1>1, <1>3 DEF Accepted
<1>4. CASE tx # "create"
    <2>1. ContractStatus \in Verdicts \cup {"PENDING"}
        BY <1>4 DEF Accepted, Txs, Lifecycle, Verdicts
    <2>2. chain # <<>>
        BY <2>1 DEF ContractStatus, Verdicts
    <2> DEFINE last == chain[Len(chain)]
    <2>3. Len(chain) \in 1..Len(chain)
        BY <1>1, <2>2
    <2>4. last.tx \notin Lifecycle
        BY <2>1, <2>2 DEF ContractStatus, Lifecycle, Verdicts
    <2>5. \A i \in 1..Len(chain) : chain[i].tx \notin Lifecycle
        BY <2>4 DEF ChainShape
    <2>6. ASSUME tx = "screen" PROVE Len(chain) = 1
        <3>1. ContractStatus = "PENDING"
            BY <2>6 DEF Accepted
        <3>2. last.tx = "create"
            BY <1>2, <2>2, <3>1 DEF ContractStatus, Verdicts
        <3> QED BY <2>3, <3>2 DEF ChainShape
    <2> QED BY <1>1, <1>4, <2>2, <2>5, <2>6
<1> QED BY <1>3, <1>4

LEMMA MineExtends ==
    ASSUME MirrorInv, ChainShape, NEW tx \in Txs, Mine(tx)
    PROVE  ChainShape' /\ Survives
<1>1. PICK b \in Blocks \cup {0}, joined \in BOOLEAN :
          chain' = Append(chain, [tx |-> tx, block |-> b, depth |-> 1, joined |-> joined])
    <2>1. CASE tx = "screen"  BY <2>1 DEF Mine
    <2>2. CASE tx # "screen"  BY <2>2 DEF Mine
    <2> QED BY <2>1, <2>2
<1> DEFINE e == [tx |-> tx, block |-> b, depth |-> 1, joined |-> joined]
<1>2. e \in Mined /\ e.tx = tx
    BY MirrorAssumption DEF Mined
<1>3. chain \in Seq(Mined) /\ Len(chain) \in Nat
    BY DEF MirrorInv, TypeOK
<1>4. /\ Len(chain') = Len(chain) + 1
      /\ \A i \in 1..Len(chain) : chain'[i] = chain[i]
      /\ chain'[Len(chain) + 1] = e
    BY <1>1, <1>2, <1>3, AppendProperties
<1>5. /\ tx = "create" <=> Len(chain) = 0
      /\ tx = "screen" => Len(chain) = 1
      /\ \A i \in 1..Len(chain) : chain[i].tx \notin Lifecycle
    BY AcceptedNext DEF Mine
<1> HIDE DEF e
<1>6. ASSUME NEW i \in 1..Len(chain')
      PROVE  /\ chain'[i].tx = "create" <=> i = 1
             /\ chain'[i].tx = "screen" => i = 2
             /\ chain'[i].tx \in Lifecycle => i = Len(chain')
    <2>1. i \in 1..Len(chain) \/ i = Len(chain) + 1
        BY <1>3, <1>4
    <2>2. CASE i \in 1..Len(chain)
        BY <1>4, <1>5, <2>2 DEF ChainShape
    <2>3. CASE i = Len(chain) + 1
        BY <1>2, <1>3, <1>4, <1>5, <2>3
    <2> QED BY <2>1, <2>2, <2>3
<1>7. ChainShape'
    BY <1>6 DEF ChainShape
<1>8. Survives
    BY <1>3, <1>4 DEF Survives
<1> QED BY <1>7, <1>8

LEMMA DeepenExtends ==
    ASSUME MirrorInv, ChainShape, Deepen
    PROVE  ChainShape' /\ Survives
<1> DEFINE E(i) == [chain[i] EXCEPT !.depth = IF @ < MinConf THEN @ + 1 ELSE @]
<1>1. chain \in Seq(Mined) /\ Len(chain) \in Nat
    BY DEF MirrorInv, TypeOK
<1>2. chain' = [i \in 1..Len(chain) |-> E(i)]
    BY DEF Deepen
<1>3. ASSUME NEW i \in 1..Len(chain)
      PROVE  /\ E(i) \in Mined /\ E(i).tx = chain[i].tx /\ E(i).block = chain[i].block
             /\ chain[i].depth >= MinConf => E(i).depth >= MinConf
    <2>1. chain[i] \in Mined
        BY <1>1
    <2> QED BY <2>1, MirrorAssumption DEF Mined
<1>4. chain' \in [1..Len(chain) -> Mined]
    BY <1>2, <1>3
<1>5. Len(chain') = Len(chain)
    BY <1>1, <1>4, SeqDef, LenProperties
<1>6. \A i \in 1..Len(chain) : chain'[i] = E(i)
    BY <1>2
<1> HIDE DEF E
<1>7. ChainShape'
    BY <1>3, <1>5, <1>6 DEF ChainShape
<1>8. Survives
    BY <1>3, <1>5, <1>6 DEF Survives
<1> QED BY <1>7, <1>8

LEMMA ReorgSpares ==
    ASSUME MirrorInv, ChainShape, Reorg
    PROVE  ChainShape' /\ (finality => Survives)
<1>1. PICK keep \in 0..(Len(chain) - 1) :
          /\ finality => \A i \in (keep + 1)..Len(chain) : chain[i].depth < MinConf
          /\ chain' = SubSeq(chain, 1, keep)
    BY DEF Reorg
<1>2. chain \in Seq(Mined) /\ Len(chain) \in Nat
    BY DEF MirrorInv, TypeOK
<1>3. /\ Len(chain') = keep
      /\ \A i \in 1..keep : chain'[i] = chain[i]
    BY <1>1, <1>2
<1>4. \A i \in 1..keep : i \in 1..Len(chain) /\ i # Len(chain)
    BY <1>2
<1>5. ChainShape'
    BY <1>3, <1>4 DEF ChainShape
<1>6. ASSUME finality PROVE Survives
    <2>1. ASSUME NEW i \in 1..Len(chain), chain[i].depth >= MinConf PROVE i \in 1..keep
        <3>1. chain[i] \in Mined
            BY <1>2
        <3>2. i \notin (keep + 1)..Len(chain)
            BY <1>1, <1>6, <2>1, <3>1, MirrorAssumption DEF Mined
        <3> QED BY <1>2, <3>2
    <2> QED BY <1>3, <2>1 DEF Survives
<1> QED BY <1>5, <1>6

\* A transaction that survives is confirmed where it was, and the operator's
\* proof is the same one.
LEMMA ConfirmedStays ==
    ASSUME MirrorInv, ChainShape, ChainShape', Survives,
           verdict # "NONE" => verdict' = verdict
    PROVE  /\ \A tx \in Txs : Confirmed(tx) => Confirmed(tx)'
           /\ Verifies => Verifies' /\ Proof' = Proof
<1>1. ASSUME NEW tx \in Txs, Confirmed(tx) PROVE Confirmed(tx)'
    BY <1>1 DEF Confirmed, At, Survives
<1>2. ASSUME Verifies PROVE Verifies' /\ Proof' = Proof
    <2>1. PICK i \in 1..Len(chain) : chain[i].tx = "screen" /\ chain[i].depth >= MinConf
        BY <1>2 DEF Verifies, Confirmed, At
    <2>2. /\ i \in 1..Len(chain') /\ chain'[i].tx = "screen"
          /\ chain'[i].block = chain[i].block /\ chain'[i].depth >= MinConf
        BY <2>1 DEF Survives
    <2>3. Verifies'
        BY <2>2 DEF Verifies, Confirmed, At
    <2>4. At("screen") = {i}
        BY <2>1 DEF At, ChainShape
    <2>5. At("screen")' = {i}
        BY <2>1, <2>2 DEF At, ChainShape
    <2>6. BlockOf("screen") = chain[i].block
        BY <2>4 DEF BlockOf
    <2>7. BlockOf("screen")' = chain'[i].block
        BY <2>5 DEF BlockOf
    <2>8. verdict' = verdict
        BY <2>1 DEF MirrorInv, ChainAnswered, Verdicts
    <2> QED BY <2>2, <2>3, <2>6, <2>7, <2>8 DEF Proof
<1> QED BY <1>1, <1>2

LEMMA FollowInit == Init => FollowInv
<1> SUFFICES ASSUME Init PROVE FollowInv
    OBVIOUS
<1>1. ChainShape
    BY DEF Init, ChainShape
<1>2. Recorded /\ \A w \in Workers : Grounded(w)
    BY DEF Init, Recorded, Grounded, NoIntent, Stored, Lifecycle, AuditKinds
<1>3. AuditTells
    BY DEF Init, AuditTells, AuditKinds, Lifecycle, FinalStatus
<1> QED BY <1>1, <1>2, <1>3, InitInv DEF FollowInv

\* A step of the chain: no row and no request changes.
LEMMA ChainFollowed ==
    ASSUME FollowInv, (\E tx \in Txs : Mine(tx)) \/ Deepen \/ Reorg
    PROVE  FollowInv'
<1>0. MirrorInv /\ ChainShape
    BY DEF FollowInv
<1>1. MirrorInv'
    BY <1>0, ChainStepKeeps
<1>2. ChainShape' /\ (finality \/ ~Reorg => Survives)
    BY <1>0, MineExtends, DeepenExtends, ReorgSpares
<1>3. UNCHANGED <<verdict, row, intent, screening, audit, pc, held, finality>>
    <2>1. ASSUME NEW tx \in Txs, Mine(tx)
          PROVE  UNCHANGED <<verdict, row, intent, screening, audit, pc, held, finality>>
        BY <2>1 DEF Mine, backend, bounds
    <2>2. ASSUME Deepen
          PROVE  UNCHANGED <<verdict, row, intent, screening, audit, pc, held, finality>>
        BY <2>2 DEF Deepen, backend, bounds
    <2>3. ASSUME Reorg
          PROVE  UNCHANGED <<verdict, row, intent, screening, audit, pc, held, finality>>
        BY <2>3 DEF Reorg, backend
    <2> QED BY <2>1, <2>2, <2>3
<1>4. finality \/ ~Reorg =>
          /\ \A tx \in Txs : Confirmed(tx) => Confirmed(tx)'
          /\ Verifies => Verifies' /\ Proof' = Proof
    BY <1>0, <1>2, <1>3, ConfirmedStays
<1>5. Recorded'
    <2>1. ASSUME finality PROVE Recorded'
        BY <1>3, <1>4, <2>1 DEF FollowInv, Recorded, Txs
    <2>2. CASE ~finality
        BY <1>3, <2>2 DEF Recorded
    <2> QED BY <2>1, <2>2
<1>6. AuditTells'
    BY <1>3 DEF FollowInv, AuditTells
<1>7. ASSUME NEW w \in Workers PROVE Grounded(w)'
    <2>1. Grounded(w)
        BY DEF FollowInv
    <2>2. CASE finality
        BY <1>3, <1>4, <2>1, <2>2 DEF Grounded, Txs
    <2>3. CASE ~finality /\ ~Reorg
        <3>1. exposed' = exposed
            BY <2>3 DEF Mine, Deepen
        <3> QED BY <1>3, <1>4, <2>1, <2>3, <3>1 DEF Grounded, Txs
    <2>4. CASE ~finality /\ Reorg
        <3>1. pc[w] \in {"create", "commit"} \cup Lifecycle => w \in exposed'
            BY <2>4 DEF Reorg
        <3> QED BY <1>3, <2>4, <3>1 DEF Grounded
    <2> QED BY <2>2, <2>3, <2>4
<1> QED BY <1>1, <1>2, <1>5, <1>6, <1>7 DEF FollowInv

\* A step of one request leaves the others as grounded as they were: the chain
\* does not move, and the operator's answer, once given, is the same.
LEMMA OthersFollow ==
    ASSUME FollowInv, MirrorInv', NEW w \in Workers,
           UNCHANGED <<chain, finality>>, verdict # "NONE" => verdict' = verdict,
           \A v \in Workers \ {w} : pc'[v] = pc[v] /\ held'[v] = held[v],
           exposed' = exposed \ {w},
           Grounded(w)', Recorded', AuditTells'
    PROVE  FollowInv'
<1>0. MirrorInv /\ ChainShape
    BY DEF FollowInv
<1>1. ChainShape' /\ Survives
    BY <1>0 DEF ChainShape, Survives
<1>2. /\ \A tx \in Txs : Confirmed(tx) => Confirmed(tx)'
      /\ Verifies => Verifies' /\ Proof' = Proof
    BY <1>0, <1>1, ConfirmedStays
<1>3. ASSUME NEW v \in Workers PROVE Grounded(v)'
    <2>1. CASE v = w
        BY <2>1
    <2>2. CASE v # w
        <3>1. /\ pc'[v] = pc[v] /\ held'[v] = held[v] /\ finality' = finality
              /\ v \in exposed' <=> v \in exposed
            BY <2>2
        <3>2. Grounded(v)
            BY DEF FollowInv
        <3>3. ASSUME finality' \/ v \notin exposed'
              PROVE  /\ pc'[v] = "create" => Confirmed("create")'
                     /\ \A tx \in Lifecycle : pc'[v] = tx => Confirmed(tx)'
                     /\ pc'[v] = "commit" => Verifies' /\ held'[v] = Proof'
            <4>1. /\ pc[v] = "create" => Confirmed("create")
                  /\ \A tx \in Lifecycle : pc[v] = tx => Confirmed(tx)
                  /\ pc[v] = "commit" => Verifies /\ held[v] = Proof
                BY <3>1, <3>2, <3>3 DEF Grounded
            <4> QED BY <1>2, <3>1, <4>1 DEF Txs
        <3>4. ASSUME finality', pc'[v] \in {"recheck", "store"}
              PROVE  Verifies' /\ held'[v] = Proof'
            BY <1>2, <3>1, <3>2, <3>4 DEF Grounded
        <3> QED BY <3>3, <3>4 DEF Grounded
    <2> QED BY <2>1, <2>2
<1> QED BY <1>1, <1>3 DEF FollowInv

\* The requests that leave the rows alone: a check that succeeds grounds them.
LEMMA RelabelFollows ==
    ASSUME FollowInv, NEW w \in Workers,
           \/ reconcile(w) \/ submitForScreening(w) \/ reviewFlaggedPayment(w)
           \/ \E tx \in Lifecycle : reconcileLifecycle(w, tx)
           \/ requestSubmission(w) \/ verifySubmission(w) \/ recheckEvidence(w)
           \/ recoverVerifiedComplianceEvidence(w) \/ revalidateComplianceEvidence(w)
           \/ Fail(w)
    PROVE  FollowInv'
<1> USE DEF backend, bounds, World, Goto, Holding, Done
<1>0. MirrorInv /\ ChainShape /\ Recorded /\ AuditTells /\ Grounded(w)
    BY DEF FollowInv
<1>1. MirrorInv'
    BY <1>0, RelabelKeeps
<1>2. /\ UNCHANGED <<chain, finality, row, intent, screening, audit>>
      /\ exposed' = exposed \ {w}
      /\ \A v \in Workers \ {w} : pc'[v] = pc[v] /\ held'[v] = held[v]
    BY <1>0 DEF reconcile, submitForScreening, reviewFlaggedPayment, reconcileLifecycle,
                requestSubmission, verifySubmission, recheckEvidence, Revalidated,
                recoverVerifiedComplianceEvidence, revalidateComplianceEvidence, Fail,
                MirrorInv, TypeOK
<1>3. verdict # "NONE" => verdict' = verdict
    BY DEF reconcile, submitForScreening, reviewFlaggedPayment, reconcileLifecycle,
           requestSubmission, verifySubmission, recheckEvidence, Revalidated,
           recoverVerifiedComplianceEvidence, revalidateComplianceEvidence, Fail
<1>4. /\ \A tx \in Txs : Confirmed(tx) => Confirmed(tx)'
      /\ Verifies => Verifies' /\ Proof' = Proof
    <2>1. ChainShape' /\ Survives
        BY <1>0, <1>2 DEF ChainShape, Survives
    <2> QED BY <1>0, <1>3, <2>1, ConfirmedStays
<1>5. Recorded'
    BY <1>0, <1>2, <1>4 DEF Recorded, Txs
<1> DEFINE Checked == /\ pc'[w] \in Lifecycle => row # "NONE"
                      /\ Grounded(w)'
<1>6. w \in Workers /\ pc \in [Workers -> Labels] /\ held \in [Workers -> Evidence]
    BY <1>0 DEF MirrorInv, TypeOK
<1>7. Checked
    <2>1. CASE reconcile(w)
        <3>1. pc'[w] = "create" /\ Confirmed("create")
            BY <1>6, <2>1 DEF reconcile
        <3> QED BY <1>4, <3>1 DEF Grounded, Txs, Lifecycle
    <2>2. CASE submitForScreening(w) \/ reviewFlaggedPayment(w) \/ requestSubmission(w) \/ Fail(w)
        <3>1. pc'[w] \in {"upsert", "escalate", "verify", "idle"}
            BY <1>6, <2>2 DEF submitForScreening, reviewFlaggedPayment, requestSubmission, Fail
        <3> QED BY <3>1 DEF Grounded, Lifecycle
    <2>3. ASSUME NEW tx \in Lifecycle, reconcileLifecycle(w, tx) PROVE Checked
        <3>1. pc'[w] = tx /\ Confirmed(tx) /\ row # "NONE"
            BY <1>6, <2>3 DEF reconcileLifecycle
        <3> QED BY <1>4, <3>1 DEF Grounded, Txs, Lifecycle
    <2>4. CASE verifySubmission(w) \/ recheckEvidence(w)
        <3>1. \/ pc'[w] = "idle"
              \/ pc'[w] \in {"recheck", "store"} /\ Verifies /\ held'[w] = Proof
            BY <1>6, <2>4 DEF verifySubmission, recheckEvidence, Revalidated
        <3> QED BY <1>4, <3>1 DEF Grounded, Lifecycle
    <2>5. CASE recoverVerifiedComplianceEvidence(w)
        <3>1. pc'[w] \in {"idle", "revalidate"}
            BY <1>6, <2>5 DEF recoverVerifiedComplianceEvidence
        <3> QED BY <3>1 DEF Grounded, Lifecycle
    <2>6. CASE revalidateComplianceEvidence(w)
        <3>1. pc'[w] = "idle" \/ (pc'[w] = "commit" /\ Verifies /\ held'[w] = Proof)
            BY <1>6, <2>6 DEF revalidateComplianceEvidence, Revalidated
        <3> QED BY <1>4, <3>1 DEF Grounded, Lifecycle
    <2> QED BY <2>1, <2>2, <2>3, <2>4, <2>5, <2>6
<1>8. AuditTells'
    <2>1. \A v \in Workers : pc'[v] \in Lifecycle => row # "NONE"
        BY <1>0, <1>2, <1>7 DEF AuditTells
    <2> QED BY <1>0, <1>2, <2>1 DEF AuditTells
<1> QED BY <1>1, <1>2, <1>3, <1>5, <1>7, <1>8, OthersFollow

\* A request that ends holds nothing and has nothing left to commit.
LEMMA DoneGrounded ==
    ASSUME MirrorInv, NEW w \in Workers, Done(w)
    PROVE  /\ pc'[w] = "idle" /\ Grounded(w)'
           /\ exposed' = exposed \ {w}
           /\ \A v \in Workers \ {w} : pc'[v] = pc[v] /\ held'[v] = held[v]
    BY DEF Done, Goto, Holding, MirrorInv, TypeOK, Grounded, Lifecycle

\* One more audit entry of a kind that had none.
LEMMA LoggedOnce ==
    ASSUME MirrorInv, NEW kind \in AuditKinds, Logged(kind), audit[kind] # 1, audit[kind] <= 1
    PROVE  audit'[kind] = 1 /\ \A k \in AuditKinds \ {kind} : audit'[k] = audit[k]
    BY MirrorAssumption DEF MirrorInv, TypeOK, Logged

LEMMA commitCreateFollows ==
    ASSUME FollowInv, NEW w \in Workers, commitCreate(w)
    PROVE  FollowInv'
<1>0. MirrorInv /\ ChainShape /\ Recorded /\ AuditTells /\ Grounded(w)
    BY DEF FollowInv
<1>1. MirrorInv'
    BY <1>0, commitCreateKeeps
<1>2. /\ UNCHANGED <<chain, verdict, finality, intent, screening>>
      /\ pc[w] = "create" /\ Done(w)
      /\ IF row = "NONE" THEN row' = "PENDING" /\ Logged("PAYMENT_CREATED")
                         ELSE UNCHANGED <<row, audit>>
    BY DEF commitCreate, World, bounds
<1>3. /\ pc'[w] = "idle" /\ Grounded(w)'
      /\ exposed' = exposed \ {w}
      /\ \A v \in Workers \ {w} : pc'[v] = pc[v] /\ held'[v] = held[v]
    BY <1>0, <1>2, DoneGrounded
<1>4. CASE row # "NONE"
    <2>1. Recorded'
        BY <1>0, <1>2, <1>4 DEF Recorded, Confirmed, At, Verifies, Proof, BlockOf
    <2>2. AuditTells'
        BY <1>0, <1>2, <1>3, <1>4 DEF AuditTells, Lifecycle
    <2> QED BY <1>1, <1>2, <1>3, <2>1, <2>2, OthersFollow
<1>5. CASE row = "NONE"
    <2>1. row' = "PENDING" /\ Logged("PAYMENT_CREATED")
        BY <1>2, <1>5
    <2>2. /\ audit'["PAYMENT_CREATED"] = 1
          /\ \A k \in AuditKinds \ {"PAYMENT_CREATED"} : audit'[k] = audit[k]
        BY <1>0, <1>5, <2>1, LoggedOnce DEF AuditTells, AuditKinds
    <2>3. finality => Confirmed("create")
        BY <1>0, <1>2 DEF Grounded
    <2>4. Recorded'
        BY <1>0, <1>2, <2>2, <2>3
           DEF Recorded, Confirmed, At, Verifies, Proof, BlockOf, AuditKinds, Lifecycle
    <2>5. AuditTells'
        BY <1>0, <1>2, <1>3, <1>5, <2>1, <2>2 DEF AuditTells, AuditKinds, Lifecycle, FinalStatus
    <2> QED BY <1>1, <1>2, <1>3, <2>4, <2>5, OthersFollow
<1> QED BY <1>4, <1>5

LEMMA commitLifecycleFollows ==
    ASSUME FollowInv, NEW w \in Workers, NEW tx \in Lifecycle, commitLifecycle(w, tx)
    PROVE  FollowInv'
<1>0. MirrorInv /\ ChainShape /\ Recorded /\ AuditTells /\ Grounded(w)
    BY DEF FollowInv
<1>1. MirrorInv'
    BY <1>0, commitLifecycleKeeps
<1>2. /\ UNCHANGED <<chain, verdict, finality, intent, screening>>
      /\ pc[w] = tx /\ Done(w)
      /\ IF audit[tx] = 0 THEN row' = FinalStatus(tx) /\ Logged(tx)
                          ELSE UNCHANGED <<row, audit>>
    BY DEF commitLifecycle, World, bounds
<1>3. /\ pc'[w] = "idle" /\ Grounded(w)'
      /\ exposed' = exposed \ {w}
      /\ \A v \in Workers \ {w} : pc'[v] = pc[v] /\ held'[v] = held[v]
    BY <1>0, <1>2, DoneGrounded
<1>4. CASE audit[tx] # 0
    <2>1. Recorded'
        BY <1>0, <1>2, <1>4 DEF Recorded, Confirmed, At, Verifies, Proof, BlockOf
    <2>2. AuditTells'
        BY <1>0, <1>2, <1>3, <1>4 DEF AuditTells, Lifecycle
    <2> QED BY <1>1, <1>2, <1>3, <2>1, <2>2, OthersFollow
<1>5. CASE audit[tx] = 0
    <2>1. row' = FinalStatus(tx) /\ Logged(tx) /\ row # "NONE"
        BY <1>0, <1>2, <1>5 DEF AuditTells
    <2>2. audit'[tx] = 1 /\ \A k \in AuditKinds \ {tx} : audit'[k] = audit[k]
        <3>1. tx \in AuditKinds /\ audit[tx] <= 1 /\ audit[tx] # 1
            BY <1>5 DEF AuditKinds
        <3> QED BY <1>0, <2>1, <3>1, LoggedOnce
    <2>3. finality => Confirmed(tx)
        BY <1>0, <1>2 DEF Grounded
    <2>4. Recorded'
        BY <1>0, <1>2, <2>1, <2>2, <2>3
           DEF Recorded, Confirmed, At, Verifies, Proof, BlockOf, AuditKinds, Lifecycle
    <2>5. AuditTells'
        BY <1>0, <1>2, <1>3, <2>1, <2>2 DEF AuditTells, AuditKinds, Lifecycle, FinalStatus
    <2> QED BY <1>1, <1>2, <1>3, <2>4, <2>5, OthersFollow
<1> QED BY <1>4, <1>5

\* The steps that write the intent: what the worker stores is the operator's
\* proof when nothing confirmed is ever replaced.
LEMMA intentFollows ==
    ASSUME FollowInv, NEW w \in Workers,
           upsertIntent(w) \/ persistVerifiedComplianceEvidence(w)
    PROVE  FollowInv'
<1>0. MirrorInv /\ ChainShape /\ Recorded /\ AuditTells /\ Grounded(w)
    BY DEF FollowInv
<1>1. MirrorInv'
    BY <1>0, upsertIntentKeeps, persistKeeps
<1>2. /\ UNCHANGED <<chain, verdict, finality, row, screening, audit, held>>
      /\ exposed' = exposed \ {w}
      /\ \A v \in Workers \ {w} : pc'[v] = pc[v]
      /\ pc'[w] \in {"request", "recover", "revalidate"}
    BY <1>0 DEF upsertIntent, persistVerifiedComplianceEvidence, Goto, World, bounds,
                MirrorInv, TypeOK
<1>3. Grounded(w)'
    BY <1>2 DEF Grounded, Lifecycle
<1>4. /\ finality => (row # "NONE" => Confirmed("create"))
      /\ finality => \A tx \in Lifecycle : audit[tx] # 0 => Confirmed(tx)
    BY <1>0 DEF Recorded
<1>5. finality /\ intent'.state \in Stored => Verifies /\ intent'.evidence = Proof
    <2>1. CASE upsertIntent(w)
        <3>1. intent'.state \in Stored => intent' = intent
            BY <1>0, <2>1 DEF upsertIntent, Stored, MirrorInv, TypeOK
        <3> QED BY <1>0, <3>1 DEF Recorded
    <2>2. CASE persistVerifiedComplianceEvidence(w)
        <3>1. pc[w] = "store" /\ (intent' = intent \/ intent'.evidence = held[w])
            BY <2>2 DEF persistVerifiedComplianceEvidence
        <3> QED BY <1>0, <3>1 DEF Recorded, Grounded
    <2> QED BY <2>1, <2>2
<1>6. Recorded'
    BY <1>2, <1>4, <1>5 DEF Recorded, Confirmed, At, Verifies, Proof, BlockOf
<1>7. AuditTells'
    BY <1>0, <1>2 DEF AuditTells, Lifecycle
<1> QED BY <1>1, <1>2, <1>3, <1>6, <1>7, OthersFollow

LEMMA commitScreeningFollows ==
    ASSUME FollowInv, NEW w \in Workers, commitScreening(w)
    PROVE  FollowInv'
<1>0. MirrorInv /\ ChainShape /\ Recorded /\ AuditTells /\ Grounded(w)
    BY DEF FollowInv
<1>1. MirrorInv'
    BY <1>0, commitScreeningKeeps
<1>2. UNCHANGED <<chain, verdict, finality>> /\ pc[w] = "commit" /\ Done(w)
    BY DEF commitScreening, World, bounds
<1>3. /\ pc'[w] = "idle" /\ Grounded(w)'
      /\ exposed' = exposed \ {w}
      /\ \A v \in Workers \ {w} : pc'[v] = pc[v] /\ held'[v] = held[v]
    BY <1>0, <1>2, DoneGrounded
<1>4. /\ intent.state \in Stored /\ intent'.evidence = intent.evidence
      /\ held[w] = intent.evidence /\ intent.evidence.verdict \in Verdicts
    <2>1. intent' = intent \/ intent' = [intent EXCEPT !.state = "COMPLETED"]
        BY DEF commitScreening
    <2> QED BY <1>0, <1>2, <2>1 DEF MirrorInv, TypeOK, HeldAgrees, RowsAgree
<1>5. finality => Verifies /\ intent'.evidence = Proof
    BY <1>0, <1>4 DEF Recorded
<1>6. CASE row = "PENDING"
    <2>1. /\ screening'.status = held[w].verdict
          /\ row' = NewStatus(held[w].verdict) /\ Logged("COMPLIANCE")
        BY <1>6 DEF commitScreening
    <2>2. row' \in Screened /\ screening' # NoScreening /\ screening = NoScreening
        BY <1>0, <1>4, <1>6, <2>1
           DEF NewStatus, Verdicts, Screened, NoScreening, MirrorInv, RowsAgree
    <2>3. /\ audit'["COMPLIANCE"] = 1
          /\ \A k \in AuditKinds \ {"COMPLIANCE"} : audit'[k] = audit[k]
        BY <1>0, <2>1, <2>2, LoggedOnce DEF AuditTells, AuditKinds
    <2>4. Recorded'
        BY <1>0, <1>2, <1>5, <1>6, <2>3
           DEF Recorded, Confirmed, At, Verifies, Proof, BlockOf, AuditKinds, Lifecycle
    <2>5. AuditTells'
        BY <1>0, <1>3, <1>6, <2>2, <2>3
           DEF AuditTells, AuditKinds, Lifecycle, FinalStatus, Screened
    <2> QED BY <1>1, <1>2, <1>3, <2>4, <2>5, OthersFollow
<1>7. CASE row # "PENDING"
    <2>1. UNCHANGED <<row, screening, audit>>
        BY <1>7 DEF commitScreening
    <2>2. Recorded'
        BY <1>0, <1>2, <1>5, <2>1 DEF Recorded, Confirmed, At, Verifies, Proof, BlockOf
    <2>3. AuditTells'
        BY <1>0, <1>3, <2>1 DEF AuditTells, Lifecycle
    <2> QED BY <1>1, <1>2, <1>3, <2>2, <2>3, OthersFollow
<1> QED BY <1>6, <1>7

LEMMA commitEscalationFollows ==
    ASSUME FollowInv, NEW w \in Workers, commitEscalation(w)
    PROVE  FollowInv'
<1>0. MirrorInv /\ ChainShape /\ Recorded /\ AuditTells /\ Grounded(w)
    BY DEF FollowInv
<1>1. MirrorInv'
    BY <1>0, commitEscalationKeeps
<1>2. /\ UNCHANGED <<chain, verdict, finality, row, intent, audit>>
      /\ pc[w] = "escalate" /\ Done(w)
      /\ screening' = [screening EXCEPT !.status = "ESCALATED"]
    BY DEF commitEscalation, World, bounds
<1>3. /\ pc'[w] = "idle" /\ Grounded(w)'
      /\ exposed' = exposed \ {w}
      /\ \A v \in Workers \ {w} : pc'[v] = pc[v] /\ held'[v] = held[v]
    BY <1>0, <1>2, DoneGrounded
<1>4. screening # NoScreening /\ screening' # NoScreening
    BY <1>0, <1>2 DEF MirrorInv, TypeOK, HeldAgrees, NoScreening
<1>5. Recorded'
    BY <1>0, <1>2 DEF Recorded, Confirmed, At, Verifies, Proof, BlockOf
<1>6. AuditTells'
    BY <1>0, <1>2, <1>3, <1>4 DEF AuditTells, Lifecycle
<1> QED BY <1>1, <1>2, <1>3, <1>5, <1>6, OthersFollow

LEMMA FollowStep == FollowInv /\ [Next]_vars => FollowInv'
<1> SUFFICES ASSUME FollowInv, [Next]_vars PROVE FollowInv'
    OBVIOUS
<1>1. CASE (\E tx \in Txs : Mine(tx)) \/ Deepen \/ Reorg
    BY <1>1, ChainFollowed
<1>2. ASSUME NEW w \in Workers,
             \/ reconcile(w) \/ submitForScreening(w) \/ reviewFlaggedPayment(w)
             \/ \E tx \in Lifecycle : reconcileLifecycle(w, tx)
             \/ requestSubmission(w) \/ verifySubmission(w) \/ recheckEvidence(w)
             \/ recoverVerifiedComplianceEvidence(w) \/ revalidateComplianceEvidence(w)
             \/ Fail(w)
      PROVE  FollowInv'
    BY <1>2, RelabelFollows
<1>3. ASSUME NEW w \in Workers,
             \/ commitCreate(w) \/ \E tx \in Lifecycle : commitLifecycle(w, tx)
             \/ upsertIntent(w) \/ persistVerifiedComplianceEvidence(w)
             \/ commitScreening(w) \/ commitEscalation(w)
      PROVE  FollowInv'
    BY <1>3, commitCreateFollows, commitLifecycleFollows, intentFollows,
       commitScreeningFollows, commitEscalationFollows
<1>4. CASE UNCHANGED vars
    <2>1. MirrorInv'
        BY <1>4, StepKeeps DEF FollowInv
    <2>2. /\ UNCHANGED <<chain, verdict, row, intent, screening, audit>>
          /\ UNCHANGED <<pc, held, exposed, finality>>
        BY <1>4 DEF vars, backend, bounds
    <2>3. ChainShape' /\ Recorded' /\ AuditTells' /\ \A w \in Workers : Grounded(w)'
        BY <2>2 DEF FollowInv, ChainShape, Recorded, AuditTells, Grounded, Confirmed, At,
                    Verifies, Proof, BlockOf
    <2> QED BY <2>1, <2>3 DEF FollowInv
<1> QED BY <1>1, <1>2, <1>3, <1>4 DEF Next, Step

LEMMA Follows == Spec => []FollowInv
    BY FollowInit, FollowStep, PTL DEF Spec

\* The record is exact: with finality everything the backend recorded is on
\* the chain, and the audit log has one entry for each thing the row went
\* through (payment-reconciliation.ts, compliance.ts).
THEOREM RecordIsExact == Spec => []MirrorExact
<1>1. ASSUME FollowInv PROVE MirrorExact
    <2>0. MirrorInv /\ ChainShape /\ Recorded /\ AuditTells
        BY <1>1 DEF FollowInv
    <2>1. \A tx \in Txs : Confirmed(tx) => At(tx) # {}
        BY DEF Confirmed
    <2>2. MirrorTrue
        <3>1. ASSUME finality, row # "NONE" PROVE At("create") # {}
            BY <2>0, <2>1, <3>1 DEF Recorded, Txs
        <3>2. ASSUME finality, intent.state \in Stored
              PROVE  /\ At("screen") # {} /\ intent.evidence = Proof
                     /\ intent.evidence.block = BlockOf("screen")
            BY <2>0, <2>1, <3>2 DEF Recorded, Txs, Verifies, Proof
        <3>3. screening # NoScreening =>
                  intent.state \in Stored /\ screening.block = intent.evidence.block
            BY <2>0 DEF MirrorInv, ScreeningAgrees, Stored
        <3>4. ASSUME finality, NEW tx \in Lifecycle, row = FinalStatus(tx) PROVE At(tx) # {}
            <4>1. audit[tx] = 1
                BY <2>0, <3>4 DEF AuditTells
            <4>2. Confirmed(tx)
                BY <2>0, <3>4, <4>1 DEF Recorded
            <4> QED BY <2>1, <4>2 DEF Txs
        <3> QED BY <3>1, <3>2, <3>3, <3>4 DEF MirrorTrue, Stored
    <2>3. ASSUME finality PROVE Cardinality({tx \in Lifecycle : audit[tx] = 1}) <= 1
        <3> DEFINE Ends == {tx \in Lifecycle : audit[tx] = 1}
        <3>1. ASSUME NEW t \in Ends, NEW u \in Ends PROVE t = u
            <4>1. Confirmed(t) /\ Confirmed(u) /\ t \in Lifecycle /\ u \in Lifecycle
                BY <2>0, <2>3 DEF Recorded
            <4>2. PICK i \in 1..Len(chain) : chain[i].tx = t
                BY <4>1 DEF Confirmed, At
            <4>3. PICK j \in 1..Len(chain) : chain[j].tx = u
                BY <4>1 DEF Confirmed, At
            <4>4. i = Len(chain) /\ j = Len(chain)
                BY <2>0, <4>1, <4>2, <4>3 DEF ChainShape
            <4> QED BY <4>2, <4>3, <4>4
        <3>2. Ends = {} \/ \E t : Ends = {t}
            BY <3>1
        <3> HIDE DEF Ends
        <3>3. Cardinality(Ends) \in {0, 1}
            <4>1. CASE Ends = {}
                BY <4>1, FS_EmptySet
            <4>2. ASSUME NEW t, Ends = {t} PROVE Cardinality(Ends) = 1
                BY <4>2, FS_Singleton
            <4> QED BY <3>2, <4>1, <4>2
        <3>4. Cardinality(Ends) <= 1
            BY <3>3
        <3> QED BY <3>4 DEF Ends
    <2>4. AuditExact
        BY <2>0, <2>3 DEF AuditTells, AuditExact
    <2> QED BY <2>2, <2>4 DEF MirrorExact
<1> QED BY <1>1, Follows, PTL

\* Where confirmed blocks may be replaced, a request still records only what
\* the chain holds, unless the reorganisation came after its last check.
THEOREM OnlyTheWindow == Spec => WindowOnly
<1> DEFINE Window ==
        \A w \in Workers \ exposed :
            /\ pc[w] = "create" /\ row' # row => At("create") # {}
            /\ pc[w] = "commit" /\ pc'[w] = "idle" /\ row' # row =>
                  At("screen") # {} /\ BlockOf("screen") = screening'.block
            /\ \A tx \in Lifecycle :
                  pc[w] = tx /\ pc'[w] = "idle" /\ row' # row => At(tx) # {}
<1>1. ASSUME FollowInv, [Next]_vars PROVE Window
    <2> SUFFICES ASSUME NEW w \in Workers \ exposed
                 PROVE  /\ pc[w] = "create" => At("create") # {}
                        /\ pc[w] = "commit" /\ pc'[w] = "idle" /\ row' # row =>
                              At("screen") # {} /\ BlockOf("screen") = screening'.block
                        /\ \A tx \in Lifecycle : pc[w] = tx => At(tx) # {}
        OBVIOUS
    <2>1. /\ pc[w] = "create" => Confirmed("create")
          /\ \A tx \in Lifecycle : pc[w] = tx => Confirmed(tx)
          /\ pc[w] = "commit" => Verifies /\ held[w] = Proof
        BY <1>1 DEF FollowInv, Grounded
    <2>2. ASSUME pc[w] = "commit", pc'[w] = "idle", row' # row
          PROVE  At("screen") # {} /\ BlockOf("screen") = screening'.block
        <3>1. pc \in [Workers -> Labels]
            BY <1>1 DEF FollowInv, MirrorInv, TypeOK
        <3>2. commitScreening(w)
            <4>1. ASSUME (\E tx \in Txs : Mine(tx)) \/ Deepen \/ Reorg \/ UNCHANGED vars
                  PROVE  FALSE
                BY <2>2, <4>1 DEF Mine, Deepen, Reorg, vars, backend
            <4>2. ASSUME NEW v \in Workers,
                         \/ reconcile(v) \/ submitForScreening(v) \/ reviewFlaggedPayment(v)
                         \/ \E tx \in Lifecycle : reconcileLifecycle(v, tx)
                         \/ requestSubmission(v) \/ verifySubmission(v) \/ recheckEvidence(v)
                         \/ recoverVerifiedComplianceEvidence(v)
                         \/ revalidateComplianceEvidence(v) \/ Fail(v) \/ upsertIntent(v)
                         \/ persistVerifiedComplianceEvidence(v) \/ commitEscalation(v)
                  PROVE  FALSE
                BY <2>2, <4>2
                   DEF reconcile, submitForScreening, reviewFlaggedPayment, reconcileLifecycle,
                       requestSubmission, verifySubmission, recheckEvidence, Revalidated,
                       recoverVerifiedComplianceEvidence, revalidateComplianceEvidence, Fail,
                       upsertIntent, persistVerifiedComplianceEvidence, commitEscalation, backend
            <4>3. ASSUME NEW v \in Workers,
                         commitCreate(v) \/ \E tx \in Lifecycle : commitLifecycle(v, tx)
                  PROVE  FALSE
                <5>1. pc[v] # "commit" /\ pc' = [pc EXCEPT ![v] = "idle"]
                    BY <4>3 DEF commitCreate, commitLifecycle, Done, Goto, Lifecycle
                <5> QED BY <2>2, <3>1, <5>1
            <4>4. ASSUME NEW v \in Workers, commitScreening(v) PROVE v = w
                BY <2>2, <3>1, <4>4 DEF commitScreening, Done, Goto
            <4> QED BY <1>1, <4>1, <4>2, <4>3, <4>4 DEF Next, Step
        <3>3. screening'.block = held[w].block
            BY <2>2, <3>2 DEF commitScreening
        <3> QED BY <2>1, <2>2, <3>3 DEF Verifies, Confirmed, Proof
    <2> QED BY <2>1, <2>2 DEF Confirmed
<1>2. FollowInv /\ [Next]_vars => [Window]_vars
    BY <1>1
<1> QED BY <1>2, Follows, PTL DEF Spec, WindowOnly
=============================================================================
