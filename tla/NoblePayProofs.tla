----------------------------- MODULE NoblePayProofs -----------------------------
(***************************************************************************)
(* Proofs about NoblePay, for any finite set of payments, any businesses,  *)
(* wallets, tokens, fees and limits, and under every interleaving of the   *)
(* three contracts, the tokens' issuers and the clock.                     *)
(***************************************************************************)
EXTENDS NoblePay, PermissionProofs, SumTheorems

(***************************************************************************)
(* The inductive invariant.                                                *)
(***************************************************************************)
\* What a payment's status says of its record: nothing is recorded before it
\* is initiated; from then on it has its parties and a fee it can pay; and its
\* status is the verdict of the result on record until it is concluded.
PaymentsSound ==
    \A i \in PaymentIds :
        /\ payments[i].status = "NONE" => payments[i].sender = None
        /\ payments[i].status # "NONE" =>
              /\ payments[i].sender \in Businesses /\ payments[i].recipient \in Wallets
              /\ payments[i].token \in Tokens /\ paymentFees[i] <= payments[i].amount
        /\ payments[i].status \in {"PASSED", "FLAGGED", "BLOCKED"} =>
              payments[i].status = Verdict(complianceResults[i])

Held(t)    == SumFunctionOnSet(amountOf, In(InEscrow, t))
Fees(t)    == SumFunctionOnSet(paymentFees, In({"SETTLED"}, t))
Sent(w, t) == SumFunctionOnSet(amountOf, SentBy(w, t))
Paid(w, t) == SumFunctionOnSet(netOf, PaidTo(w, t))
Volume(b, ages) == SumFunctionOnSet(amountOf, CreatedBy(b, ages))
Treasured(t)    == SumFunctionOnSet(balanceOf[t], Treasuries)

Ledger == \A t \in Tokens :
    /\ balanceOf[t][Vault] = Held(t) /\ Treasured(t) = Fees(t)
    /\ \A w \in Wallets : balanceOf[t][w] = InitialFunds - Sent(w, t) + Paid(w, t)

\* The counters are the volumes, and within the limits of the present tier.
VolumesExact ==
    \A b \in Businesses :
        /\ dailyVolume[b] = Volume(b, {"today"})
        /\ monthlyVolume[b] = Volume(b, {"today", "this month"})
        /\ dailyVolume[b] <= DailyLimit[getBusinessTier(b)]
        /\ monthlyVolume[b] <= MonthlyLimit[getBusinessTier(b)]

PaymentsInv == TypeOK /\ PaymentsSound
Inv == RegistryInv /\ GateInv /\ PaymentsInv /\ Ledger /\ VolumesExact

(***************************************************************************)
(* Facts about constants, and the sets that are summed over.               *)
(***************************************************************************)
LEMMA Parties ==
    /\ Vault \notin Wallets /\ Vault \notin Treasuries /\ Wallets \cap Treasuries = {}
    /\ Businesses \subseteq Wallets /\ None \notin Businesses
    /\ Wallets \subseteq Holders /\ Treasuries \subseteq Holders /\ Vault \in Holders
    BY NoblePayAssumption, RegistryAssumption DEF Holders

LEMMA IdsFinite == \A S \in SUBSET PaymentIds : IsFiniteSet(S)
    BY NoblePayAssumption, FS_Subset

LEMMA SumTypes ==
    ASSUME TypeOK
    PROVE  \A t \in Tokens :
             /\ Held(t) \in Nat /\ Fees(t) \in Nat
             /\ \A w : Sent(w, t) \in Nat /\ Paid(w, t) \in Int
<1> TAKE t \in Tokens
<1>1. \A i \in PaymentIds : amountOf[i] \in Nat /\ paymentFees[i] \in Nat /\ netOf[i] \in Int
    BY DEF TypeOK, Payment, amountOf, netOf
<1>2. Held(t) \in Nat
  <2> DEFINE A == In(InEscrow, t)
  <2>1. A \in SUBSET PaymentIds
      BY DEF In
  <2> HIDE DEF A
  <2>2. SumFunctionOnSet(amountOf, A) \in Nat
      BY <1>1, <2>1, IdsFinite, SumNat
  <2> QED BY <2>2 DEF A, Held
<1>3. Fees(t) \in Nat
  <2> DEFINE A == In({"SETTLED"}, t)
  <2>1. A \in SUBSET PaymentIds
      BY DEF In
  <2> HIDE DEF A
  <2>2. SumFunctionOnSet(paymentFees, A) \in Nat
      BY <1>1, <2>1, IdsFinite, SumNat
  <2> QED BY <2>2 DEF A, Fees
<1>4. ASSUME NEW w PROVE Sent(w, t) \in Nat
  <2> DEFINE A == SentBy(w, t)
  <2>1. A \in SUBSET PaymentIds
      BY DEF SentBy, In
  <2> HIDE DEF A
  <2>2. SumFunctionOnSet(amountOf, A) \in Nat
      BY <1>1, <2>1, IdsFinite, SumNat
  <2> QED BY <2>2 DEF A, Sent
<1>5. ASSUME NEW w PROVE Paid(w, t) \in Int
  <2> DEFINE A == PaidTo(w, t)
  <2>1. A \in SUBSET PaymentIds
      BY DEF PaidTo, In
  <2> HIDE DEF A
  <2>2. SumFunctionOnSet(netOf, A) \in Int
      BY <1>1, <2>1, IdsFinite, SumInt
  <2> QED BY <2>2 DEF A, Paid
<1> QED BY <1>2, <1>3, <1>4, <1>5

\* Two ledgers of payments that differ in one payment only.
SameElsewhere(i) ==
    \A j \in PaymentIds \ {i} :
        /\ payments'[j].status = payments[j].status /\ payments'[j].token = payments[j].token
        /\ payments'[j].sender = payments[j].sender
        /\ payments'[j].recipient = payments[j].recipient
        /\ payments'[j].amount = payments[j].amount /\ paymentFees'[j] = paymentFees[j]

If(condition, value) == IF condition THEN value ELSE 0

LEMMA OnePaymentMoves ==
    ASSUME TypeOK, TypeOK', NEW i \in PaymentIds, SameElsewhere(i), NEW t \in Tokens
    PROVE  /\ Held(t)' = Held(t)
                 + If(payments'[i].status \in InEscrow /\ payments'[i].token = t,
                      payments'[i].amount)
                 - If(payments[i].status \in InEscrow /\ payments[i].token = t,
                      payments[i].amount)
           /\ Fees(t)' = Fees(t)
                 + If(payments'[i].status = "SETTLED" /\ payments'[i].token = t, paymentFees'[i])
                 - If(payments[i].status = "SETTLED" /\ payments[i].token = t, paymentFees[i])
<1>1. /\ \A j \in PaymentIds : /\ amountOf[j] = payments[j].amount /\ amountOf[j] \in Int
                               /\ amountOf'[j] = payments'[j].amount /\ amountOf'[j] \in Int
                               /\ netOf[j] = payments[j].amount - paymentFees[j]
                               /\ netOf'[j] = payments'[j].amount - paymentFees'[j]
                               /\ netOf[j] \in Int /\ netOf'[j] \in Int
                               /\ paymentFees[j] \in Int /\ paymentFees'[j] \in Int
      /\ \A j \in PaymentIds \ {i} : /\ amountOf'[j] = amountOf[j] /\ netOf'[j] = netOf[j]
                                     /\ paymentFees'[j] = paymentFees[j]
    BY DEF TypeOK, Payment, amountOf, netOf, SameElsewhere
<1>2. Held(t)' = Held(t)
         + If(payments'[i].status \in InEscrow /\ payments'[i].token = t, payments'[i].amount)
         - If(payments[i].status \in InEscrow /\ payments[i].token = t, payments[i].amount)
  <2> DEFINE A == In(InEscrow, t)
             B == In(InEscrow, t)'
  <2>1. /\ A \in SUBSET PaymentIds /\ B \in SUBSET PaymentIds /\ A \ {i} = B \ {i}
        /\ i \in A <=> payments[i].status \in InEscrow /\ payments[i].token = t
        /\ i \in B <=> payments'[i].status \in InEscrow /\ payments'[i].token = t
      BY DEF In, SameElsewhere
  <2>2. Held(t) = SumFunctionOnSet(amountOf, A) /\ Held(t)' = SumFunctionOnSet(amountOf', B)
      BY DEF Held
  <2> HIDE DEF A, B
  <2>3. SumFunctionOnSet(amountOf', B) = SumFunctionOnSet(amountOf, A)
              + (IF i \in B THEN amountOf'[i] ELSE 0) - (IF i \in A THEN amountOf[i] ELSE 0)
      BY <1>1, <2>1, IdsFinite, SumMove
  <2> QED BY <1>1, <2>1, <2>2, <2>3 DEF If
<1>3. Fees(t)' = Fees(t)
         + If(payments'[i].status = "SETTLED" /\ payments'[i].token = t, paymentFees'[i])
         - If(payments[i].status = "SETTLED" /\ payments[i].token = t, paymentFees[i])
  <2> DEFINE A == In({"SETTLED"}, t)
             B == In({"SETTLED"}, t)'
  <2>1. /\ A \in SUBSET PaymentIds /\ B \in SUBSET PaymentIds /\ A \ {i} = B \ {i}
        /\ i \in A <=> payments[i].status = "SETTLED" /\ payments[i].token = t
        /\ i \in B <=> payments'[i].status = "SETTLED" /\ payments'[i].token = t
      BY DEF In, SameElsewhere
  <2>2. /\ Fees(t) = SumFunctionOnSet(paymentFees, A)
        /\ Fees(t)' = SumFunctionOnSet(paymentFees', B)
      BY DEF Fees
  <2> HIDE DEF A, B
  <2>3. SumFunctionOnSet(paymentFees', B) = SumFunctionOnSet(paymentFees, A)
              + (IF i \in B THEN paymentFees'[i] ELSE 0) - (IF i \in A THEN paymentFees[i] ELSE 0)
      BY <1>1, <2>1, IdsFinite, SumMove
  <2> QED BY <1>1, <2>1, <2>2, <2>3 DEF If
<1> QED BY <1>2, <1>3

\* The same for one wallet.
LEMMA OnePaymentOf ==
    ASSUME TypeOK, TypeOK', NEW i \in PaymentIds, SameElsewhere(i), NEW t \in Tokens,
           NEW w \in Wallets
    PROVE  /\ Sent(w, t)' = Sent(w, t)
                 + If(/\ payments'[i].status \in InEscrow \cup {"SETTLED"}
                      /\ payments'[i].token = t /\ payments'[i].sender = w,
                      payments'[i].amount)
                 - If(/\ payments[i].status \in InEscrow \cup {"SETTLED"}
                      /\ payments[i].token = t /\ payments[i].sender = w,
                      payments[i].amount)
           /\ Paid(w, t)' = Paid(w, t)
                 + If(/\ payments'[i].status = "SETTLED"
                      /\ payments'[i].token = t /\ payments'[i].recipient = w,
                      netOf'[i])
                 - If(/\ payments[i].status = "SETTLED"
                      /\ payments[i].token = t /\ payments[i].recipient = w,
                      netOf[i])
<1>1. /\ \A j \in PaymentIds : /\ amountOf[j] = payments[j].amount /\ amountOf[j] \in Int
                               /\ amountOf'[j] = payments'[j].amount /\ amountOf'[j] \in Int
                               /\ netOf[j] = payments[j].amount - paymentFees[j]
                               /\ netOf'[j] = payments'[j].amount - paymentFees'[j]
                               /\ netOf[j] \in Int /\ netOf'[j] \in Int
                               /\ paymentFees[j] \in Int /\ paymentFees'[j] \in Int
      /\ \A j \in PaymentIds \ {i} : /\ amountOf'[j] = amountOf[j] /\ netOf'[j] = netOf[j]
                                     /\ paymentFees'[j] = paymentFees[j]
    BY DEF TypeOK, Payment, amountOf, netOf, SameElsewhere
<1>2. Sent(w, t)' = Sent(w, t)
                     + If(/\ payments'[i].status \in InEscrow \cup {"SETTLED"}
                          /\ payments'[i].token = t /\ payments'[i].sender = w,
                          payments'[i].amount)
                     - If(/\ payments[i].status \in InEscrow \cup {"SETTLED"}
                          /\ payments[i].token = t /\ payments[i].sender = w,
                          payments[i].amount)
  <2> DEFINE A == SentBy(w, t)
             B == SentBy(w, t)'
  <2>1. /\ A \in SUBSET PaymentIds /\ B \in SUBSET PaymentIds /\ A \ {i} = B \ {i}
        /\ i \in A <=> /\ payments[i].status \in InEscrow \cup {"SETTLED"}
                       /\ payments[i].token = t /\ payments[i].sender = w
        /\ i \in B <=> /\ payments'[i].status \in InEscrow \cup {"SETTLED"}
                       /\ payments'[i].token = t /\ payments'[i].sender = w
      BY DEF In, SentBy, SameElsewhere
  <2>2. Sent(w, t) = SumFunctionOnSet(amountOf, A) /\ Sent(w, t)' = SumFunctionOnSet(amountOf', B)
      BY DEF Sent
  <2> HIDE DEF A, B
  <2>3. SumFunctionOnSet(amountOf', B) = SumFunctionOnSet(amountOf, A)
              + (IF i \in B THEN amountOf'[i] ELSE 0) - (IF i \in A THEN amountOf[i] ELSE 0)
      BY <1>1, <2>1, IdsFinite, SumMove
  <2> QED BY <1>1, <2>1, <2>2, <2>3 DEF If
<1>3. Paid(w, t)' = Paid(w, t)
                     + If(/\ payments'[i].status = "SETTLED"
                          /\ payments'[i].token = t /\ payments'[i].recipient = w,
                          netOf'[i])
                     - If(/\ payments[i].status = "SETTLED"
                          /\ payments[i].token = t /\ payments[i].recipient = w,
                          netOf[i])
  <2> DEFINE A == PaidTo(w, t)
             B == PaidTo(w, t)'
  <2>1. /\ A \in SUBSET PaymentIds /\ B \in SUBSET PaymentIds /\ A \ {i} = B \ {i}
        /\ i \in A <=> /\ payments[i].status = "SETTLED"
                       /\ payments[i].token = t /\ payments[i].recipient = w
        /\ i \in B <=> /\ payments'[i].status = "SETTLED"
                       /\ payments'[i].token = t /\ payments'[i].recipient = w
      BY DEF In, PaidTo, SameElsewhere
  <2>2. Paid(w, t) = SumFunctionOnSet(netOf, A) /\ Paid(w, t)' = SumFunctionOnSet(netOf', B)
      BY DEF Paid
  <2> HIDE DEF A, B
  <2>3. SumFunctionOnSet(netOf', B) = SumFunctionOnSet(netOf, A)
              + (IF i \in B THEN netOf'[i] ELSE 0) - (IF i \in A THEN netOf[i] ELSE 0)
      BY <1>1, <2>1, IdsFinite, SumMove
  <2> QED BY <1>1, <2>1, <2>2, <2>3 DEF If
<1> QED BY <1>2, <1>3

\* Volumes see neither the status of a payment nor its fee.
LEMMA VolumesStay ==
    ASSUME NEW b, NEW ages, NEW later,
           \A j \in PaymentIds :
              /\ payments'[j].sender = payments[j].sender
              /\ payments'[j].amount = payments[j].amount
              /\ payments[j].sender = b => (payments'[j].created \in later <=> payments[j].created \in ages)
    PROVE  Volume(b, later)' = Volume(b, ages)
<1>1. CreatedBy(b, later)' = CreatedBy(b, ages)
    BY DEF CreatedBy
<1>2. amountOf' = amountOf
    BY DEF amountOf
<1> QED BY <1>1, <1>2 DEF Volume

(***************************************************************************)
(* Steps that leave every payment, volume and balance alone.               *)
(***************************************************************************)
Quiet == UNCHANGED <<payments, paymentFees, complianceResults, dailyVolume, monthlyVolume,
                     balanceOf>>

LEMMA QuietLedger ==
    ASSUME Ledger, UNCHANGED <<payments, paymentFees, balanceOf>>
    PROVE  Ledger'
<1>1. amountOf' = amountOf /\ netOf' = netOf
    BY DEF amountOf, netOf
<1> QED BY <1>1 DEF Ledger, Held, Fees, Sent, Paid, Treasured, In, SentBy, PaidTo

\* A tier may rise in a quiet step, and no limit falls with it.
LEMMA QuietVolumes ==
    ASSUME VolumesExact, UNCHANGED <<payments, dailyVolume, monthlyVolume>>, TypeOK,
           RegistryInv, [RegistryNext]_registryVars, RegistryInv'
    PROVE  VolumesExact'
<1> SUFFICES ASSUME NEW b \in Businesses
             PROVE  /\ dailyVolume'[b] = Volume(b, {"today"})'
                    /\ monthlyVolume'[b] = Volume(b, {"today", "this month"})'
                    /\ dailyVolume'[b] <= DailyLimit[businesses'[b].tier]
                    /\ monthlyVolume'[b] <= MonthlyLimit[businesses'[b].tier]
    BY DEF VolumesExact, getBusinessTier
<1>1. /\ Volume(b, {"today"})' = Volume(b, {"today"})
      /\ Volume(b, {"today", "this month"})' = Volume(b, {"today", "this month"})
    BY VolumesStay
<1>2. /\ businesses[b].tier \in Tiers /\ businesses'[b].tier \in Tiers
      /\ businesses[b].tier <= businesses'[b].tier
  <2>1. businesses'[b].tier >= businesses[b].tier
      BY StepIsFinal DEF StaysRevoked
  <2>2. businesses[b].tier \in Tiers /\ businesses'[b].tier \in Tiers
      BY DEF RegistryInv, RegistryTypeOK, Business
  <2> QED BY <2>1, <2>2, RegistryAssumption
<1>3. /\ DailyLimit[businesses[b].tier] <= DailyLimit[businesses'[b].tier]
      /\ MonthlyLimit[businesses[b].tier] <= MonthlyLimit[businesses'[b].tier]
      /\ DailyLimit[businesses[b].tier] \in Nat /\ DailyLimit[businesses'[b].tier] \in Nat
      /\ MonthlyLimit[businesses[b].tier] \in Nat /\ MonthlyLimit[businesses'[b].tier] \in Nat
    BY <1>2, NoblePayAssumption
<1>4. dailyVolume[b] \in Nat /\ monthlyVolume[b] \in Nat
    BY DEF TypeOK
<1>5. /\ dailyVolume[b] = Volume(b, {"today"})
      /\ monthlyVolume[b] = Volume(b, {"today", "this month"})
    BY DEF VolumesExact
<1>6. /\ dailyVolume[b] <= DailyLimit[businesses[b].tier]
      /\ monthlyVolume[b] <= MonthlyLimit[businesses[b].tier]
    BY DEF VolumesExact, getBusinessTier
<1>7. dailyVolume'[b] = dailyVolume[b] /\ monthlyVolume'[b] = monthlyVolume[b]
    OBVIOUS
<1> DEFINE s == businesses[b].tier
           t == businesses'[b].tier
<1> HIDE DEF s, t
<1>8. dailyVolume[b] <= DailyLimit[t] /\ monthlyVolume[b] <= MonthlyLimit[t]
  <2>1. /\ DailyLimit[s] <= DailyLimit[t] /\ MonthlyLimit[s] <= MonthlyLimit[t]
        /\ DailyLimit[s] \in Nat /\ DailyLimit[t] \in Nat
        /\ MonthlyLimit[s] \in Nat /\ MonthlyLimit[t] \in Nat
        /\ dailyVolume[b] <= DailyLimit[s] /\ monthlyVolume[b] <= MonthlyLimit[s]
      BY <1>3, <1>6 DEF s, t
  <2> QED BY <2>1, <1>4
<1> QED BY <1>1, <1>5, <1>7, <1>8 DEF t

LEMMA QuietSound ==
    ASSUME PaymentsSound, UNCHANGED <<payments, paymentFees, complianceResults>>
    PROVE  PaymentsSound'
    BY DEF PaymentsSound, Verdict

(***************************************************************************)
(* Initiation, of one payment or of a batch: ids are the new payments, and *)
(* paidIn[t] what the sender pays in of token t.                           *)
(***************************************************************************)
Initiates(b, ids, total, paidIn) ==
    /\ _enforceVolumeLimits(b, total) /\ Escrow(b, paidIn)
    /\ \A i \in ids :
        /\ payments[i].status = "NONE" /\ payments'[i].status = "PENDING"
        /\ payments'[i].sender = b /\ payments'[i].recipient \in Wallets
        /\ payments'[i].token \in Tokens /\ payments'[i].created = "today"
        /\ paymentFees'[i] <= payments'[i].amount
    /\ \A i \in PaymentIds \ ids :
            payments'[i] = payments[i] /\ paymentFees'[i] = paymentFees[i]
    /\ payments' \in [PaymentIds -> Payment] /\ paymentFees' \in [PaymentIds -> Nat]
    /\ total = SumFunctionOnSet(amountOf', ids)
    /\ \A t \in Tokens :
        paidIn[t] = SumFunctionOnSet(amountOf', {i \in ids : payments'[i].token = t})
    /\ UNCHANGED <<registryVars, gateVars, complianceResults, settlementRecoveryRequests,
                   configVars>>

LEMMA InitiatesTypes ==
    ASSUME PaymentsInv, NEW b \in Businesses, NEW ids \in SUBSET PaymentIds, NEW total,
           NEW paidIn, Initiates(b, ids, total, paidIn)
    PROVE  /\ PaymentsInv' /\ total \in Nat
           /\ \A t \in Tokens : paidIn[t] \in Nat
           /\ \A t \in Tokens, h \in Holders : balanceOf'[t][h] =
                balanceOf[t][h] + If(h = Vault, paidIn[t]) - If(h = b, paidIn[t])
<1>1. \A i \in PaymentIds : amountOf'[i] \in Nat
    BY DEF Initiates, Payment, amountOf
<1>2. total \in Nat
    BY <1>1, IdsFinite, SumNat DEF Initiates
<1>3. \A t \in Tokens : paidIn[t] \in Nat
  <2> TAKE t \in Tokens
  <2> DEFINE N == {i \in ids : payments'[i].token = t}
  <2>1. N \in SUBSET PaymentIds
      OBVIOUS
  <2>2. paidIn[t] = SumFunctionOnSet(amountOf', N)
      BY DEF Initiates
  <2> HIDE DEF N
  <2> QED BY <1>1, <2>1, <2>2, IdsFinite, SumNat
<1>4. b \in Holders /\ Vault \in Holders /\ b # Vault
    BY Parties
<1>5. \A t \in Tokens, h \in Holders :
        /\ balanceOf'[t] \in [Holders -> Int]
        /\ balanceOf'[t][h] = balanceOf[t][h] + If(h = Vault, paidIn[t]) - If(h = b, paidIn[t])
        /\ balanceOf'[t][h] \in Nat
  <2> TAKE t \in Tokens, h \in Holders
  <2>1. /\ balanceOf'[t] = [balanceOf[t] EXCEPT ![b] = @ - paidIn[t], ![Vault] = @ + paidIn[t]]
        /\ paidIn[t] <= balanceOf[t][b]
      BY DEF Initiates, Escrow
  <2>2. balanceOf[t] \in [Holders -> Nat] /\ paidIn[t] \in Nat
      BY <1>3 DEF PaymentsInv, TypeOK
  <2> QED BY <1>4, <2>1, <2>2 DEF If
<1>6. balanceOf' \in [Tokens -> [Holders -> Nat]]
  <2>1. \A t \in Tokens : balanceOf'[t] \in [Holders -> Nat]
      BY <1>4, <1>5
  <2> QED BY <2>1 DEF Initiates, Escrow
<1>7. dailyVolume' \in [Businesses -> Nat] /\ monthlyVolume' \in [Businesses -> Nat]
    BY <1>2 DEF Initiates, _enforceVolumeLimits, PaymentsInv, TypeOK
<1>8. TypeOK'
    BY <1>6, <1>7 DEF Initiates, _enforceVolumeLimits, Escrow, PaymentsInv, TypeOK, configVars
<1>9. PaymentsSound'
  <2> SUFFICES ASSUME NEW i \in PaymentIds
               PROVE  /\ payments'[i].status = "NONE" => payments'[i].sender = None
                      /\ payments'[i].status # "NONE" =>
                            /\ payments'[i].sender \in Businesses
                            /\ payments'[i].recipient \in Wallets
                            /\ payments'[i].token \in Tokens
                            /\ paymentFees'[i] <= payments'[i].amount
                      /\ payments'[i].status \in {"PASSED", "FLAGGED", "BLOCKED"} =>
                            payments'[i].status = Verdict(complianceResults[i])
      BY DEF PaymentsSound, Initiates, Verdict
  <2>1. CASE i \in ids
      BY <2>1 DEF Initiates
  <2>2. CASE i \notin ids
      BY <2>2 DEF Initiates, PaymentsInv, PaymentsSound
  <2> QED BY <2>1, <2>2
<1> QED BY <1>2, <1>3, <1>5, <1>8, <1>9 DEF PaymentsInv

LEMMA InitiatesLedger ==
    ASSUME PaymentsInv, Ledger, NEW b \in Businesses, NEW ids \in SUBSET PaymentIds, NEW total,
           NEW paidIn, Initiates(b, ids, total, paidIn)
    PROVE  Ledger'
<1> SUFFICES ASSUME NEW t \in Tokens
             PROVE  /\ balanceOf'[t][Vault] = Held(t)' /\ Treasured(t)' = Fees(t)'
                    /\ \A w \in Wallets :
                        balanceOf'[t][w] = InitialFunds - Sent(w, t)' + Paid(w, t)'
    BY DEF Ledger
<1> DEFINE N == {i \in ids : payments'[i].token = t}
<1>0. /\ PaymentsInv' /\ paidIn[t] \in Nat
      /\ \A h \in Holders : balanceOf'[t][h] =
                balanceOf[t][h] + If(h = Vault, paidIn[t]) - If(h = b, paidIn[t])
    BY InitiatesTypes
<1>1. /\ \A j \in PaymentIds : amountOf[j] \in Int /\ amountOf'[j] \in Int
      /\ \A j \in PaymentIds \ ids : amountOf'[j] = amountOf[j] /\ netOf'[j] = netOf[j]
                                     /\ paymentFees'[j] = paymentFees[j]
    BY <1>0 DEF PaymentsInv, TypeOK, Payment, amountOf, netOf, Initiates
<1>2. \A j \in ids : payments[j].status = "NONE" /\ payments'[j].status = "PENDING"
    BY DEF Initiates
<1>3. \A j \in PaymentIds \ ids : payments'[j] = payments[j]
    BY DEF Initiates
<1>4. paidIn[t] = SumFunctionOnSet(amountOf', N)
    BY DEF Initiates
<1>5. Held(t)' = Held(t) + paidIn[t]
  <2> DEFINE A == In(InEscrow, t)
  <2>1. In(InEscrow, t)' = A \cup N
      BY <1>2, <1>3 DEF In, InEscrow
  <2>2. /\ A \in SUBSET PaymentIds /\ N \in SUBSET PaymentIds /\ A \cap N = {}
        /\ \A j \in A : j \notin ids
      BY <1>2 DEF In, InEscrow
  <2>3. /\ Held(t) = SumFunctionOnSet(amountOf, A)
        /\ Held(t)' = SumFunctionOnSet(amountOf', A \cup N)
      BY <2>1 DEF Held
  <2> HIDE DEF A, N
  <2>4. SumFunctionOnSet(amountOf', A \cup N) =
            SumFunctionOnSet(amountOf, A) + SumFunctionOnSet(amountOf', N)
      BY <1>1, <2>2, IdsFinite, SumJoin
  <2> QED BY <1>4, <2>3, <2>4
<1>6. Sent(b, t)' = Sent(b, t) + paidIn[t]
  <2> DEFINE A == SentBy(b, t)
  <2>1. SentBy(b, t)' = A \cup N
    <3> \A j \in ids : payments'[j].sender = b
        BY DEF Initiates
    <3> QED BY <1>2, <1>3 DEF In, InEscrow, SentBy
  <2>2. /\ A \in SUBSET PaymentIds /\ N \in SUBSET PaymentIds /\ A \cap N = {}
        /\ \A j \in A : j \notin ids
      BY <1>2 DEF In, InEscrow, SentBy
  <2>3. /\ Sent(b, t) = SumFunctionOnSet(amountOf, A)
        /\ Sent(b, t)' = SumFunctionOnSet(amountOf', A \cup N)
      BY <2>1 DEF Sent
  <2> HIDE DEF A, N
  <2>4. SumFunctionOnSet(amountOf', A \cup N) =
            SumFunctionOnSet(amountOf, A) + SumFunctionOnSet(amountOf', N)
      BY <1>1, <2>2, IdsFinite, SumJoin
  <2> QED BY <1>4, <2>3, <2>4
<1>7. ASSUME NEW w \in Wallets, w # b PROVE Sent(w, t)' = Sent(w, t)
  <2> DEFINE A == SentBy(w, t)
  <2>1. SentBy(w, t)' = A
    <3> \A j \in ids : payments'[j].sender = b
        BY DEF Initiates
    <3> QED BY <1>2, <1>3, <1>7 DEF In, InEscrow, SentBy
  <2>2. A \in SUBSET PaymentIds /\ \A j \in A : j \notin ids
      BY <1>2 DEF In, InEscrow, SentBy
  <2>3. Sent(w, t) = SumFunctionOnSet(amountOf, A) /\ Sent(w, t)' = SumFunctionOnSet(amountOf', A)
      BY <2>1 DEF Sent
  <2> HIDE DEF A
  <2>4. \A j \in A : amountOf[j] = amountOf'[j]
      BY <1>1, <2>2
  <2> QED BY <2>2, <2>3, <2>4, IdsFinite, SumSame
<1>8. ASSUME NEW w \in Wallets PROVE Paid(w, t)' = Paid(w, t)
  <2> DEFINE A == PaidTo(w, t)
  <2>1. PaidTo(w, t)' = A
      BY <1>2, <1>3 DEF In, PaidTo
  <2>2. A \in SUBSET PaymentIds /\ \A j \in A : j \notin ids
      BY <1>2 DEF In, PaidTo
  <2>3. Paid(w, t) = SumFunctionOnSet(netOf, A) /\ Paid(w, t)' = SumFunctionOnSet(netOf', A)
      BY <2>1 DEF Paid
  <2> HIDE DEF A
  <2>4. \A j \in A : netOf[j] = netOf'[j]
      BY <1>1, <2>2
  <2> QED BY <2>2, <2>3, <2>4, IdsFinite, SumSame
<1>9. Fees(t)' = Fees(t)
  <2> DEFINE A == In({"SETTLED"}, t)
  <2>1. In({"SETTLED"}, t)' = A
      BY <1>2, <1>3 DEF In
  <2>2. A \in SUBSET PaymentIds /\ \A j \in A : j \notin ids
      BY <1>2 DEF In
  <2>3. /\ Fees(t) = SumFunctionOnSet(paymentFees, A)
        /\ Fees(t)' = SumFunctionOnSet(paymentFees', A)
      BY <2>1 DEF Fees
  <2> HIDE DEF A
  <2>4. \A j \in A : paymentFees[j] = paymentFees'[j]
      BY <1>1, <2>2
  <2> QED BY <2>2, <2>3, <2>4, IdsFinite, SumSame
<1>10. Treasured(t)' = Treasured(t)
  <2>1. \A h \in Treasuries : balanceOf[t][h] = balanceOf'[t][h]
    <3>1. \A h \in Treasuries : h \in Holders /\ h # Vault /\ h # b /\ balanceOf[t][h] \in Nat
        BY Parties DEF PaymentsInv, TypeOK
    <3> QED BY <1>0, <3>1 DEF If
  <2>2. IsFiniteSet(Treasuries)
      BY NoblePayAssumption
  <2> QED BY <2>1, <2>2, SumSame DEF Treasured
<1>11. /\ Held(t) \in Nat /\ \A w \in Wallets : Sent(w, t) \in Nat /\ Paid(w, t) \in Int
       /\ InitialFunds \in Nat
    BY SumTypes, NoblePayAssumption DEF PaymentsInv
<1>12. /\ balanceOf[t][Vault] = Held(t) /\ Treasured(t) = Fees(t)
       /\ \A w \in Wallets : balanceOf[t][w] = InitialFunds - Sent(w, t) + Paid(w, t)
    BY DEF Ledger
<1>13. balanceOf'[t][Vault] = Held(t)'
    BY <1>0, <1>5, <1>11, <1>12, Parties DEF If
<1>14. ASSUME NEW w \in Wallets
       PROVE  balanceOf'[t][w] = InitialFunds - Sent(w, t)' + Paid(w, t)'
  <2>1. balanceOf'[t][w] = balanceOf[t][w] - If(w = b, paidIn[t])
      BY <1>0, <1>11, <1>12, Parties DEF If
  <2>2. CASE w = b
      BY <2>1, <2>2, <1>0, <1>6, <1>8, <1>11, <1>12 DEF If
  <2>3. CASE w # b
      BY <2>1, <2>3, <1>0, <1>7, <1>8, <1>11, <1>12 DEF If
  <2> QED BY <2>2, <2>3
<1> QED BY <1>9, <1>10, <1>12, <1>13, <1>14

LEMMA InitiatesVolumes ==
    ASSUME PaymentsInv, VolumesExact, NEW b \in Businesses, NEW ids \in SUBSET PaymentIds,
           NEW total, NEW paidIn, Initiates(b, ids, total, paidIn)
    PROVE  VolumesExact'
<1>0. /\ PaymentsInv' /\ total \in Nat /\ total = SumFunctionOnSet(amountOf', ids)
      /\ businesses' = businesses
  <2>1. PaymentsInv' /\ total \in Nat
      BY InitiatesTypes
  <2>2. total = SumFunctionOnSet(amountOf', ids) /\ businesses' = businesses
      BY DEF Initiates, registryVars
  <2> QED BY <2>1, <2>2
<1>1. /\ \A j \in PaymentIds : amountOf[j] \in Int /\ amountOf'[j] \in Int
      /\ \A j \in PaymentIds \ ids : amountOf'[j] = amountOf[j] /\ payments'[j] = payments[j]
    BY <1>0 DEF PaymentsInv, TypeOK, Payment, amountOf, Initiates
<1>2. \A j \in ids : /\ payments[j].sender = None /\ payments'[j].sender = b
                     /\ payments'[j].created = "today"
    BY DEF Initiates, PaymentsInv, PaymentsSound
<1>3. ASSUME NEW ages, "today" \in ages PROVE Volume(b, ages)' = Volume(b, ages) + total
  <2> DEFINE A == CreatedBy(b, ages)
  <2>1. CreatedBy(b, ages)' = A \cup ids
      BY <1>1, <1>2, <1>3 DEF CreatedBy
  <2>2. A \in SUBSET PaymentIds /\ A \cap ids = {} /\ \A j \in A : j \notin ids
      BY <1>2, Parties DEF CreatedBy
  <2>3. /\ Volume(b, ages) = SumFunctionOnSet(amountOf, A)
        /\ Volume(b, ages)' = SumFunctionOnSet(amountOf', A \cup ids)
      BY <2>1 DEF Volume
  <2> HIDE DEF A
  <2>4. SumFunctionOnSet(amountOf', A \cup ids) =
            SumFunctionOnSet(amountOf, A) + SumFunctionOnSet(amountOf', ids)
      BY <1>1, <2>2, IdsFinite, SumJoin
  <2> QED BY <1>0, <2>3, <2>4
<1>4. ASSUME NEW a \in Businesses, a # b, NEW ages PROVE Volume(a, ages)' = Volume(a, ages)
  <2> DEFINE A == CreatedBy(a, ages)
  <2>1. CreatedBy(a, ages)' = A
      BY <1>1, <1>2, <1>4, Parties DEF CreatedBy
  <2>2. A \in SUBSET PaymentIds /\ \A j \in A : j \notin ids
      BY <1>2, <1>4, Parties DEF CreatedBy
  <2>3. /\ Volume(a, ages) = SumFunctionOnSet(amountOf, A)
        /\ Volume(a, ages)' = SumFunctionOnSet(amountOf', A)
      BY <2>1 DEF Volume
  <2> HIDE DEF A
  <2>4. \A j \in A : amountOf[j] = amountOf'[j]
      BY <1>1, <2>2
  <2> QED BY <2>2, <2>3, <2>4, IdsFinite, SumSame
<1>5. dailyVolume \in [Businesses -> Nat] /\ monthlyVolume \in [Businesses -> Nat]
    BY DEF PaymentsInv, TypeOK
<1> SUFFICES ASSUME NEW a \in Businesses
             PROVE  /\ dailyVolume'[a] = Volume(a, {"today"})'
                    /\ monthlyVolume'[a] = Volume(a, {"today", "this month"})'
                    /\ dailyVolume'[a] <= DailyLimit[getBusinessTier(a)]
                    /\ monthlyVolume'[a] <= MonthlyLimit[getBusinessTier(a)]
    BY <1>0 DEF VolumesExact, getBusinessTier
<1>6. /\ dailyVolume[a] = Volume(a, {"today"})
      /\ monthlyVolume[a] = Volume(a, {"today", "this month"})
      /\ dailyVolume[a] <= DailyLimit[getBusinessTier(a)]
      /\ monthlyVolume[a] <= MonthlyLimit[getBusinessTier(a)]
    BY DEF VolumesExact
<1>7. CASE a = b
  <2>1. /\ dailyVolume'[b] = dailyVolume[b] + total
        /\ monthlyVolume'[b] = monthlyVolume[b] + total
        /\ dailyVolume'[b] <= DailyLimit[getBusinessTier(b)]
        /\ monthlyVolume'[b] <= MonthlyLimit[getBusinessTier(b)]
      BY <1>5 DEF Initiates, _enforceVolumeLimits
  <2>2. /\ Volume(b, {"today"})' = Volume(b, {"today"}) + total
        /\ Volume(b, {"today", "this month"})' = Volume(b, {"today", "this month"}) + total
      BY <1>3
  <2> QED BY <1>6, <1>7, <2>1, <2>2
<1>8. CASE a # b
  <2>1. dailyVolume'[a] = dailyVolume[a] /\ monthlyVolume'[a] = monthlyVolume[a]
      BY <1>5, <1>8 DEF Initiates, _enforceVolumeLimits
  <2> QED BY <1>4, <1>6, <1>8, <2>1
<1> QED BY <1>7, <1>8

LEMMA FeeIsNat ==
    ASSUME TypeOK
    PROVE  \A amount \in Nat : _calculateFee(amount) \in Nat
<1> TAKE amount \in Nat
<1>1. baseFee \in Nat /\ percentageFee \in Nat /\ FeeDenominator \in Nat \ {0}
    BY NoblePayAssumption DEF TypeOK
<1> DEFINE product == amount * percentageFee
<1>2. product \in Nat
    BY <1>1
<1> HIDE DEF product
<1>3. product \div FeeDenominator \in Nat
    BY <1>1, <1>2
<1> QED BY <1>1, <1>3 DEF product, _calculateFee

LEMMA initiatePaymentInitiates ==
    ASSUME PaymentsInv, NEW b \in Businesses, NEW recipient \in Wallets, NEW amount \in Amounts,
           NEW token \in Tokens, NEW i \in PaymentIds,
           initiatePayment(b, recipient, amount, token, i)
    PROVE  Initiates(b, {i}, amount, [t \in Tokens |-> IF t = token THEN amount ELSE 0])
<1> DEFINE new == NewPayment(b, recipient, amount, token)
<1>1. /\ payments' = [payments EXCEPT ![i] = new]
      /\ paymentFees' = [paymentFees EXCEPT ![i] = _calculateFee(amount)]
      /\ _calculateFee(amount) < amount
    BY DEF initiatePayment, Admissible
<1>2. payments \in [PaymentIds -> Payment] /\ paymentFees \in [PaymentIds -> Nat]
    BY DEF PaymentsInv, TypeOK
<1>3. amount \in Nat /\ _calculateFee(amount) \in Nat
    BY FeeIsNat, NoblePayAssumption DEF PaymentsInv
<1>4. /\ new \in Payment /\ new.status = "PENDING" /\ new.sender = b /\ new.recipient = recipient
      /\ new.token = token /\ new.created = "today" /\ new.amount = amount
    BY <1>3 DEF NewPayment, Payment, Status, Age
<1> HIDE DEF new
<1>5. /\ payments' \in [PaymentIds -> Payment] /\ paymentFees' \in [PaymentIds -> Nat]
      /\ payments'[i] = new /\ paymentFees'[i] = _calculateFee(amount)
      /\ \A j \in PaymentIds \ {i} :
            payments'[j] = payments[j] /\ paymentFees'[j] = paymentFees[j]
    BY <1>1, <1>2, <1>3, <1>4
<1>6. SumFunctionOnSet(amountOf', {i}) = amount
  <2>1. amountOf'[i] = amount
      BY <1>4, <1>5 DEF amountOf
  <2>2. SumFunctionOnSet(amountOf', {} \cup {i}) = amountOf'[i] + SumFunctionOnSet(amountOf', {})
      BY <2>1, <1>3, SumAdd, FS_EmptySet
  <2>3. {} \cup {i} = {i}
      OBVIOUS
  <2> QED BY <2>1, <2>2, <2>3, <1>3, SumEmpty
<1>7. ASSUME NEW t \in Tokens
      PROVE  (IF t = token THEN amount ELSE 0)
                = SumFunctionOnSet(amountOf', {j \in {i} : payments'[j].token = t})
  <2>1. CASE t = token
    <3>1. {j \in {i} : payments'[j].token = t} = {i}
        BY <2>1, <1>4, <1>5
    <3> QED BY <2>1, <3>1, <1>6
  <2>2. CASE t # token
    <3>1. {j \in {i} : payments'[j].token = t} = {}
        BY <2>2, <1>4, <1>5
    <3> QED BY <2>2, <3>1, SumEmpty
  <2> QED BY <2>1, <2>2
<1>8. _calculateFee(amount) <= amount
    BY <1>1, <1>3
<1> QED BY <1>4, <1>5, <1>6, <1>7, <1>8 DEF initiatePayment, Initiates

LEMMA initiatePaymentBatchInitiates ==
    ASSUME PaymentsInv, NEW b \in Businesses, NEW order \in Orders, initiatePaymentBatch(b, order)
    PROVE  LET sum(S) == SumFunctionOnSet([i \in DOMAIN order |-> order[i].amount], S)
           IN  Initiates(b, DOMAIN order, sum(DOMAIN order),
                    [t \in Tokens |-> sum({i \in DOMAIN order : order[i].token = t})])
<1> DEFINE ids == DOMAIN order
           ordered == [i \in ids |-> order[i].amount]
           new(i) == NewPayment(b, order[i].recipient, order[i].amount, order[i].token)
<1>1. /\ ids \in SUBSET PaymentIds
      /\ order \in [ids -> [recipient: Wallets, amount: Amounts, token: Tokens]]
    BY DEF Orders
<1>2. /\ \A i \in ids : payments'[i] = new(i) /\ paymentFees'[i] = _calculateFee(order[i].amount)
      /\ \A i \in PaymentIds \ ids : payments'[i] = payments[i] /\ paymentFees'[i] = paymentFees[i]
      /\ \A i \in ids : payments[i].status = "NONE" /\ _calculateFee(order[i].amount) < order[i].amount
      /\ DOMAIN payments' = PaymentIds /\ DOMAIN paymentFees' = PaymentIds
      /\ payments' = [i \in PaymentIds |-> payments'[i]]
      /\ paymentFees' = [i \in PaymentIds |-> paymentFees'[i]]
    BY <1>1 DEF initiatePaymentBatch, Admissible
<1>3. \A i \in ids : /\ order[i].amount \in Nat /\ _calculateFee(order[i].amount) \in Nat
                     /\ order[i].recipient \in Wallets /\ order[i].token \in Tokens
    BY <1>1, FeeIsNat, NoblePayAssumption DEF PaymentsInv
<1>4. \A i \in ids : /\ new(i) \in Payment /\ new(i).status = "PENDING" /\ new(i).sender = b
                     /\ new(i).recipient \in Wallets /\ new(i).token = order[i].token
                     /\ new(i).created = "today" /\ new(i).amount = order[i].amount
    BY <1>3 DEF NewPayment, Payment, Status, Age
<1> HIDE DEF new
<1>5. payments' \in [PaymentIds -> Payment] /\ paymentFees' \in [PaymentIds -> Nat]
  <2>1. \A i \in PaymentIds : payments[i] \in Payment /\ paymentFees[i] \in Nat
      BY DEF PaymentsInv, TypeOK
  <2>2. \A i \in PaymentIds : payments'[i] \in Payment /\ paymentFees'[i] \in Nat
      BY <1>2, <1>3, <1>4, <2>1
  <2> QED BY <1>2, <2>2
<1>6. \A i \in ids : /\ payments[i].status = "NONE" /\ payments'[i].status = "PENDING"
                     /\ payments'[i].sender = b /\ payments'[i].recipient \in Wallets
                     /\ payments'[i].token \in Tokens /\ payments'[i].created = "today"
                     /\ paymentFees'[i] <= payments'[i].amount
                     /\ payments'[i].token = order[i].token
    BY <1>2, <1>3, <1>4
<1>7. \A S \in SUBSET ids : SumFunctionOnSet(ordered, S) = SumFunctionOnSet(amountOf', S)
  <2> TAKE S \in SUBSET ids
  <2>1. \A i \in S : ordered[i] = amountOf'[i]
      BY <1>1, <1>2, <1>4 DEF amountOf
  <2>2. IsFiniteSet(S)
      BY <1>1, IdsFinite
  <2> HIDE DEF ordered
  <2> QED BY <2>1, <2>2, SumSame
<1>8. ASSUME NEW t \in Tokens
      PROVE  SumFunctionOnSet(ordered, {i \in ids : order[i].token = t})
                = SumFunctionOnSet(amountOf', {i \in ids : payments'[i].token = t})
  <2>1. {i \in ids : order[i].token = t} = {i \in ids : payments'[i].token = t}
      BY <1>6
  <2> QED BY <1>7, <2>1
<1>9. SumFunctionOnSet(ordered, ids) = SumFunctionOnSet(amountOf', ids)
    BY <1>7
<1>10. /\ _enforceVolumeLimits(b, SumFunctionOnSet(ordered, ids))
       /\ Escrow(b, [t \in Tokens |-> SumFunctionOnSet(ordered, {i \in ids : order[i].token = t})])
       /\ UNCHANGED <<registryVars, gateVars, complianceResults, settlementRecoveryRequests,
                      configVars>>
    BY DEF initiatePaymentBatch
<1> HIDE DEF ordered
<1>11. Initiates(b, ids, SumFunctionOnSet(ordered, ids),
                 [t \in Tokens |-> SumFunctionOnSet(ordered, {i \in ids : order[i].token = t})])
    BY <1>2, <1>5, <1>6, <1>8, <1>9, <1>10 DEF Initiates
<1> QED BY <1>11 DEF ordered

(***************************************************************************)
(* A payment leaves escrow: to its recipient less the fee, or back to its  *)
(* sender in full.                                                         *)
(***************************************************************************)
Leaves(i, status, x, ax, y, ay) ==
    /\ Conclude(i, status, x, ax, y, ay) /\ y = treasury
    /\ payments[i].status \in InEscrow
    /\ \/ /\ status = "SETTLED" /\ x = payments[i].recipient
          /\ ax = payments[i].amount - paymentFees[i] /\ ay = paymentFees[i]
       \/ /\ status = "REFUNDED" /\ x = payments[i].sender
          /\ ax = payments[i].amount /\ ay = 0

LEMMA LeavesTypes ==
    ASSUME PaymentsInv, NEW i \in PaymentIds, NEW status, NEW x, NEW ax, NEW y, NEW ay,
           Leaves(i, status, x, ax, y, ay)
    PROVE  /\ PaymentsInv' /\ SameElsewhere(i) /\ UNCHANGED paymentFees
           /\ payments'[i].status = status /\ payments'[i].token = payments[i].token
           /\ payments'[i].sender = payments[i].sender
           /\ payments'[i].recipient = payments[i].recipient
           /\ payments'[i].amount = payments[i].amount
           /\ payments[i].token \in Tokens /\ x \in Wallets /\ y \in Treasuries
           /\ payments[i].sender \in Businesses /\ payments[i].recipient \in Wallets
           /\ ax \in Nat /\ ay \in Nat
           /\ \A t \in Tokens \ {payments[i].token} : balanceOf'[t] = balanceOf[t]
           /\ \A h \in Holders : balanceOf'[payments[i].token][h] =
                balanceOf[payments[i].token][h] + If(h = x, ax) + If(h = y, ay)
                                                - If(h = Vault, ax + ay)
<1> DEFINE p == payments[i]
           token == p.token
           new == [p EXCEPT !.status = status]
<1>1. /\ payments \in [PaymentIds -> Payment] /\ p \in Payment /\ p.amount \in Nat
      /\ paymentFees[i] \in Nat /\ p.status # "NONE" /\ treasury \in Treasuries
      /\ balanceOf \in [Tokens -> [Holders -> Nat]]
    BY DEF PaymentsInv, TypeOK, Payment, Leaves, InEscrow
<1>2. /\ p.sender \in Businesses /\ p.recipient \in Wallets /\ token \in Tokens
      /\ paymentFees[i] <= p.amount
    BY <1>1 DEF PaymentsInv, PaymentsSound
<1>3. x \in Wallets /\ y \in Treasuries /\ ax \in Nat /\ ay \in Nat
    BY <1>1, <1>2, Parties DEF Leaves
<1>4. /\ payments' = [payments EXCEPT ![i].status = status] /\ status \in {"SETTLED", "REFUNDED"}
      /\ settlementRecoveryRequests' = [settlementRecoveryRequests EXCEPT ![i] = NoRequest]
      /\ UNCHANGED <<paymentFees, complianceResults, volumeVars, configVars, blocked>>
      /\ ax + ay <= balanceOf[token][Vault]
      /\ balanceOf' = [balanceOf EXCEPT ![token] =
            [h \in Holders |-> @[h] + (IF h = x THEN ax ELSE 0) + (IF h = y THEN ay ELSE 0)
                                    - (IF h = Vault THEN ax + ay ELSE 0)]]
    BY DEF Leaves, Conclude, Pay
<1>5. new \in Payment /\ payments'[i] = new /\ payments' \in [PaymentIds -> Payment]
    BY <1>1, <1>4 DEF Payment, Status
<1>6. \A j \in PaymentIds \ {i} : payments'[j] = payments[j]
    BY <1>1, <1>4
<1>7. \A h \in Holders : balanceOf'[token][h] =
            balanceOf[token][h] + If(h = x, ax) + If(h = y, ay) - If(h = Vault, ax + ay)
    BY <1>1, <1>2, <1>4 DEF If
<1>8. \A t \in Tokens \ {token} : balanceOf'[t] = balanceOf[t]
    BY <1>1, <1>4
<1>9. \A h \in Holders : balanceOf'[token][h] \in Nat
  <2> TAKE h \in Holders
  <2>1. balanceOf[token][h] \in Nat /\ balanceOf[token][Vault] \in Nat
      BY <1>1, <1>2, Parties
  <2>2. CASE h = Vault
    <3>1. h # x /\ h # y
        BY <1>3, <2>2, Parties
    <3> QED BY <1>3, <1>4, <1>7, <2>1, <2>2, <3>1 DEF If
  <2>3. CASE h # Vault
      BY <1>3, <1>7, <2>1, <2>3 DEF If
  <2> QED BY <2>2, <2>3
<1>10. balanceOf' \in [Tokens -> [Holders -> Nat]]
  <2>1. balanceOf'[token] = [h \in Holders |-> balanceOf'[token][h]]
      BY <1>1, <1>2, <1>4
  <2>2. balanceOf'[token] \in [Holders -> Nat]
      BY <1>9, <2>1
  <2>3. \A t \in Tokens : balanceOf'[t] \in [Holders -> Nat]
      BY <1>1, <1>8, <2>2
  <2>4. balanceOf' = [t \in Tokens |-> balanceOf'[t]]
      BY <1>1, <1>4
  <2> QED BY <2>3, <2>4
<1>11. TypeOK'
  <2>1. settlementRecoveryRequests' \in [PaymentIds -> Nat \cup {NoRequest}]
      BY <1>4 DEF PaymentsInv, TypeOK
  <2> QED BY <1>4, <1>5, <1>10, <2>1 DEF PaymentsInv, TypeOK, volumeVars, configVars
<1>12. PaymentsSound'
  <2> SUFFICES ASSUME NEW j \in PaymentIds
               PROVE  /\ payments'[j].status = "NONE" => payments'[j].sender = None
                      /\ payments'[j].status # "NONE" =>
                            /\ payments'[j].sender \in Businesses
                            /\ payments'[j].recipient \in Wallets
                            /\ payments'[j].token \in Tokens
                            /\ paymentFees[j] <= payments'[j].amount
                      /\ payments'[j].status \in {"PASSED", "FLAGGED", "BLOCKED"} =>
                            payments'[j].status = Verdict(complianceResults[j])
      BY <1>4 DEF PaymentsSound, Verdict
  <2>1. CASE j = i
    <3>1. /\ payments'[j].status \in {"SETTLED", "REFUNDED"} /\ payments'[j].sender = p.sender
          /\ payments'[j].recipient = p.recipient /\ payments'[j].token = p.token
          /\ payments'[j].amount = p.amount
        BY <1>1, <1>4, <1>5, <2>1 DEF Payment
    <3> QED BY <1>2, <2>1, <3>1
  <2>2. CASE j # i
      BY <1>6, <2>2 DEF PaymentsInv, PaymentsSound
  <2> QED BY <2>1, <2>2
<1>13. SameElsewhere(i)
    BY <1>4, <1>6 DEF SameElsewhere
<1>14. /\ payments'[i].status = status /\ payments'[i].token = token
       /\ payments'[i].sender = p.sender /\ payments'[i].recipient = p.recipient
       /\ payments'[i].amount = p.amount
    BY <1>1, <1>5 DEF Payment
<1> QED BY <1>2, <1>3, <1>4, <1>7, <1>8, <1>11, <1>12, <1>13, <1>14 DEF PaymentsInv

LEMMA LeavesLedger ==
    ASSUME PaymentsInv, Ledger, NEW i \in PaymentIds, NEW status, NEW x, NEW ax, NEW y, NEW ay,
           Leaves(i, status, x, ax, y, ay)
    PROVE  Ledger'
<1> DEFINE p == payments[i]
           fee == paymentFees[i]
<1>1. /\ PaymentsInv' /\ SameElsewhere(i) /\ paymentFees'[i] = fee
      /\ p.token \in Tokens /\ x \in Wallets /\ y \in Treasuries
      /\ ax \in Nat /\ ay \in Nat
      /\ \A t \in Tokens \ {p.token} : balanceOf'[t] = balanceOf[t]
      /\ \A h \in Holders : balanceOf'[p.token][h] =
            balanceOf[p.token][h] + If(h = x, ax) + If(h = y, ay) - If(h = Vault, ax + ay)
    BY LeavesTypes
<1>2. /\ p \in Payment /\ p.amount \in Nat /\ fee \in Nat /\ p.status \in InEscrow
      /\ p.status # "SETTLED"
    BY DEF PaymentsInv, TypeOK, Payment, Leaves, InEscrow
<1>3. /\ payments'[i].status = status /\ payments'[i].token = p.token
      /\ payments'[i].sender = p.sender /\ payments'[i].recipient = p.recipient
      /\ payments'[i].amount = p.amount
    BY LeavesTypes
<1>4. \/ /\ status = "SETTLED" /\ x = p.recipient /\ ax = p.amount - fee /\ ay = fee
      \/ /\ status = "REFUNDED" /\ x = p.sender /\ ax = p.amount /\ ay = 0
    BY DEF Leaves
<1>5. status \notin InEscrow /\ ax + ay = p.amount
    BY <1>2, <1>4 DEF InEscrow
<1> SUFFICES ASSUME NEW t \in Tokens
             PROVE  /\ balanceOf'[t][Vault] = Held(t)' /\ Treasured(t)' = Fees(t)'
                    /\ \A w \in Wallets :
                        balanceOf'[t][w] = InitialFunds - Sent(w, t)' + Paid(w, t)'
    BY DEF Ledger
<1>6. /\ balanceOf[t][Vault] = Held(t) /\ Treasured(t) = Fees(t)
      /\ \A w \in Wallets : balanceOf[t][w] = InitialFunds - Sent(w, t) + Paid(w, t)
    BY DEF Ledger
<1>7. /\ Held(t) \in Nat /\ Fees(t) \in Nat /\ InitialFunds \in Nat
      /\ \A w \in Wallets : Sent(w, t) \in Nat /\ Paid(w, t) \in Int
    BY SumTypes, NoblePayAssumption DEF PaymentsInv
<1>8. /\ Held(t)' = Held(t) - If(p.token = t, p.amount)
      /\ Fees(t)' = Fees(t) + If(status = "SETTLED" /\ p.token = t, fee)
      /\ \A w \in Wallets :
            /\ Sent(w, t)' = Sent(w, t)
                    - If(status = "REFUNDED" /\ p.token = t /\ p.sender = w, p.amount)
            /\ Paid(w, t)' = Paid(w, t)
                    + If(status = "SETTLED" /\ p.token = t /\ p.recipient = w, p.amount - fee)
  <2>1. TypeOK /\ TypeOK'
      BY <1>1 DEF PaymentsInv
  <2>2. Held(t)' = Held(t) + If(payments'[i].status \in InEscrow /\ payments'[i].token = t,
                                payments'[i].amount)
                           - If(p.status \in InEscrow /\ p.token = t, p.amount)
      BY <1>1, <2>1, OnePaymentMoves
  <2>3. Fees(t)' = Fees(t) + If(payments'[i].status = "SETTLED" /\ payments'[i].token = t,
                                paymentFees'[i])
                           - If(p.status = "SETTLED" /\ p.token = t, fee)
      BY <1>1, <2>1, OnePaymentMoves
  <2>4. ASSUME NEW w \in Wallets
        PROVE  Sent(w, t)' = Sent(w, t)
                    - If(status = "REFUNDED" /\ p.token = t /\ p.sender = w, p.amount)
    <3>1. Sent(w, t)' = Sent(w, t)
                     + If(/\ payments'[i].status \in InEscrow \cup {"SETTLED"}
                          /\ payments'[i].token = t /\ payments'[i].sender = w,
                          payments'[i].amount)
                     - If(/\ p.status \in InEscrow \cup {"SETTLED"}
                          /\ p.token = t /\ p.sender = w, p.amount)
        BY <1>1, <2>1, OnePaymentOf
    <3> QED BY <1>2, <1>3, <1>4, <1>5, <1>7, <3>1 DEF If
  <2>5. ASSUME NEW w \in Wallets
        PROVE  Paid(w, t)' = Paid(w, t)
                    + If(status = "SETTLED" /\ p.token = t /\ p.recipient = w, p.amount - fee)
    <3>1. Paid(w, t)' = Paid(w, t)
                     + If(/\ payments'[i].status = "SETTLED"
                          /\ payments'[i].token = t /\ payments'[i].recipient = w, netOf'[i])
                     - If(/\ p.status = "SETTLED" /\ p.token = t /\ p.recipient = w, netOf[i])
        BY <1>1, <2>1, OnePaymentOf DEF If
    <3>2. netOf'[i] = p.amount - fee
        BY <1>1, <1>3 DEF netOf
    <3> QED BY <1>1, <1>2, <1>3, <1>4, <1>7, <3>1, <3>2 DEF If
  <2>6. Held(t)' = Held(t) - If(p.token = t, p.amount)
      BY <1>2, <1>3, <1>5, <1>7, <2>2 DEF If
  <2>7. Fees(t)' = Fees(t) + If(status = "SETTLED" /\ p.token = t, fee)
      BY <1>1, <1>2, <1>3, <1>7, <2>3 DEF If
  <2> QED BY <2>4, <2>5, <2>6, <2>7
<1>9. Treasured(t)' = Treasured(t) + If(p.token = t, ay)
  <2>1. CASE p.token # t
      BY <1>1, <1>6, <1>7, <2>1 DEF Treasured, If
  <2>2. CASE p.token = t
    <3>1. \A h \in Treasuries : /\ balanceOf[t][h] \in Int /\ balanceOf'[t][h] \in Int
                                /\ balanceOf'[t][h] = balanceOf[t][h] + If(h = y, ay)
      <4>1. \A h \in Treasuries : h \in Holders /\ h # x /\ h # Vault
          BY <1>1, Parties
      <4>2. \A h \in Treasuries : balanceOf[t][h] \in Nat
          BY <4>1 DEF PaymentsInv, TypeOK
      <4> QED BY <1>1, <2>2, <4>1, <4>2 DEF If
    <3>2. \A h \in Treasuries \ {y} : balanceOf[t][h] = balanceOf'[t][h]
        BY <3>1 DEF If
    <3>3. Treasured(t)' = Treasured(t) + balanceOf'[t][y] - balanceOf[t][y]
        BY <1>1, <3>1, <3>2, NoblePayAssumption, SumChange DEF Treasured
    <3>4. balanceOf'[t][y] = balanceOf[t][y] + ay /\ balanceOf[t][y] \in Int
        BY <1>1, <3>1 DEF If
    <3> QED BY <1>1, <1>6, <1>7, <2>2, <3>3, <3>4 DEF If
  <2> QED BY <2>1, <2>2
<1>10. Treasured(t)' = Fees(t)'
    BY <1>2, <1>4, <1>6, <1>7, <1>8, <1>9 DEF If
<1>11. balanceOf'[t][Vault] = Held(t)'
  <2>1. Vault \in Holders /\ Vault # x /\ Vault # y
      BY <1>1, Parties
  <2>2. CASE p.token = t
      BY <1>1, <1>2, <1>5, <1>6, <1>7, <1>8, <2>1, <2>2 DEF If
  <2>3. CASE p.token # t
      BY <1>1, <1>6, <1>7, <1>8, <2>3 DEF If
  <2> QED BY <2>2, <2>3
<1>12. ASSUME NEW w \in Wallets
       PROVE  balanceOf'[t][w] = InitialFunds - Sent(w, t)' + Paid(w, t)'
  <2>1. w \in Holders /\ w # Vault /\ w # y
      BY <1>1, Parties
  <2>2. CASE p.token = t
    <3>1. balanceOf'[t][w] = balanceOf[t][w] + If(w = x, ax)
        BY <1>1, <1>6, <1>7, <2>1, <2>2 DEF If
    <3> QED BY <1>2, <1>4, <1>6, <1>7, <1>8, <2>2, <3>1 DEF If
  <2>3. CASE p.token # t
      BY <1>1, <1>6, <1>7, <1>8, <2>3 DEF If
  <2> QED BY <2>2, <2>3
<1> QED BY <1>10, <1>11, <1>12

LEMMA LeavesVolumes ==
    ASSUME PaymentsInv, VolumesExact, NEW i \in PaymentIds, NEW status, NEW x, NEW ax, NEW y,
           NEW ay, Leaves(i, status, x, ax, y, ay)
    PROVE  VolumesExact'
<1>1. UNCHANGED <<dailyVolume, monthlyVolume, businesses>>
    BY DEF Leaves, Conclude, volumeVars, registryVars
<1>2. \A j \in PaymentIds : /\ payments'[j].sender = payments[j].sender
                            /\ payments'[j].amount = payments[j].amount
                            /\ payments'[j].created = payments[j].created
    BY DEF Leaves, Conclude, PaymentsInv, TypeOK, Payment
<1>3. \A b, ages : Volume(b, ages)' = Volume(b, ages)
    BY <1>2, VolumesStay
<1> QED BY <1>1, <1>3 DEF VolumesExact, getBusinessTier

(***************************************************************************)
(* Screening, the requests for recovery, the passage of time.              *)
(***************************************************************************)
LEMMA ScreenInv ==
    ASSUME PaymentsInv, Ledger, VolumesExact, NEW i \in PaymentIds, NEW r \in ComplianceResult,
           submitComplianceResult(i, r)
    PROVE  PaymentsInv' /\ Ledger' /\ VolumesExact'
<1> DEFINE p == payments[i]
           new == [p EXCEPT !.status = Verdict(r)]
<1>1. /\ payments \in [PaymentIds -> Payment] /\ p \in Payment /\ p.status = "PENDING"
      /\ complianceResults \in [PaymentIds -> ComplianceResult]
    BY DEF PaymentsInv, TypeOK, submitComplianceResult
<1>2. Verdict(r) \in {"PASSED", "FLAGGED", "BLOCKED"}
    BY DEF Verdict
<1>3. /\ payments' = [payments EXCEPT ![i] = new]
      /\ complianceResults' = [complianceResults EXCEPT ![i] = r]
      /\ UNCHANGED <<registryVars, gateVars, paymentFees, settlementRecoveryRequests,
                     volumeVars, configVars, tokenVars>>
    BY <1>1 DEF submitComplianceResult
<1>4. /\ new \in Payment /\ new.status = Verdict(r) /\ new.sender = p.sender
      /\ new.recipient = p.recipient /\ new.token = p.token /\ new.amount = p.amount
      /\ new.created = p.created
    BY <1>1, <1>2 DEF Payment, Status
<1> HIDE DEF new
<1>5. /\ payments' \in [PaymentIds -> Payment] /\ payments'[i] = new
      /\ \A j \in PaymentIds \ {i} : /\ payments'[j] = payments[j]
                                     /\ complianceResults'[j] = complianceResults[j]
      /\ complianceResults'[i] = r
    BY <1>1, <1>3, <1>4
<1>6. TypeOK'
    BY <1>1, <1>3, <1>5 DEF PaymentsInv, TypeOK, volumeVars, configVars, tokenVars
<1>7. PaymentsSound'
  <2> SUFFICES ASSUME NEW j \in PaymentIds
               PROVE  /\ payments'[j].status = "NONE" => payments'[j].sender = None
                      /\ payments'[j].status # "NONE" =>
                            /\ payments'[j].sender \in Businesses
                            /\ payments'[j].recipient \in Wallets
                            /\ payments'[j].token \in Tokens
                            /\ paymentFees[j] <= payments'[j].amount
                      /\ payments'[j].status \in {"PASSED", "FLAGGED", "BLOCKED"} =>
                            payments'[j].status = Verdict(complianceResults'[j])
      BY <1>3 DEF PaymentsSound, Verdict
  <2>1. CASE j = i
      BY <1>1, <1>2, <1>4, <1>5, <2>1 DEF PaymentsInv, PaymentsSound
  <2>2. CASE j # i
      BY <1>5, <2>2 DEF PaymentsInv, PaymentsSound
  <2> QED BY <2>1, <2>2
<1>8. \A j \in PaymentIds :
          /\ payments'[j].sender = payments[j].sender
          /\ payments'[j].recipient = payments[j].recipient
          /\ payments'[j].token = payments[j].token /\ payments'[j].amount = payments[j].amount
          /\ payments'[j].created = payments[j].created
          /\ payments'[j].status \in InEscrow <=> payments[j].status \in InEscrow
          /\ payments'[j].status = "SETTLED" <=> payments[j].status = "SETTLED"
    BY <1>1, <1>2, <1>4, <1>5 DEF InEscrow
<1>9. Ledger'
  <2>1. amountOf' = amountOf /\ netOf' = netOf
      BY <1>3, <1>8 DEF amountOf, netOf
  <2>2. ASSUME NEW t \in Tokens
        PROVE  /\ In(InEscrow, t)' = In(InEscrow, t) /\ In({"SETTLED"}, t)' = In({"SETTLED"}, t)
               /\ \A w \in Wallets : SentBy(w, t)' = SentBy(w, t) /\ PaidTo(w, t)' = PaidTo(w, t)
      BY <1>8 DEF In, SentBy, PaidTo
  <2> QED BY <1>3, <2>1, <2>2 DEF Ledger, Held, Fees, Sent, Paid, Treasured, tokenVars
<1>10. VolumesExact'
  <2>1. \A b, ages : Volume(b, ages)' = Volume(b, ages)
      BY <1>8, VolumesStay
  <2> QED BY <1>3, <2>1 DEF VolumesExact, getBusinessTier, volumeVars, registryVars
<1> QED BY <1>6, <1>7, <1>9, <1>10 DEF PaymentsInv

LEMMA RequestInv ==
    ASSUME PaymentsInv, Ledger, VolumesExact, NEW i \in PaymentIds, requestSettlementRecovery(i)
    PROVE  PaymentsInv' /\ Ledger' /\ VolumesExact'
<1>1. /\ settlementRecoveryRequests' = [settlementRecoveryRequests EXCEPT ![i] = 0]
      /\ UNCHANGED <<registryVars, gateVars, payments, paymentFees, complianceResults,
                     volumeVars, configVars, tokenVars>>
    BY DEF requestSettlementRecovery
<1>2. TypeOK'
    BY <1>1 DEF PaymentsInv, TypeOK, volumeVars, configVars, tokenVars
<1>3. PaymentsSound'
    BY <1>1, QuietSound DEF PaymentsInv
<1>4. Ledger'
    BY <1>1, QuietLedger DEF tokenVars
<1>5. VolumesExact'
  <2>1. \A b, ages : Volume(b, ages)' = Volume(b, ages)
      BY <1>1, VolumesStay
  <2> QED BY <1>1, <2>1 DEF VolumesExact, getBusinessTier, volumeVars, registryVars
<1> QED BY <1>2, <1>3, <1>4, <1>5 DEF PaymentsInv

LEMMA TickPayments ==
    ASSUME RegistryInv, PaymentsInv, Ledger, VolumesExact, Tick
    PROVE  PaymentsInv' /\ Ledger' /\ VolumesExact'
<1> DEFINE newMonth == dayOfMonth + 1 = DaysPerMonth
<1>1. /\ payments \in [PaymentIds -> Payment] /\ dayOfMonth \in 0 .. DaysPerMonth - 1
      /\ settlementRecoveryRequests \in [PaymentIds -> Nat \cup {NoRequest}]
      /\ dailyVolume \in [Businesses -> Nat] /\ monthlyVolume \in [Businesses -> Nat]
    BY DEF PaymentsInv, TypeOK
<1>2. /\ dayOfMonth' = (dayOfMonth + 1) % DaysPerMonth
      /\ dailyVolume' = [b \in Businesses |-> 0]
      /\ monthlyVolume' = [b \in Businesses |-> IF newMonth THEN 0 ELSE monthlyVolume[b]]
      /\ payments' = [i \in PaymentIds |-> [payments[i] EXCEPT !.created = Older(@, newMonth)]]
      /\ UNCHANGED <<gateVars, paymentFees, complianceResults, configVars, tokenVars>>
    BY DEF Tick
<1>3. \A age \in Age : Older(age, newMonth) \in Age
    BY DEF Older, Age
<1>4. \A i \in PaymentIds :
          /\ payments'[i] \in Payment
          /\ payments'[i].sender = payments[i].sender
          /\ payments'[i].recipient = payments[i].recipient
          /\ payments'[i].token = payments[i].token /\ payments'[i].amount = payments[i].amount
          /\ payments'[i].status = payments[i].status
          /\ payments'[i].created = Older(payments[i].created, newMonth)
    BY <1>1, <1>2, <1>3 DEF Payment
<1> HIDE DEF newMonth
<1>5. TypeOK'
  <2>1. payments' \in [PaymentIds -> Payment]
      BY <1>2, <1>4
  <2>2. dayOfMonth' \in 0 .. DaysPerMonth - 1
      BY <1>1, <1>2, NoblePayAssumption
  <2>3. dailyVolume' \in [Businesses -> Nat] /\ monthlyVolume' \in [Businesses -> Nat]
      BY <1>1, <1>2
  <2>4. settlementRecoveryRequests' \in [PaymentIds -> Nat \cup {NoRequest}]
    <3>1. /\ settlementRecoveryRequests' = [i \in PaymentIds |->
                LET age == settlementRecoveryRequests[i] IN
                IF age = NoRequest THEN NoRequest
                ELSE IF age < MaxRequestAge THEN age + 1 ELSE MaxRequestAge]
          /\ MaxRequestAge \in Nat
        BY NoblePayAssumption DEF Tick, MaxRequestAge
    <3> QED BY <1>1, <3>1
  <2> QED BY <1>2, <2>1, <2>2, <2>3, <2>4 DEF PaymentsInv, TypeOK, configVars, tokenVars
<1>6. PaymentsSound'
    BY <1>2, <1>4 DEF PaymentsInv, PaymentsSound, Verdict
<1>7. Ledger'
  <2>1. amountOf' = amountOf /\ netOf' = netOf
      BY <1>2, <1>4 DEF amountOf, netOf
  <2>2. ASSUME NEW t \in Tokens
        PROVE  /\ In(InEscrow, t)' = In(InEscrow, t) /\ In({"SETTLED"}, t)' = In({"SETTLED"}, t)
               /\ \A w \in Wallets : SentBy(w, t)' = SentBy(w, t) /\ PaidTo(w, t)' = PaidTo(w, t)
      BY <1>4 DEF In, SentBy, PaidTo
  <2> QED BY <1>2, <2>1, <2>2 DEF Ledger, Held, Fees, Sent, Paid, Treasured, tokenVars
<1>8. VolumesExact'
  <2>1. \A b \in Businesses :
            businesses'[b].tier = businesses[b].tier /\ businesses[b].tier \in Tiers
      BY DEF Tick, AgeVerifications, RegistryInv, RegistryTypeOK, Business
  <2> SUFFICES ASSUME NEW b \in Businesses
               PROVE  /\ dailyVolume'[b] = Volume(b, {"today"})'
                      /\ monthlyVolume'[b] = Volume(b, {"today", "this month"})'
                      /\ dailyVolume'[b] <= DailyLimit[businesses[b].tier]
                      /\ monthlyVolume'[b] <= MonthlyLimit[businesses[b].tier]
      BY <2>1 DEF VolumesExact, getBusinessTier
  <2> DEFINE daily == DailyLimit[businesses[b].tier]
             monthly == MonthlyLimit[businesses[b].tier]
  <2>2. daily \in Nat /\ monthly \in Nat
      BY <2>1, NoblePayAssumption
  <2> HIDE DEF daily, monthly
  <2>3. dailyVolume'[b] = 0 /\ dailyVolume'[b] <= daily
      BY <1>2, <2>2
  <2>4. Volume(b, {"today"})' = 0
    <3>1. CreatedBy(b, {"today"})' = {}
        BY <1>4 DEF CreatedBy, Older
    <3> QED BY <3>1, SumEmpty DEF Volume
  <2>5. CASE newMonth
    <3>1. CreatedBy(b, {"today", "this month"})' = {}
        BY <1>4, <2>5 DEF CreatedBy, Older
    <3>2. Volume(b, {"today", "this month"})' = 0
        BY <3>1, SumEmpty DEF Volume
    <3>3. monthlyVolume'[b] = 0 /\ monthlyVolume'[b] <= monthly
        BY <1>2, <2>2, <2>5
    <3> QED BY <2>3, <2>4, <3>2, <3>3 DEF daily, monthly
  <2>6. CASE ~newMonth
    <3>1. Volume(b, {"today", "this month"})' = Volume(b, {"today", "this month"})
      <4>1. \A j \in PaymentIds : payments[j].created \in Age
          BY <1>1 DEF Payment
      <4>2. \A j \in PaymentIds : payments'[j].created \in {"today", "this month"}
                                    <=> payments[j].created \in {"today", "this month"}
          BY <1>4, <2>6, <4>1 DEF Older, Age
      <4> QED BY <1>4, <4>2, VolumesStay
    <3>2. monthlyVolume'[b] = monthlyVolume[b]
        BY <1>2, <2>6
    <3>3. monthlyVolume[b] = Volume(b, {"today", "this month"})
        BY DEF VolumesExact
    <3>4. monthlyVolume[b] <= monthly
        BY DEF VolumesExact, getBusinessTier, monthly
    <3> QED BY <2>3, <2>4, <3>1, <3>2, <3>3, <3>4 DEF daily, monthly
  <2> QED BY <2>5, <2>6
<1> QED BY <1>5, <1>6, <1>7, <1>8 DEF PaymentsInv

(***************************************************************************)
(* The two contracts NoblePay reads take no step of their own here that    *)
(* they could not take alone.                                              *)
(***************************************************************************)
LEMMA PermissionsStep ==
    ASSUME RegistryInv, Next
    PROVE  Tick \/ [RegistryNext]_registryVars
<1>2. CASE Registry
    BY <1>2 DEF Registry, RegistryNext
<1>3. CASE UNCHANGED registryVars
    BY <1>3
<1>4. ASSUME ~Tick, ~Registry PROVE UNCHANGED registryVars
    BY <1>4 DEF Next, Initiate, Handle, Screen, Govern, Gate, IssuerChanges, initiatePayment,
        initiatePaymentBatch, submitComplianceResult, settlePayment, cancelPayment,
        refundPayment, Return, Conclude, requestSettlementRecovery, executeSettlementRecovery,
        configureTrust, SetPaused, setSupportedToken, setFees, setTreasury
<1> QED BY <1>2, <1>3, <1>4

LEMMA GateStep ==
    ASSUME Next
    PROVE  [GateCall]_gateVars
<1>1. CASE Gate
    BY <1>1 DEF Gate
<1>2. ASSUME ~Gate PROVE UNCHANGED gateVars
    BY <1>2 DEF Next, Initiate, Handle, Screen, Govern, Registry, IssuerChanges, Tick,
        initiatePayment, initiatePaymentBatch, submitComplianceResult, settlePayment,
        cancelPayment, refundPayment, Return, Conclude, requestSettlementRecovery,
        executeSettlementRecovery, configureTrust, SetPaused, setSupportedToken, setFees,
        setTreasury
<1> QED BY <1>1, <1>2

(***************************************************************************)
(* The invariant.                                                          *)
(***************************************************************************)
LEMMA InitInv == Init => Inv
<1> SUFFICES ASSUME Init PROVE Inv
    OBVIOUS
<1>1. RegistryInv /\ GateInv
    BY RegistryInitInv, GateInitInv DEF Init
<1>2. /\ NoPayment \in Payment /\ NoPayment.status = "NONE" /\ NoPayment.sender = None
      /\ NoPayment.amount = 0 /\ NoResult \in ComplianceResult
    BY DEF NoPayment, NoResult, Payment, ComplianceResult, Status, Age
<1>3. \A i \in PaymentIds : payments[i] = NoPayment /\ paymentFees[i] = 0
    BY DEF Init
<1>4. TypeOK
  <2>1. balanceOf \in [Tokens -> [Holders -> Nat]]
      BY NoblePayAssumption DEF Init
  <2>2. dayOfMonth \in 0 .. DaysPerMonth - 1
      BY NoblePayAssumption DEF Init
  <2>3. baseFee \in Nat /\ percentageFee \in 0 .. MAX_PERCENTAGE_FEE /\ treasury \in Treasuries
      BY NoblePayAssumption DEF Init
  <2> QED BY <1>2, <2>1, <2>2, <2>3 DEF Init, TypeOK
<1>5. PaymentsSound
    BY <1>2, <1>3 DEF PaymentsSound
<1>6. Ledger
  <2> SUFFICES ASSUME NEW t \in Tokens
               PROVE  /\ balanceOf[t][Vault] = Held(t) /\ Treasured(t) = Fees(t)
                      /\ \A w \in Wallets :
                            balanceOf[t][w] = InitialFunds - Sent(w, t) + Paid(w, t)
      BY DEF Ledger
  <2>1. /\ In(InEscrow, t) = {} /\ In({"SETTLED"}, t) = {}
        /\ \A w \in Wallets : SentBy(w, t) = {} /\ PaidTo(w, t) = {}
      BY <1>2, <1>3 DEF In, SentBy, PaidTo, InEscrow
  <2>2. /\ Held(t) = 0 /\ Fees(t) = 0
        /\ \A w \in Wallets : Sent(w, t) = 0 /\ Paid(w, t) = 0
      BY <2>1, SumEmpty DEF Held, Fees, Sent, Paid
  <2>3. balanceOf[t] = [x \in Holders |-> IF x \in Wallets THEN InitialFunds ELSE 0]
      BY DEF Init
  <2>4. Treasured(t) = 0
    <3>1. \A x \in Treasuries : balanceOf[t][x] = 0
        BY <2>3, Parties
    <3> QED BY <3>1, NoblePayAssumption, SumZero DEF Treasured
  <2>5. InitialFunds \in Nat
      BY NoblePayAssumption
  <2> QED BY <2>2, <2>3, <2>4, <2>5, Parties
<1>7. VolumesExact
  <2> SUFFICES ASSUME NEW b \in Businesses
               PROVE  /\ dailyVolume[b] = Volume(b, {"today"})
                      /\ monthlyVolume[b] = Volume(b, {"today", "this month"})
                      /\ dailyVolume[b] <= DailyLimit[businesses[b].tier]
                      /\ monthlyVolume[b] <= MonthlyLimit[businesses[b].tier]
      BY DEF VolumesExact, getBusinessTier
  <2>1. dailyVolume[b] = 0 /\ monthlyVolume[b] = 0
      BY DEF Init
  <2>2. \A ages : CreatedBy(b, ages) = {}
      BY <1>2, <1>3, Parties DEF CreatedBy
  <2>3. Volume(b, {"today"}) = 0 /\ Volume(b, {"today", "this month"}) = 0
      BY <2>2, SumEmpty DEF Volume
  <2>4. businesses[b].tier \in Tiers
      BY <1>1 DEF RegistryInv, RegistryTypeOK, Business
  <2>5. DailyLimit[businesses[b].tier] \in Nat /\ MonthlyLimit[businesses[b].tier] \in Nat
      BY <2>4, NoblePayAssumption
  <2>6. dailyVolume[b] <= DailyLimit[businesses[b].tier]
      BY <2>1, <2>5
  <2>7. monthlyVolume[b] <= MonthlyLimit[businesses[b].tier]
      BY <2>1, <2>5
  <2> QED BY <2>1, <2>3, <2>6, <2>7
<1> QED BY <1>1, <1>4, <1>5, <1>6, <1>7 DEF Inv, PaymentsInv

\* Governance, the issuers and the two permission contracts move no money.
LEMMA QuietInv ==
    ASSUME Inv, Quiet, RegistryInv', GateInv', [RegistryNext]_registryVars,
           UNCHANGED <<settlementRecoveryRequests, dayOfMonth>>,
           supportedTokens' \subseteq Tokens, trustConfigured' \in BOOLEAN, paused' \in BOOLEAN,
           baseFee' \in Nat, percentageFee' \in 0 .. MAX_PERCENTAGE_FEE,
           treasury' \in Treasuries, blocked' \subseteq Wallets \cup Treasuries
    PROVE  Inv'
<1>1. TypeOK'
    BY DEF Inv, PaymentsInv, TypeOK, Quiet
<1>2. PaymentsSound'
    BY QuietSound DEF Inv, PaymentsInv, Quiet
<1>3. Ledger'
    BY QuietLedger DEF Inv, Quiet
<1>4. VolumesExact'
    BY QuietVolumes DEF Inv, PaymentsInv, Quiet
<1> QED BY <1>1, <1>2, <1>3, <1>4 DEF Inv, PaymentsInv

LEMMA MoneyInv ==
    ASSUME Inv, NEW i \in PaymentIds,
           \/ settlePayment(i) \/ cancelPayment(i) \/ executeSettlementRecovery(i)
           \/ \E officer \in BOOLEAN : refundPayment(i, officer)
    PROVE  PaymentsInv' /\ Ledger' /\ VolumesExact'
<1>1. CASE settlePayment(i)
  <2>1. Leaves(i, "SETTLED", payments[i].recipient, payments[i].amount - paymentFees[i],
               treasury, paymentFees[i])
      BY <1>1 DEF settlePayment, Leaves, InEscrow
  <2> QED BY <2>1, LeavesTypes, LeavesLedger, LeavesVolumes DEF Inv
<1>2. CASE \/ cancelPayment(i) \/ executeSettlementRecovery(i)
           \/ \E officer \in BOOLEAN : refundPayment(i, officer)
  <2>1. Leaves(i, "REFUNDED", payments[i].sender, payments[i].amount, treasury, 0)
      BY <1>2 DEF cancelPayment, executeSettlementRecovery, refundPayment, Return, Leaves,
          InEscrow
  <2> QED BY <2>1, LeavesTypes, LeavesLedger, LeavesVolumes DEF Inv
<1> QED BY <1>1, <1>2

LEMMA InitiateInv == Inv /\ Initiate => PaymentsInv' /\ Ledger' /\ VolumesExact'
<1> SUFFICES ASSUME Inv, Initiate PROVE PaymentsInv' /\ Ledger' /\ VolumesExact'
    OBVIOUS
<1>1. PICK b \in Businesses :
          \/ \E r \in Wallets, a \in Amounts, t \in Tokens, i \in PaymentIds :
                initiatePayment(b, r, a, t, i)
          \/ \E order \in Orders : initiatePaymentBatch(b, order)
    BY DEF Initiate
<1>2. \E ids \in SUBSET PaymentIds : \E total, paidIn : Initiates(b, ids, total, paidIn)
  <2>1. ASSUME NEW r \in Wallets, NEW a \in Amounts, NEW t \in Tokens, NEW i \in PaymentIds,
               initiatePayment(b, r, a, t, i)
        PROVE  \E ids \in SUBSET PaymentIds : \E total, paidIn : Initiates(b, ids, total, paidIn)
    <3>1. Initiates(b, {i}, a, [u \in Tokens |-> IF u = t THEN a ELSE 0])
        BY <2>1, initiatePaymentInitiates DEF Inv
    <3> QED BY <3>1
  <2>2. ASSUME NEW order \in Orders, initiatePaymentBatch(b, order)
        PROVE  \E ids \in SUBSET PaymentIds : \E total, paidIn : Initiates(b, ids, total, paidIn)
    <3> DEFINE sum(S) == SumFunctionOnSet([i \in DOMAIN order |-> order[i].amount], S)
    <3>1. Initiates(b, DOMAIN order, sum(DOMAIN order),
                    [t \in Tokens |-> sum({i \in DOMAIN order : order[i].token = t})])
        BY <2>2, initiatePaymentBatchInitiates DEF Inv
    <3>2. DOMAIN order \in SUBSET PaymentIds
        BY DEF Orders
    <3> HIDE DEF sum
    <3> QED BY <3>1, <3>2
  <2> QED BY <1>1, <2>1, <2>2
<1>3. PICK ids \in SUBSET PaymentIds : \E total, paidIn : Initiates(b, ids, total, paidIn)
    BY <1>2
<1>4. PICK total, paidIn : Initiates(b, ids, total, paidIn)
    BY <1>3
<1> QED BY <1>4, InitiatesTypes, InitiatesLedger, InitiatesVolumes DEF Inv

LEMMA StepInv == Inv /\ [Next]_vars => Inv'
<1> SUFFICES ASSUME Inv, [Next]_vars PROVE Inv'
    OBVIOUS
<1>0. /\ supportedTokens \subseteq Tokens /\ trustConfigured \in BOOLEAN /\ paused \in BOOLEAN
      /\ baseFee \in Nat /\ percentageFee \in 0 .. MAX_PERCENTAGE_FEE
      /\ treasury \in Treasuries /\ blocked \subseteq Wallets \cup Treasuries
    BY DEF Inv, PaymentsInv, TypeOK
<1>1. CASE UNCHANGED vars
  <2>1. /\ UNCHANGED registryVars /\ UNCHANGED gateVars
        /\ Quiet /\ UNCHANGED <<settlementRecoveryRequests, dayOfMonth>>
        /\ UNCHANGED <<supportedTokens, trustConfigured, paused, baseFee, percentageFee, treasury,
                       blocked>>
      BY <1>1 DEF vars, payVars, volumeVars, configVars, tokenVars, Quiet
  <2>2. RegistryInv' /\ GateInv'
      BY <2>1, RegistryStepInv, GateStepInv DEF Inv
  <2> QED BY <1>0, <2>1, <2>2, QuietInv
<1>2. CASE Next
  <2>1. RegistryInv' /\ GateInv'
    <3>1. CASE Tick
      <4>1. GateInv'
          BY <1>2, GateStep, GateStepInv DEF Inv
      <4> QED BY <3>1, <4>1, TickInv DEF Inv, Tick
    <3>2. CASE [RegistryNext]_registryVars
        BY <1>2, <3>2, GateStep, GateStepInv, RegistryStepInv DEF Inv
    <3> QED BY <1>2, <3>1, <3>2, PermissionsStep DEF Inv
  <2>2. CASE Initiate
      BY <2>1, <2>2, InitiateInv DEF Inv
  <2>3. CASE \E i \in PaymentIds : Handle(i)
    <3>1. PICK i \in PaymentIds : Handle(i)
        BY <2>3
    <3>2. CASE Screen(i)
      <4>1. PICK r \in [sanctionsClear: BOOLEAN, amlRiskScore: RiskScores,
                        travelRuleCompliant: BOOLEAN] : submitComplianceResult(i, r)
          BY <3>2 DEF Screen
      <4>2. r \in ComplianceResult
          BY NoblePayAssumption DEF ComplianceResult
      <4> QED BY <2>1, <4>1, <4>2, ScreenInv DEF Inv
    <3>3. CASE requestSettlementRecovery(i)
        BY <2>1, <3>3, RequestInv DEF Inv
    <3>4. CASE \/ settlePayment(i) \/ cancelPayment(i) \/ executeSettlementRecovery(i)
               \/ \E officer \in BOOLEAN : refundPayment(i, officer)
        BY <2>1, <3>4, MoneyInv DEF Inv
    <3> QED BY <3>1, <3>2, <3>3, <3>4 DEF Handle
  <2>4. CASE Govern
    <3>1. /\ Quiet /\ UNCHANGED <<settlementRecoveryRequests, dayOfMonth, blocked>>
          /\ [RegistryNext]_registryVars
        BY <2>4 DEF Govern, configureTrust, SetPaused, setSupportedToken, setFees, setTreasury,
            Quiet, payVars, volumeVars, tokenVars
    <3>2. /\ supportedTokens' \subseteq Tokens /\ trustConfigured' \in BOOLEAN
          /\ paused' \in BOOLEAN /\ baseFee' \in Nat /\ treasury' \in Treasuries
        BY <1>0, <2>4, NoblePayAssumption DEF Govern, configureTrust, SetPaused,
            setSupportedToken, setFees, setTreasury
    <3>3. percentageFee' \in 0 .. MAX_PERCENTAGE_FEE
        BY <1>0, <2>4, NoblePayAssumption DEF Govern, configureTrust, SetPaused,
            setSupportedToken, setFees, setTreasury
    <3> QED BY <1>0, <2>1, <3>1, <3>2, <3>3, QuietInv
  <2>5. CASE Registry
    <3>1. /\ Quiet /\ UNCHANGED <<settlementRecoveryRequests, dayOfMonth>>
          /\ UNCHANGED <<supportedTokens, trustConfigured, paused, baseFee, percentageFee,
                         treasury, blocked>>
          /\ [RegistryNext]_registryVars
        BY <2>5 DEF Registry, RegistryNext, Quiet, payVars, volumeVars, configVars, tokenVars
    <3> QED BY <1>0, <2>1, <3>1, QuietInv
  <2>6. CASE Gate
    <3>1. /\ Quiet /\ UNCHANGED <<settlementRecoveryRequests, dayOfMonth>>
          /\ UNCHANGED <<supportedTokens, trustConfigured, paused, baseFee, percentageFee,
                         treasury, blocked>>
          /\ [RegistryNext]_registryVars
        BY <2>6 DEF Gate, Quiet, payVars, volumeVars, configVars, tokenVars
    <3> QED BY <1>0, <2>1, <3>1, QuietInv
  <2>7. CASE IssuerChanges
    <3>1. /\ Quiet /\ UNCHANGED <<settlementRecoveryRequests, dayOfMonth>>
          /\ UNCHANGED <<supportedTokens, trustConfigured, paused, baseFee, percentageFee,
                         treasury>>
          /\ [RegistryNext]_registryVars /\ blocked' \subseteq Wallets \cup Treasuries
        BY <2>7, NoblePayAssumption DEF IssuerChanges, Quiet, payVars, volumeVars, configVars
    <3> QED BY <1>0, <2>1, <3>1, QuietInv
  <2>8. CASE Tick
      BY <2>1, <2>8, TickPayments DEF Inv
  <2> QED BY <1>2, <2>2, <2>3, <2>4, <2>5, <2>6, <2>7, <2>8 DEF Next
<1> QED BY <1>1, <1>2

LEMMA Invariance == Spec => []Inv
<1> QED BY InitInv, StepInv, PTL DEF Spec

(***************************************************************************)
(* The theorems.                                                           *)
(***************************************************************************)
\* NoblePay's storage and the token ledger keep their types: no escrow is ever
\* paid out of tokens the contract does not hold.
THEOREM PaymentTypes == Spec => []TypeOK
<1>1. Inv => TypeOK
    BY DEF Inv, PaymentsInv
<1> QED BY <1>1, Invariance, PTL

\* Conservation of value, to the unit, for every token, fee schedule, treasury
\* and interleaving: what the contract, the treasuries and every wallet hold is
\* what the payment records say (initiatePayment to executeSettlementRecovery,
\* lines 351-703 of NoblePay.sol).
THEOREM EveryUnitExplained == Spec => []LedgerExplained
<1>1. Inv => LedgerExplained
    BY DEF Inv, Ledger, LedgerExplained, Held, Fees, Sent, Paid, Treasured
<1> QED BY <1>1, Invariance, PTL

\* The volume a business initiated in a day or a month, alone or in batches, is
\* within the limits of the tier it has now (_enforceVolumeLimits, lines 828-851
\* of NoblePay.sol).
THEOREM LimitsHold == Spec => []VolumeWithinLimits
<1>1. Inv => VolumeWithinLimits
  <2> SUFFICES ASSUME Inv, NEW b \in Businesses
               PROVE  /\ Volume(b, {"today"}) <= DailyLimit[getBusinessTier(b)]
                      /\ Volume(b, {"today", "this month"}) <= MonthlyLimit[getBusinessTier(b)]
      BY DEF VolumeWithinLimits, Volume
  <2> QED BY DEF Inv, VolumesExact
<1> QED BY <1>1, Invariance, PTL

\* What the two contracts promise alone they keep when NoblePay reads them.
THEOREM PermissionsHold == Spec => [](IndexesExact /\ SealCarriesOneCorridor)
<1>1. Inv => IndexesExact /\ SealCarriesOneCorridor
    BY DEF Inv, RegistryInv, IndexesExact, GateInv, UsedIsSpent, SealCarriesOneCorridor
<1> QED BY <1>1, Invariance, PTL

(***************************************************************************)
(* How a payment may end.                                                  *)
(***************************************************************************)
EndsJustified(i) ==
    LET old == payments[i]
        new == payments'[i]
        open == requireCleared(old.sender, old.recipient) /\ ~paused
    IN  /\ new.status = "SETTLED" /\ old.status # "SETTLED" =>
              /\ old.status = "PASSED" /\ Clean(i)
              /\ isBusinessActive(old.sender) /\ open
        /\ new.status = "REFUNDED" /\ old.status # "REFUNDED" /\ old.status # "PENDING"
              => ~Clean(i) \/ ~isBusinessActive(old.sender) \/ ~open
        /\ old.status \in {"SETTLED", "REFUNDED"} => new.status = old.status
        /\ old.status \in {"PASSED", "FLAGGED", "BLOCKED"} =>
              new.status \in {old.status, "SETTLED", "REFUNDED"}

Justified == \A i \in PaymentIds : EndsJustified(i)

\* A recorded verdict is that of the result on record, so a payment that is not
\* PASSED has no clean result and a PASSED one has.
LEMMA HandleJustified ==
    ASSUME Inv, NEW i \in PaymentIds, Handle(i)
    PROVE  EndsJustified(i)
<1> DEFINE p == payments[i]
<1>0. /\ p.status \in {"PASSED", "FLAGGED", "BLOCKED"} =>
            p.status = Verdict(complianceResults[i])
      /\ p \in Payment
    BY DEF Inv, PaymentsInv, PaymentsSound, TypeOK
<1>1. CASE Screen(i)
  <2>1. PICK r : submitComplianceResult(i, r)
      BY <1>1 DEF Screen
  <2>2. p.status = "PENDING" /\ payments'[i].status = Verdict(r)
      BY <1>0, <2>1 DEF submitComplianceResult, Inv, PaymentsInv, TypeOK, Payment
  <2>3. Verdict(r) \in {"PASSED", "FLAGGED", "BLOCKED"}
      BY DEF Verdict
  <2> QED BY <2>2, <2>3 DEF EndsJustified
<1>2. CASE settlePayment(i)
  <2>1. /\ p.status = "PASSED" /\ ~paused /\ isBusinessActive(p.sender)
        /\ requireCleared(p.sender, p.recipient)
      BY <1>2 DEF settlePayment
  <2>2. payments'[i].status = "SETTLED"
      BY <1>2 DEF settlePayment, Conclude, Inv, PaymentsInv, TypeOK, Payment
  <2> QED BY <1>0, <2>1, <2>2 DEF EndsJustified, Clean
<1>3. CASE cancelPayment(i)
  <2>1. p.status = "PENDING" /\ payments'[i].status = "REFUNDED"
      BY <1>3 DEF cancelPayment, Return, Conclude, Inv, PaymentsInv, TypeOK, Payment
  <2> QED BY <2>1 DEF EndsJustified
<1>4. CASE \E officer \in BOOLEAN : refundPayment(i, officer)
  <2>1. /\ \/ p.status \in {"BLOCKED", "FLAGGED"}
           \/ p.status = "PASSED" /\ ~isBusinessActive(p.sender)
        /\ payments'[i].status = "REFUNDED"
      BY <1>4 DEF refundPayment, Return, Conclude, Inv, PaymentsInv, TypeOK, Payment
  <2>2. p.status \in {"BLOCKED", "FLAGGED"} => ~Clean(i)
      BY <1>0 DEF Clean
  <2> QED BY <2>1, <2>2 DEF EndsJustified
<1>5. CASE requestSettlementRecovery(i)
  <2>1. payments' = payments
      BY <1>5 DEF requestSettlementRecovery
  <2> QED BY <2>1 DEF EndsJustified
<1>6. CASE executeSettlementRecovery(i)
  <2>1. /\ p.status = "PASSED" /\ payments'[i].status = "REFUNDED"
        /\ ~ (~paused /\ requireCleared(p.sender, p.recipient))
      BY <1>6 DEF executeSettlementRecovery, _settlementAvailable, _settlementGateAllows,
          Return, Conclude, Inv, PaymentsInv, TypeOK, Payment
  <2> QED BY <2>1 DEF EndsJustified
<1> QED BY <1>1, <1>2, <1>3, <1>4, <1>5, <1>6 DEF Handle

LEMMA StepIsJustified == Inv /\ [Next]_vars => Justified
<1> SUFFICES ASSUME Inv, [Next]_vars, NEW i \in PaymentIds PROVE EndsJustified(i)
    BY DEF Justified
<1>1. payments'[i].status = payments[i].status => EndsJustified(i)
    BY DEF EndsJustified
<1>2. CASE Initiate
  <2>1. PICK b \in Businesses :
            \/ \E r \in Wallets, a \in Amounts, t \in Tokens, j \in PaymentIds :
                  initiatePayment(b, r, a, t, j)
            \/ \E order \in Orders : initiatePaymentBatch(b, order)
      BY <1>2 DEF Initiate
  <2>2. \/ payments'[i] = payments[i]
        \/ payments[i].status = "NONE" /\ payments'[i].status = "PENDING"
    <3>1. ASSUME NEW r \in Wallets, NEW a \in Amounts, NEW t \in Tokens, NEW j \in PaymentIds,
                 initiatePayment(b, r, a, t, j)
          PROVE  \/ payments'[i] = payments[i]
                 \/ payments[i].status = "NONE" /\ payments'[i].status = "PENDING"
        BY <3>1 DEF initiatePayment, NewPayment, Inv, PaymentsInv, TypeOK
    <3>2. ASSUME NEW order \in Orders, initiatePaymentBatch(b, order)
          PROVE  \/ payments'[i] = payments[i]
                 \/ payments[i].status = "NONE" /\ payments'[i].status = "PENDING"
      <4>1. /\ payments'[i] = IF i \in DOMAIN order
                              THEN NewPayment(b, order[i].recipient, order[i].amount,
                                              order[i].token)
                              ELSE payments[i]
            /\ i \in DOMAIN order => payments[i].status = "NONE"
          BY <3>2 DEF initiatePaymentBatch
      <4> QED BY <4>1 DEF NewPayment
    <3> QED BY <2>1, <3>1, <3>2
  <2> QED BY <2>2 DEF EndsJustified
<1>3. CASE \E j \in PaymentIds : Handle(j)
  <2>1. PICK j \in PaymentIds : Handle(j)
      BY <1>3
  <2>2. i # j => payments'[i] = payments[i]
      BY <2>1 DEF Handle, Screen, submitComplianceResult, settlePayment, cancelPayment,
          refundPayment, requestSettlementRecovery, executeSettlementRecovery, Return,
          Conclude, Inv, PaymentsInv, TypeOK
  <2> QED BY <1>1, <2>1, <2>2, HandleJustified
<1>4. CASE Govern \/ Registry \/ Gate \/ IssuerChanges \/ UNCHANGED vars
  <2>1. payments' = payments
      BY <1>4 DEF Govern, configureTrust, SetPaused, setSupportedToken, setFees, setTreasury,
          Registry, Gate, IssuerChanges, vars, payVars
  <2> QED BY <1>1, <2>1
<1>5. CASE Tick
  <2>1. payments'[i].status = payments[i].status
      BY <1>5 DEF Tick, Inv, PaymentsInv, TypeOK, Payment
  <2> QED BY <1>1, <2>1
<1> QED BY <1>2, <1>3, <1>4, <1>5 DEF Next

\* Money leaves escrow only as the screening and the live registry and gate
\* allow at that moment, and once only, in every interleaving of the calls with
\* suspensions, expiries, revocations and pauses (settlePayment,
\* refundPayment, cancelPayment and the recovery, lines 480-703 of
\* NoblePay.sol).
THEOREM EscrowLeavesJustified == Spec => OutcomeJustified
<1>1. Inv /\ [Next]_vars => [Justified]_vars
    BY StepIsJustified
<1> QED BY <1>1, Invariance, PTL DEF Spec, OutcomeJustified, Justified, EndsJustified
=================================================================================
