------------------------ MODULE PaymentChannelsProofs ------------------------
(***************************************************************************)
(* Proofs about PaymentChannels, for every value of its constants.         *)
(***************************************************************************)
EXTENDS PaymentChannels, SumTheorems

(***************************************************************************)
(* Types.                                                                  *)
(***************************************************************************)

\* The protocol fee never exceeds the amount it is taken from.
LEMMA FeeBound ==
    ASSUME TypeOK, NEW amount \in Nat
    PROVE  Fee(amount) \in 0 .. amount
<1> DEFINE r == protocolFeeBps
           D == BpsDenominator
<1>1. r \in Nat /\ D \in Nat \ {0} /\ r <= D
    BY ChannelAssumption DEF TypeOK
<1>2. amount * r \in Nat /\ amount * r <= amount * D
    BY <1>1, SMT
<1>3. (amount * r) \div D \in Int /\ D * ((amount * r) \div D) <= amount * r
       /\ (amount * r) \div D >= 0
    BY <1>1, <1>2, SMT
<1>4. (amount * r) \div D <= amount
    BY <1>1, <1>2, <1>3, SMT
<1> QED BY <1>3, <1>4 DEF Fee

LEMMA InitTyped == Init => TypeOK
<1> SUFFICES ASSUME Init PROVE TypeOK
    OBVIOUS
<1>1. NoChannel \in Channel
    BY DEF NoChannel, Channel, Zero, ChannelStatus, Sides
<1>2. NoDispute \in ChannelDispute
    BY DEF NoDispute, ChannelDispute, Zero, Sides
<1>3. NoHTLC \in HTLC
    BY DEF NoHTLC, HTLC, HTLCStatus, Sides
<1>4. /\ channels \in [Channels -> Channel]
      /\ disputes \in [Channels -> ChannelDispute]
      /\ htlcs \in [Htlcs -> HTLC]
      /\ activeHTLCLockedAmount \in [Channels -> Nat]
    BY <1>1, <1>2, <1>3 DEF Init
<1>5. balanceOf \in [Accounts -> Nat]
    BY ChannelAssumption DEF Init
<1>6. protocolFeeBps \in 0 .. MAX_PROTOCOL_FEE_BPS
    BY ChannelAssumption DEF Init
<1> QED
    BY <1>4, <1>5, <1>6, ChannelAssumption DEF Init, TypeOK

LEMMA PullTyped ==
    ASSUME TypeOK, NEW from \in Parties, NEW amount, _pullExactEscrow(from, amount)
    PROVE  balanceOf' \in [Accounts -> Nat] /\ blocked' = blocked
<1>1. from \in Accounts /\ Vault \in Accounts /\ from # Vault
    BY ChannelAssumption DEF Accounts
<1>2. balanceOf[from] \in Nat /\ amount \in Nat /\ amount <= balanceOf[from]
    BY <1>1 DEF TypeOK, _pullExactEscrow
<1> QED BY <1>1, <1>2 DEF TypeOK, _pullExactEscrow

LEMMA PayOutTyped ==
    ASSUME TypeOK, NEW a, NEW b, NEW t, NEW payA \in Nat, NEW payB \in Nat,
           NEW fee \in Nat, PayOut(a, payA, b, payB, t, fee)
    PROVE  balanceOf' \in [Accounts -> Nat] /\ blocked' = blocked
<1> DEFINE In(y) == (IF y = a THEN payA ELSE 0) + (IF y = b THEN payB ELSE 0)
                    + (IF y = t THEN fee ELSE 0)
<1>1. \A y : In(y) \in Nat
    OBVIOUS
<1>2. balanceOf' = [y \in Accounts |-> balanceOf[y] + In(y)
                            - (IF y = Vault THEN payA + payB + fee ELSE 0)]
    BY DEF PayOut
<1>3. balanceOf[Vault] >= payA + payB + fee
    BY DEF PayOut
<1> HIDE DEF In
<1>4. ASSUME NEW y \in Accounts
      PROVE  balanceOf[y] + In(y) - (IF y = Vault THEN payA + payB + fee ELSE 0) \in Nat
    BY <1>1, <1>3 DEF TypeOK
<1> QED BY <1>2, <1>4 DEF PayOut

\* What is left of a balance after the fee, and the fee, are amounts.
LEMMA NetTyped ==
    ASSUME TypeOK, NEW amount \in Nat
    PROVE  Fee(amount) \in Nat /\ amount - Fee(amount) \in Nat
BY FeeBound, Fee(amount) \in 0 .. amount

\* Writing typed fields keeps a channel typed.
LEMMA ClosingFieldsTyped ==
    ASSUME TypeOK, NEW c \in Channels, NEW bal \in [Sides -> Nat], NEW n \in Nat,
           NEW st \in ChannelStatus,
           channels' = [channels EXCEPT ![c].status = st, ![c].balance = bal, ![c].nonce = n]
    PROVE  channels' \in [Channels -> Channel]
<1>1. channels[c] \in Channel
    BY DEF TypeOK
<1>2. [channels[c] EXCEPT !.status = st, !.balance = bal, !.nonce = n] \in Channel
    BY <1>1 DEF Channel
<1>3. channels' = [channels EXCEPT ![c] =
            [channels[c] EXCEPT !.status = st, !.balance = bal, !.nonce = n]]
    BY DEF TypeOK
<1> QED BY <1>2, <1>3 DEF TypeOK

LEMMA SettleTyped ==
    ASSUME TypeOK, NEW c \in Channels, NEW bal \in [Sides -> Nat], NEW n \in Nat,
           _settleChannel(c, bal, n)
    PROVE  /\ channels' \in [Channels -> Channel]
           /\ balanceOf' \in [Accounts -> Nat] /\ blocked' = blocked
<1>1. channels' \in [Channels -> Channel]
    BY ClosingFieldsTyped DEF _settleChannel, ChannelStatus
<1>2. bal["A"] \in Nat /\ bal["B"] \in Nat
    BY DEF Sides
<1>3. /\ Fee(bal["A"]) \in Nat /\ bal["A"] - Fee(bal["A"]) \in Nat
      /\ Fee(bal["B"]) \in Nat /\ bal["B"] - Fee(bal["B"]) \in Nat
    BY <1>2, NetTyped
<1>4. Fee(bal["A"]) + Fee(bal["B"]) \in Nat
    BY <1>3
<1>5. balanceOf' \in [Accounts -> Nat] /\ blocked' = blocked
    BY <1>3, <1>4, PayOutTyped DEF _settleChannel
<1> QED BY <1>1, <1>5

\* Claiming a state keeps the records of the close typed.
LEMMA ClaimTyped ==
    ASSUME TypeOK, NEW p \in Parties, NEW c \in Channels, NEW bal \in [Sides -> Nat],
           NEW n \in Nat, Claim(p, c, bal, n)
    PROVE  TypeOK'
<1>1. channels' \in [Channels -> Channel]
    BY ClosingFieldsTyped DEF Claim, ChannelStatus
<1>2. channels[c].challengePeriod \in Nat
    BY DEF TypeOK, Channel
<1>3. [challenger |-> p, challengeNonce |-> n, challengeBalance |-> bal,
        left |-> channels[c].challengePeriod] \in ChannelDispute
    BY <1>2 DEF ChannelDispute
<1>4. disputes' \in [Channels -> ChannelDispute]
    BY <1>3 DEF Claim, TypeOK
<1> QED BY <1>1, <1>4 DEF Claim, TypeOK, tokenVars, adminVars

LEMMA SideOfTyped == \A p, c : SideOf(p, c) \in Sides /\ Other(SideOf(p, c)) \in Sides
BY DEF SideOf, Other, Sides

LEMMA BumpTyped == ASSUME NEW c, NEW e \in Nat PROVE BumpEpoch(c, e) \in Nat
BY DEF BumpEpoch

LEMMA FreshTyped ==
    ASSUME NEW p \in Parties, NEW q \in Parties, NEW amount \in Nat, NEW period \in Nat
    PROVE  FreshChannel(p, q, amount, period) \in Channel
BY DEF FreshChannel, Channel, Zero, Sides, ChannelStatus

LEMMA OpenTyped ==
    ASSUME TypeOK, NEW p \in Parties, NEW q \in Parties, NEW amount \in Deposits,
           NEW d \in ChallengePeriods, NEW c \in Channels, openChannel(p, q, amount, d, c)
    PROVE  TypeOK'
<1>1. FreshChannel(p, q, amount, d) \in Channel
    BY FreshTyped, ChannelAssumption
<1>2. channels' \in [Channels -> Channel]
    BY <1>1 DEF openChannel, TypeOK
<1>3. balanceOf' \in [Accounts -> Nat] /\ blocked' = blocked
    BY PullTyped DEF openChannel
<1> QED BY <1>2, <1>3 DEF openChannel, TypeOK, adminVars

LEMMA BatchTyped ==
    ASSUME TypeOK, NEW p \in Parties, NEW o \in Opening, NEW d \in ChallengePeriods,
           batchOpenChannels(p, o, d)
    PROVE  TypeOK'
<1>1. ASSUME NEW c \in Channels, c \in DOMAIN o
      PROVE  FreshChannel(p, o[c].partyB, o[c].amount, d) \in Channel
    <2>1. o[c] \in [partyB: Parties, amount: Deposits]
        BY <1>1 DEF Opening
    <2>2. o[c].partyB \in Parties /\ o[c].amount \in Nat
        BY <2>1, ChannelAssumption
    <2> QED BY <2>2, FreshTyped, ChannelAssumption
<1>2. channels' = [c \in Channels |->
            IF c \in DOMAIN o
            THEN FreshChannel(p, o[c].partyB, o[c].amount, d)
            ELSE channels[c]]
    BY DEF batchOpenChannels
<1>3. channels' \in [Channels -> Channel]
    BY <1>1, <1>2 DEF TypeOK
<1>4. balanceOf' \in [Accounts -> Nat] /\ blocked' = blocked
    BY PullTyped DEF batchOpenChannels
<1> QED BY <1>3, <1>4 DEF batchOpenChannels, TypeOK, adminVars

LEMMA FundTyped ==
    ASSUME TypeOK, NEW p \in Parties, NEW c \in Channels, NEW amount \in Deposits,
           fundChannel(p, c, amount)
    PROVE  TypeOK'
<1> DEFINE ch == channels[c]
           s == SideOf(p, c)
           depositB == ch.deposit["B"] + (IF s = "B" THEN amount ELSE 0)
           new == [ch EXCEPT !.deposit[s] = @ + amount, !.balance[s] = @ + amount,
                             !.stateEpoch = BumpEpoch(c, @),
                             !.status = IF @ = "FUNDED" \/ (@ = "OPEN" /\ depositB > 0)
                                        THEN "ACTIVE" ELSE @]
<1>1. ch \in Channel /\ s \in Sides /\ amount \in Nat
    BY SideOfTyped, ChannelAssumption DEF TypeOK
<1>2. BumpEpoch(c, ch.stateEpoch) \in Nat
    BY <1>1, BumpTyped DEF Channel
<1>3. new \in Channel
    <2>1. [ch.deposit EXCEPT ![s] = @ + amount] \in [Sides -> Nat]
        BY <1>1 DEF Channel
    <2>2. [ch.balance EXCEPT ![s] = @ + amount] \in [Sides -> Nat]
        BY <1>1 DEF Channel
    <2>3. new = [ch EXCEPT !.deposit = [ch.deposit EXCEPT ![s] = @ + amount],
                           !.balance = [ch.balance EXCEPT ![s] = @ + amount],
                           !.stateEpoch = BumpEpoch(c, @),
                           !.status = IF @ = "FUNDED" \/ (@ = "OPEN" /\ depositB > 0)
                                      THEN "ACTIVE" ELSE @]
        BY <1>1 DEF Channel
    <2> QED BY <1>1, <1>2, <2>1, <2>2, <2>3 DEF Channel, ChannelStatus
<1>4. channels' = [channels EXCEPT ![c] = new]
    BY DEF fundChannel, TypeOK
<1>5. channels' \in [Channels -> Channel]
    BY <1>3, <1>4 DEF TypeOK
<1>6. balanceOf' \in [Accounts -> Nat] /\ blocked' = blocked
    BY PullTyped DEF fundChannel
<1> QED BY <1>5, <1>6 DEF fundChannel, TypeOK, adminVars

LEMMA CancelTyped ==
    ASSUME TypeOK, NEW p \in Parties, NEW c \in Channels, cancelOpenChannel(p, c)
    PROVE  TypeOK'
<1>1. channels[c] \in Channel
    BY DEF TypeOK
<1>2. channels[c].balance["A"] \in Nat
    BY <1>1 DEF Channel, Sides
<1>3. channels' \in [Channels -> Channel]
    BY <1>1 DEF cancelOpenChannel, TypeOK, Channel, ChannelStatus
<1>4. balanceOf' \in [Accounts -> Nat] /\ blocked' = blocked
    BY <1>2, PayOutTyped DEF cancelOpenChannel
<1> QED BY <1>3, <1>4 DEF cancelOpenChannel, TypeOK, adminVars

LEMMA CloseTyped ==
    ASSUME TypeOK, NEW c \in Channels,
           Cooperate(c) \/ Unilateral(c) \/ CurrentState(c) \/ finalizeClose(c)
                \/ \E p \in Parties : Counter(p, c)
    PROVE  TypeOK'
<1>1. CASE Cooperate(c)
    <2>1. PICK q \in Parties, g \in signed : cooperativeClose(q, c, g.balance, g.nonce)
        BY <1>1 DEF Cooperate
    <2>2. g.balance \in [Sides -> Nat] /\ g.nonce \in Nat
        BY DEF TypeOK
    <2>3. /\ channels' \in [Channels -> Channel]
          /\ balanceOf' \in [Accounts -> Nat] /\ blocked' = blocked
        BY <2>1, <2>2, SettleTyped DEF cooperativeClose
    <2> QED BY <2>1, <2>3 DEF cooperativeClose, TypeOK, adminVars
<1>2. CASE Unilateral(c)
    <2>1. PICK q \in Parties, g \in signed : initiateUnilateralClose(q, c, g.balance, g.nonce)
        BY <1>2 DEF Unilateral
    <2>2. g.balance \in [Sides -> Nat] /\ g.nonce \in Nat
        BY DEF TypeOK
    <2> QED BY <2>1, <2>2, ClaimTyped DEF initiateUnilateralClose
<1>3. CASE CurrentState(c)
    <2>1. PICK q \in Parties : initiateCurrentStateClose(q, c)
        BY <1>3 DEF CurrentState
    <2>2. channels[c].balance \in [Sides -> Nat] /\ channels[c].nonce \in Nat
        BY DEF TypeOK, Channel
    <2> QED BY <2>1, <2>2, ClaimTyped DEF initiateCurrentStateClose
<1>4. CASE finalizeClose(c)
    <2>1. disputes[c] \in ChannelDispute
        BY DEF TypeOK
    <2>2. disputes[c].challengeBalance \in [Sides -> Nat] /\ disputes[c].challengeNonce \in Nat
        BY <2>1 DEF ChannelDispute
    <2>3. /\ channels' \in [Channels -> Channel]
          /\ balanceOf' \in [Accounts -> Nat] /\ blocked' = blocked
        BY <1>4, <2>2, SettleTyped DEF finalizeClose
    <2> QED BY <1>4, <2>3 DEF finalizeClose, TypeOK, adminVars
<1>5. CASE \E p \in Parties : Counter(p, c)
    <2>1. PICK p \in Parties, g \in signed : counterDispute(p, c, g.balance, g.nonce)
        BY <1>5 DEF Counter
    <2>2. g.balance \in [Sides -> Nat] /\ g.nonce \in Nat
        BY DEF TypeOK
    <2> QED BY <2>1, <2>2, ClaimTyped DEF counterDispute
<1> QED BY <1>1, <1>2, <1>3, <1>4, <1>5

LEMMA CreateTyped ==
    ASSUME TypeOK, NEW p \in Parties, NEW c \in Channels, NEW amount \in HtlcAmounts,
           NEW t \in Timelocks, NEW h \in Htlcs, createHTLC(p, c, amount, t, h)
    PROVE  TypeOK'
<1> DEFINE ch == channels[c]
           s == SideOf(p, c)
<1>1. ch \in Channel /\ s \in Sides /\ amount \in Nat /\ t \in Nat
    BY SideOfTyped, ChannelAssumption DEF TypeOK
<1>2. amount <= ch.balance[s]
    BY DEF createHTLC
<1>3. [ch.balance EXCEPT ![s] = @ - amount] \in [Sides -> Nat]
    BY <1>1, <1>2 DEF Channel
<1>4. BumpEpoch(c, ch.stateEpoch) \in Nat
    BY <1>1, BumpTyped DEF Channel
<1>5. [ch EXCEPT !.balance = [ch.balance EXCEPT ![s] = @ - amount],
                 !.stateEpoch = BumpEpoch(c, @)] \in Channel
    BY <1>1, <1>3, <1>4 DEF Channel
<1>6. channels' = [channels EXCEPT ![c] =
            [ch EXCEPT !.balance = [ch.balance EXCEPT ![s] = @ - amount],
                       !.stateEpoch = BumpEpoch(c, @)]]
    BY DEF createHTLC, TypeOK
<1>7. channels' \in [Channels -> Channel]
    BY <1>5, <1>6 DEF TypeOK
<1>8. [channelId |-> c, sender |-> s, amount |-> amount, left |-> t, status |-> "ACTIVE"]
            \in HTLC
    BY <1>1 DEF HTLC, HTLCStatus
<1>9. htlcs' \in [Htlcs -> HTLC]
    BY <1>8 DEF createHTLC, TypeOK
<1>10. activeHTLCLockedAmount' \in [Channels -> Nat]
    BY <1>1 DEF createHTLC, TypeOK
<1> QED BY <1>7, <1>9, <1>10 DEF createHTLC, TypeOK, tokenVars, adminVars

LEMMA ReleaseTyped ==
    ASSUME TypeOK, NEW h \in Htlcs, NEW s \in Sides, NEW outcome \in HTLCStatus,
           ReleaseHTLC(h, s, outcome)
    PROVE  TypeOK'
<1> DEFINE c == htlcs[h].channelId
           ch == channels[c]
           a == htlcs[h].amount
           new == [ch EXCEPT !.balance = [ch.balance EXCEPT ![s] = @ + a],
                             !.stateEpoch = BumpEpoch(c, @)]
<1>1. htlcs[h] \in HTLC /\ a \in Nat
    BY DEF TypeOK, HTLC
<1>2. channels' = [channels EXCEPT ![c] = new]
    BY DEF ReleaseHTLC, TypeOK
<1>3. channels' \in [Channels -> Channel]
    <2>1. CASE c \in Channels
        <3>1. ch \in Channel
            BY <2>1 DEF TypeOK
        <3>2. [ch.balance EXCEPT ![s] = @ + a] \in [Sides -> Nat]
            BY <1>1, <3>1 DEF Channel
        <3>3. BumpEpoch(c, ch.stateEpoch) \in Nat
            BY <3>1, BumpTyped DEF Channel
        <3>4. new \in Channel
            BY <3>1, <3>2, <3>3 DEF Channel
        <3> QED BY <1>2, <3>4 DEF TypeOK
    <2>2. CASE c \notin Channels
        BY <1>2, <2>2 DEF TypeOK
    <2> QED BY <2>1, <2>2
<1>4. activeHTLCLockedAmount' \in [Channels -> Nat]
    <2>1. /\ activeHTLCLockedAmount[c] >= a
          /\ activeHTLCLockedAmount' = [activeHTLCLockedAmount EXCEPT ![c] = @ - a]
        BY DEF ReleaseHTLC
    <2>2. CASE c \in Channels
        <3>1. activeHTLCLockedAmount[c] - a \in Nat
            BY <1>1, <2>1, <2>2 DEF TypeOK
        <3> QED BY <2>1, <2>2, <3>1 DEF TypeOK
    <2>3. CASE c \notin Channels
        BY <2>1, <2>3 DEF TypeOK
    <2> QED BY <2>2, <2>3
<1>5. htlcs' \in [Htlcs -> HTLC]
    <2>1. [htlcs[h] EXCEPT !.status = outcome] \in HTLC
        BY <1>1 DEF HTLC
    <2>2. htlcs' = [htlcs EXCEPT ![h] = [htlcs[h] EXCEPT !.status = outcome]]
        BY DEF ReleaseHTLC, TypeOK
    <2> QED BY <2>1, <2>2 DEF TypeOK
<1> QED BY <1>3, <1>4, <1>5 DEF ReleaseHTLC, TypeOK, tokenVars, adminVars

LEMMA SignTyped == TypeOK /\ Sign => TypeOK'
<1> SUFFICES ASSUME TypeOK, Sign PROVE TypeOK'
    OBVIOUS
<1>1. PICK p \in Parties, c \in Channels, e \in Anticipated, n \in 1 .. MaxNonce,
           type \in StateType : \E bal \in Splits(Total(c) + e) : signState(p, c, bal, n, type)
    BY DEF Sign
<1>0. PICK bal \in Splits(Total(c) + e) : signState(p, c, bal, n, type)
    BY <1>1
<1>2. channels[c] \in Channel /\ e \in Nat
    BY ChannelAssumption DEF TypeOK
<1>3. channels[c].deposit["A"] \in Nat /\ channels[c].deposit["B"] \in Nat
            /\ channels[c].stateEpoch \in Nat
    BY <1>2 DEF Channel, Sides
<1>4. Total(c) + e \in Nat
    BY <1>2, <1>3 DEF Total
<1>5. bal \in [Sides -> Nat]
    BY <1>4 DEF Splits
<1>6. n \in Nat
    BY ChannelAssumption
<1> QED BY <1>0, <1>3, <1>5, <1>6
        DEF signState, TypeOK, chanVars, tokenVars, adminVars

LEMMA TickTyped == TypeOK /\ Tick => TypeOK'
<1> SUFFICES ASSUME TypeOK, Tick PROVE TypeOK'
    OBVIOUS
<1>1. \A left \in Int : Later(left) \in Int
    BY DEF Later
<1>2. ASSUME NEW c \in Channels
      PROVE  [disputes[c] EXCEPT !.left = Later(@)] \in ChannelDispute
    <2>1. disputes[c] \in ChannelDispute
        BY DEF TypeOK
    <2> QED BY <1>1, <2>1 DEF ChannelDispute
<1>3. ASSUME NEW h \in Htlcs
      PROVE  [htlcs[h] EXCEPT !.left = Later(@)] \in HTLC
    <2>1. htlcs[h] \in HTLC
        BY DEF TypeOK
    <2> QED BY <1>1, <2>1 DEF HTLC
<1>4. disputes' \in [Channels -> ChannelDispute]
    BY <1>2 DEF Tick, TypeOK
<1>5. htlcs' \in [Htlcs -> HTLC]
    BY <1>3 DEF Tick, TypeOK
<1> QED BY <1>4, <1>5 DEF Tick, TypeOK, tokenVars, adminVars

\* The steps that touch neither a channel nor a token.
Outside == Treasury \/ SetPaused \/ setSupportedToken \/ RegistryChanges \/ IssuerChanges

LEMMA OutsideTyped == TypeOK /\ Outside => TypeOK'
<1> SUFFICES ASSUME TypeOK, Outside PROVE TypeOK'
    OBVIOUS
<1> USE ChannelAssumption DEF TypeOK, chanVars, tokenVars, adminVars
<1>1. CASE Treasury
    <2>1. ASSUME NEW t \in Treasuries, setProtocolTreasury(t) PROVE TypeOK'
        BY <2>1 DEF setProtocolTreasury
    <2>2. ASSUME NEW r \in FeeRates, setProtocolFeeBps(r) PROVE TypeOK'
        BY <2>2 DEF setProtocolFeeBps
    <2> QED BY <1>1, <2>1, <2>2 DEF Treasury
<1>2. CASE SetPaused
    BY <1>2 DEF SetPaused
<1>3. CASE setSupportedToken
    BY <1>3 DEF setSupportedToken
<1>4. CASE RegistryChanges
    BY <1>4 DEF RegistryChanges
<1>5. CASE IssuerChanges
    BY <1>5 DEF IssuerChanges
<1> QED BY <1>1, <1>2, <1>3, <1>4, <1>5 DEF Outside

LEMMA StepTyped == TypeOK /\ [Next]_vars => TypeOK'
<1> SUFFICES ASSUME TypeOK, [Next]_vars PROVE TypeOK'
    OBVIOUS
<1>1. CASE Open
    BY <1>1, OpenTyped DEF Open
<1>2. CASE Batch
    BY <1>2, BatchTyped DEF Batch
<1>3. CASE Fund
    BY <1>3, FundTyped DEF Fund
<1>4. CASE Create
    BY <1>4, CreateTyped DEF Create
<1>5. ASSUME NEW c \in Channels, Cancel(c) PROVE TypeOK'
    BY <1>5, CancelTyped DEF Cancel
<1>6. ASSUME NEW c \in Channels,
             Cooperate(c) \/ Unilateral(c) \/ CurrentState(c) \/ finalizeClose(c)
                \/ \E p \in Parties : Counter(p, c)
      PROVE  TypeOK'
    BY <1>6, CloseTyped
<1>7. ASSUME NEW h \in Htlcs, claimHTLC(h) \/ refundHTLC(h) PROVE TypeOK'
    <2>1. htlcs[h].sender \in Sides /\ Other(htlcs[h].sender) \in Sides
        BY DEF TypeOK, HTLC, Other, Sides
    <2> QED BY <1>7, <2>1, ReleaseTyped DEF claimHTLC, refundHTLC, HTLCStatus
<1>8. CASE Sign
    BY <1>8, SignTyped
<1>9. CASE Tick
    BY <1>9, TickTyped
<1>10. CASE Outside
    BY <1>10, OutsideTyped
<1>11. CASE UNCHANGED vars
    BY <1>11 DEF vars, chanVars, tokenVars, adminVars, TypeOK
<1> QED BY <1>1, <1>2, <1>3, <1>4, <1>5, <1>6, <1>7, <1>8, <1>9, <1>10, <1>11
        DEF Next, Outside

\* Storage, the token ledger and the signatures keep their types: in
\* particular no balance, reservation or token holding ever goes negative.
THEOREM TypeInvariant == Spec => []TypeOK
BY InitTyped, StepTyped, PTL DEF Spec
-----------------------------------------------------------------------------
(***************************************************************************)
(* Conservation of the escrow.  EscrowConserved alone is not inductive:    *)
(* a close overwrites the balances, so nothing may be reserved then, and a *)
(* settlement pays what the dispute recorded, so that must be the balances *)
(* the channel itself holds.                                               *)
(***************************************************************************)
Conserved(c) == channels[c].balance["A"] + channels[c].balance["B"]
                    + activeHTLCLockedAmount[c] = Total(c)
ReservedOnlyWhileActive(c) ==
    activeHTLCLockedAmount[c] # 0 => channels[c].status = "ACTIVE"
ClaimRecorded(c) ==
    channels[c].status = "CLOSING" => disputes[c].challengeBalance = channels[c].balance

EscrowInv(c) == Conserved(c) /\ ReservedOnlyWhileActive(c) /\ ClaimRecorded(c)
IInv == TypeOK /\ \A c \in Channels : EscrowInv(c)

\* A channel whose record, reservation and dispute a step leaves alone.
Untouched(c) == /\ channels'[c] = channels[c] /\ disputes'[c] = disputes[c]
                /\ activeHTLCLockedAmount'[c] = activeHTLCLockedAmount[c]

LEMMA UntouchedKept ==
    ASSUME NEW c \in Channels, EscrowInv(c), Untouched(c) PROVE EscrowInv(c)'
BY DEF EscrowInv, Conserved, ReservedOnlyWhileActive, ClaimRecorded, Untouched, Total

LEMMA FreshConserves ==
    ASSUME TypeOK, NEW c \in Channels, EscrowInv(c), channels[c].status = "NONE",
           NEW p, NEW q, NEW amount \in Nat, NEW d,
           channels'[c] = FreshChannel(p, q, amount, d),
           activeHTLCLockedAmount' = activeHTLCLockedAmount
    PROVE  EscrowInv(c)'
<1>1. activeHTLCLockedAmount'[c] = 0
    BY DEF EscrowInv, ReservedOnlyWhileActive
<1>2. /\ channels'[c].deposit["A"] = amount /\ channels'[c].balance["A"] = amount
      /\ channels'[c].deposit["B"] = 0 /\ channels'[c].balance["B"] = 0
      /\ channels'[c].status = "OPEN"
    BY DEF FreshChannel, Zero, Sides
<1> QED BY <1>1, <1>2 DEF EscrowInv, Conserved, ReservedOnlyWhileActive, ClaimRecorded, Total

LEMMA OpenConserves == IInv /\ (Open \/ Batch) => (\A c \in Channels : EscrowInv(c)')
<1> SUFFICES ASSUME IInv, Open \/ Batch, NEW c \in Channels PROVE EscrowInv(c)'
    OBVIOUS
<1>1. CASE Open
    <2>1. PICK p \in Parties, q \in Parties, amount \in Deposits, d \in ChallengePeriods,
               k \in Channels : openChannel(p, q, amount, d, k)
        BY <1>1 DEF Open
    <2>2. CASE c = k
        BY <2>1, <2>2, FreshConserves, ChannelAssumption DEF openChannel, IInv, TypeOK
    <2>3. CASE c # k
        BY <2>1, <2>3, UntouchedKept DEF openChannel, IInv, TypeOK, Untouched
    <2> QED BY <2>2, <2>3
<1>2. CASE Batch
    <2>1. PICK p \in Parties, o \in Opening, d \in ChallengePeriods : batchOpenChannels(p, o, d)
        BY <1>2 DEF Batch
    <2>2. CASE c \in DOMAIN o
        <3>1. o[c] \in [partyB: Parties, amount: Deposits]
            BY <2>2 DEF Opening
        <3>2. o[c].amount \in Nat
            BY <3>1, ChannelAssumption
        <3>3. /\ channels'[c] = FreshChannel(p, o[c].partyB, o[c].amount, d)
              /\ channels[c].status = "NONE"
              /\ activeHTLCLockedAmount' = activeHTLCLockedAmount
            BY <2>1, <2>2 DEF batchOpenChannels
        <3> QED BY <3>2, <3>3, FreshConserves DEF IInv
    <2>3. CASE c \notin DOMAIN o
        BY <2>1, <2>3, UntouchedKept DEF batchOpenChannels, IInv, Untouched
    <2> QED BY <2>2, <2>3
<1> QED BY <1>1, <1>2

LEMMA FundConserves == IInv /\ Fund => (\A c \in Channels : EscrowInv(c)')
<1> SUFFICES ASSUME IInv, Fund, NEW c \in Channels PROVE EscrowInv(c)'
    OBVIOUS
<1>1. PICK p \in Parties, k \in Channels, amount \in Deposits : fundChannel(p, k, amount)
    BY DEF Fund
<1>2. CASE c # k
    BY <1>1, <1>2, UntouchedKept DEF fundChannel, IInv, TypeOK, Untouched
<1>3. CASE c = k
    <2> DEFINE ch == channels[c]
               s == SideOf(p, c)
    <2>1. /\ ch \in Channel /\ s \in Sides /\ amount \in Nat
          /\ activeHTLCLockedAmount[c] \in Nat
        BY SideOfTyped, ChannelAssumption DEF IInv, TypeOK
    <2>2. /\ channels'[c].deposit = [ch.deposit EXCEPT ![s] = @ + amount]
          /\ channels'[c].balance = [ch.balance EXCEPT ![s] = @ + amount]
          /\ ch.status = "ACTIVE" => channels'[c].status = "ACTIVE"
          /\ channels'[c].status # "CLOSING"
          /\ activeHTLCLockedAmount' = activeHTLCLockedAmount
        BY <1>1, <1>3, <2>1 DEF fundChannel, IInv, TypeOK, Channel
    <2>3. s = "A" \/ s = "B"
        BY <2>1 DEF Sides
    <2>4. /\ ch.deposit \in [Sides -> Nat] /\ ch.balance \in [Sides -> Nat]
          /\ "A" \in Sides /\ "B" \in Sides
        BY <2>1 DEF Channel, Sides
    <2>5. Conserved(c)
        BY DEF IInv, EscrowInv
    <2>6. Conserved(c)'
        <3>1. CASE s = "A"
            <4>1. /\ channels'[c].deposit["A"] = ch.deposit["A"] + amount
                  /\ channels'[c].deposit["B"] = ch.deposit["B"]
                  /\ channels'[c].balance["A"] = ch.balance["A"] + amount
                  /\ channels'[c].balance["B"] = ch.balance["B"]
                BY <2>2, <2>4, <3>1
            <4> QED BY <2>1, <2>2, <2>4, <2>5, <4>1 DEF Conserved, Total
        <3>2. CASE s = "B"
            <4>1. /\ channels'[c].deposit["B"] = ch.deposit["B"] + amount
                  /\ channels'[c].deposit["A"] = ch.deposit["A"]
                  /\ channels'[c].balance["B"] = ch.balance["B"] + amount
                  /\ channels'[c].balance["A"] = ch.balance["A"]
                BY <2>2, <2>4, <3>2
            <4> QED BY <2>1, <2>2, <2>4, <2>5, <4>1 DEF Conserved, Total
        <3> QED BY <2>3, <3>1, <3>2
    <2> QED BY <2>2, <2>6 DEF IInv, EscrowInv, ReservedOnlyWhileActive, ClaimRecorded
<1> QED BY <1>2, <1>3

\* A close that divides the whole deposit while nothing is reserved.
LEMMA DivideConserves ==
    ASSUME IInv, NEW c \in Channels, NEW bal \in [Sides -> Nat], NEW n, NEW st,
           channels' = [channels EXCEPT ![c].status = st, ![c].balance = bal, ![c].nonce = n],
           activeHTLCLockedAmount' = activeHTLCLockedAmount, activeHTLCLockedAmount[c] = 0,
           bal["A"] + bal["B"] = Total(c),
           \/ st = "CLOSED" /\ disputes' = disputes
           \/ \A k \in Channels : IF k = c THEN disputes'[k].challengeBalance = bal
                                           ELSE disputes'[k] = disputes[k]
    PROVE  \A k \in Channels : EscrowInv(k)'
<1> SUFFICES ASSUME NEW k \in Channels PROVE EscrowInv(k)'
    OBVIOUS
<1>1. CASE k # c
    BY <1>1, UntouchedKept DEF IInv, TypeOK, Untouched
<1>2. CASE k = c
    <2>1. channels[c] \in Channel
        BY DEF IInv, TypeOK
    <2>2. /\ channels'[c].balance = bal /\ channels'[c].deposit = channels[c].deposit
          /\ channels'[c].status = st
        BY <2>1 DEF IInv, TypeOK, Channel
    <2>3. bal["A"] + bal["B"] \in Nat
        BY DEF Sides
    <2>4. Conserved(c)'
        BY <2>2, <2>3 DEF Conserved, Total
    <2> QED BY <1>2, <2>2, <2>4 DEF EscrowInv, ReservedOnlyWhileActive, ClaimRecorded
<1> QED BY <1>1, <1>2

LEMMA CancelConserves ==
    ASSUME IInv, NEW c \in Channels, Cancel(c) PROVE \A k \in Channels : EscrowInv(k)'
<1> SUFFICES ASSUME NEW k \in Channels PROVE EscrowInv(k)'
    OBVIOUS
<1>1. PICK p \in Parties : cancelOpenChannel(p, c)
    BY DEF Cancel
<1>2. /\ channels' = [channels EXCEPT ![c].status = "CLOSED"] /\ channels[c].status = "OPEN"
      /\ disputes' = disputes /\ activeHTLCLockedAmount' = activeHTLCLockedAmount
    BY <1>1 DEF cancelOpenChannel
<1>3. CASE k # c
    BY <1>2, <1>3, UntouchedKept DEF IInv, TypeOK, Untouched
<1>4. CASE k = c
    <2>1. channels[c] \in Channel
        BY DEF IInv, TypeOK
    <2>2. /\ channels'[c].balance = channels[c].balance
          /\ channels'[c].deposit = channels[c].deposit /\ channels'[c].status = "CLOSED"
        BY <1>2, <2>1 DEF IInv, TypeOK, Channel
    <2> QED BY <1>2, <1>4, <2>2
            DEF IInv, EscrowInv, Conserved, Total, ReservedOnlyWhileActive, ClaimRecorded
<1> QED BY <1>3, <1>4

LEMMA ClaimConserves ==
    ASSUME IInv, NEW p, NEW c \in Channels, NEW bal \in [Sides -> Nat], NEW n,
           Claim(p, c, bal, n), activeHTLCLockedAmount[c] = 0,
           bal["A"] + bal["B"] = Total(c)
    PROVE  \A k \in Channels : EscrowInv(k)'
<1>1. \A k \in Channels : IF k = c THEN disputes'[k].challengeBalance = bal
                                    ELSE disputes'[k] = disputes[k]
    BY DEF Claim, IInv, TypeOK
<1> QED BY <1>1, DivideConserves DEF Claim

LEMMA CloseConserves ==
    ASSUME IInv, NEW c \in Channels,
           Cooperate(c) \/ Unilateral(c) \/ CurrentState(c) \/ finalizeClose(c)
                \/ \E p \in Parties : Counter(p, c)
    PROVE  \A k \in Channels : EscrowInv(k)'
<1>1. CASE Cooperate(c)
    <2>1. PICK q \in Parties, g \in signed : cooperativeClose(q, c, g.balance, g.nonce)
        BY <1>1 DEF Cooperate
    <2>2. g.balance \in [Sides -> Nat]
        BY DEF IInv, TypeOK
    <2> QED BY <2>1, <2>2, DivideConserves
            DEF cooperativeClose, _settleChannel, _requireNoActiveHTLC
<1>2. CASE Unilateral(c)
    <2>1. PICK q \in Parties, g \in signed : initiateUnilateralClose(q, c, g.balance, g.nonce)
        BY <1>2 DEF Unilateral
    <2>2. g.balance \in [Sides -> Nat]
        BY DEF IInv, TypeOK
    <2> QED BY <2>1, <2>2, ClaimConserves DEF initiateUnilateralClose, _requireNoActiveHTLC
<1>3. CASE CurrentState(c)
    <2>1. PICK q \in Parties : initiateCurrentStateClose(q, c)
        BY <1>3 DEF CurrentState
    <2>2. channels[c] \in Channel
        BY DEF IInv, TypeOK
    <2>3. /\ channels[c].balance \in [Sides -> Nat]
          /\ channels[c].deposit["A"] \in Nat /\ channels[c].deposit["B"] \in Nat
          /\ channels[c].balance["A"] \in Nat /\ channels[c].balance["B"] \in Nat
        BY <2>2 DEF Channel, Sides
    <2>4. activeHTLCLockedAmount[c] = 0
        BY <2>1 DEF initiateCurrentStateClose, _requireNoActiveHTLC
    <2>5. channels[c].balance["A"] + channels[c].balance["B"] = Total(c)
        BY <2>3, <2>4 DEF IInv, EscrowInv, Conserved, Total
    <2> QED BY <2>1, <2>3, <2>4, <2>5, ClaimConserves DEF initiateCurrentStateClose
<1>4. CASE finalizeClose(c)
    <2> DEFINE bal == disputes[c].challengeBalance
    <2>1. disputes[c] \in ChannelDispute /\ channels[c] \in Channel
        BY DEF IInv, TypeOK
    <2>2. /\ bal \in [Sides -> Nat] /\ bal["A"] \in Nat /\ bal["B"] \in Nat
          /\ channels[c].deposit["A"] \in Nat /\ channels[c].deposit["B"] \in Nat
        BY <2>1 DEF ChannelDispute, Channel, Sides
    <2>3. activeHTLCLockedAmount[c] = 0
        BY <1>4 DEF finalizeClose, _requireNoActiveHTLC
    <2>4. bal = channels[c].balance
        BY <1>4 DEF finalizeClose, IInv, EscrowInv, ClaimRecorded
    <2>5. bal["A"] + bal["B"] = Total(c)
        BY <2>2, <2>3, <2>4 DEF IInv, EscrowInv, Conserved, Total
    <2> QED BY <1>4, <2>2, <2>3, <2>5, DivideConserves DEF finalizeClose, _settleChannel
<1>5. CASE \E p \in Parties : Counter(p, c)
    <2>1. PICK p \in Parties, g \in signed : counterDispute(p, c, g.balance, g.nonce)
        BY <1>5 DEF Counter
    <2>2. g.balance \in [Sides -> Nat]
        BY DEF IInv, TypeOK
    <2>3. activeHTLCLockedAmount[c] = 0
        BY <2>1 DEF counterDispute, IInv, EscrowInv, ReservedOnlyWhileActive
    <2> QED BY <2>1, <2>2, <2>3, ClaimConserves DEF counterDispute
<1> QED BY <1>1, <1>2, <1>3, <1>4, <1>5

LEMMA CreateConserves == IInv /\ Create => (\A k \in Channels : EscrowInv(k)')
<1> SUFFICES ASSUME IInv, Create, NEW k \in Channels PROVE EscrowInv(k)'
    OBVIOUS
<1>1. PICK p \in Parties, c \in Channels, amount \in HtlcAmounts, t \in Timelocks,
           h \in Htlcs : createHTLC(p, c, amount, t, h)
    BY DEF Create
<1>2. CASE k # c
    BY <1>1, <1>2, UntouchedKept DEF createHTLC, IInv, TypeOK, Untouched
<1>3. CASE k = c
    <2> DEFINE ch == channels[c]
               s == SideOf(p, c)
    <2>1. /\ ch \in Channel /\ s \in Sides /\ amount \in Nat
          /\ activeHTLCLockedAmount[c] \in Nat
        BY SideOfTyped, ChannelAssumption DEF IInv, TypeOK
    <2>2. /\ channels'[c].deposit = ch.deposit
          /\ channels'[c].balance = [ch.balance EXCEPT ![s] = @ - amount]
          /\ channels'[c].status = "ACTIVE"
          /\ activeHTLCLockedAmount'[c] = activeHTLCLockedAmount[c] + amount
        BY <1>1, <2>1 DEF createHTLC, IInv, TypeOK, Channel
    <2>3. /\ s = "A" \/ s = "B"
          /\ ch.balance \in [Sides -> Nat] /\ "A" \in Sides /\ "B" \in Sides
        BY <2>1 DEF Channel, Sides
    <2>4. channels'[c].balance["A"] + channels'[c].balance["B"]
            = ch.balance["A"] + ch.balance["B"] - amount
        BY <2>1, <2>2, <2>3
    <2>5. Conserved(c)'
        BY <2>1, <2>2, <2>3, <2>4 DEF Conserved, Total, IInv, EscrowInv
    <2> QED BY <1>3, <2>2, <2>5 DEF EscrowInv, ReservedOnlyWhileActive, ClaimRecorded
<1> QED BY <1>2, <1>3

LEMMA ReleaseConserves ==
    ASSUME IInv, NEW h \in Htlcs, NEW s \in Sides, NEW outcome, ReleaseHTLC(h, s, outcome)
    PROVE  \A k \in Channels : EscrowInv(k)'
<1> SUFFICES ASSUME NEW k \in Channels PROVE EscrowInv(k)'
    OBVIOUS
<1> DEFINE ch == channels[k]
           a == htlcs[h].amount
<1>1. CASE k # htlcs[h].channelId
    BY <1>1, UntouchedKept DEF ReleaseHTLC, IInv, TypeOK, Untouched
<1>2. CASE k = htlcs[h].channelId
    <2>1. /\ ch \in Channel /\ a \in Nat /\ activeHTLCLockedAmount[k] \in Nat
        BY <1>2 DEF IInv, TypeOK, HTLC
    <2>2. /\ channels'[k].deposit = ch.deposit
          /\ channels'[k].balance = [ch.balance EXCEPT ![s] = @ + a]
          /\ channels'[k].status = ch.status
          /\ activeHTLCLockedAmount'[k] = activeHTLCLockedAmount[k] - a
          /\ activeHTLCLockedAmount[k] >= a
          /\ disputes' = disputes
        BY <1>2, <2>1 DEF ReleaseHTLC, IInv, TypeOK, Channel
    <2>3. /\ s = "A" \/ s = "B"
          /\ ch.balance \in [Sides -> Nat] /\ "A" \in Sides /\ "B" \in Sides
        BY <2>1 DEF Channel, Sides
    <2>4. channels'[k].balance["A"] + channels'[k].balance["B"]
            = ch.balance["A"] + ch.balance["B"] + a
        BY <2>1, <2>2, <2>3
    <2>5. Conserved(k)'
        BY <1>2, <2>1, <2>2, <2>3, <2>4 DEF Conserved, Total, IInv, EscrowInv
    <2>6. ReservedOnlyWhileActive(k)'
        BY <1>2, <2>1, <2>2 DEF ReservedOnlyWhileActive, IInv, EscrowInv
    <2>7. ClaimRecorded(k)'
        <3>1. ch.status = "CLOSING" => activeHTLCLockedAmount[k] = 0
            BY <1>2 DEF ReservedOnlyWhileActive, IInv, EscrowInv
        <3>2. ch.status = "CLOSING" => a = 0
            BY <2>1, <2>2, <3>1
        <3>3. ch.status = "CLOSING" => channels'[k].balance = ch.balance
            BY <2>2, <2>3, <3>2
        <3> QED BY <1>2, <2>2, <3>3 DEF ClaimRecorded, IInv, EscrowInv
    <2> QED BY <1>2, <2>5, <2>6, <2>7 DEF EscrowInv
<1> QED BY <1>1, <1>2

LEMMA QuietConserves ==
    IInv /\ (Sign \/ Tick \/ Outside \/ UNCHANGED vars) => (\A k \in Channels : EscrowInv(k)')
<1> SUFFICES ASSUME IInv, Sign \/ Tick \/ Outside \/ UNCHANGED vars, NEW k \in Channels
             PROVE  EscrowInv(k)'
    OBVIOUS
<1>1. /\ channels' = channels /\ activeHTLCLockedAmount' = activeHTLCLockedAmount
      /\ disputes'[k].challengeBalance = disputes[k].challengeBalance
    <2>1. CASE Sign
        BY <2>1 DEF Sign, signState, chanVars
    <2>2. CASE Tick
        <3>1. disputes[k] \in ChannelDispute
            BY DEF IInv, TypeOK
        <3>2. disputes'[k] = IF channels[k].status = "CLOSING"
                        THEN [disputes[k] EXCEPT !.left = Later(@)] ELSE disputes[k]
            BY <2>2 DEF Tick
        <3> QED BY <2>2, <3>1, <3>2 DEF Tick, ChannelDispute
    <2>3. CASE Outside
        BY <2>3 DEF Outside, Treasury, setProtocolTreasury, setProtocolFeeBps, SetPaused,
                    setSupportedToken, RegistryChanges, IssuerChanges, chanVars
    <2>4. CASE UNCHANGED vars
        BY <2>4 DEF vars, chanVars
    <2> QED BY <2>1, <2>2, <2>3, <2>4
<1> QED BY <1>1 DEF IInv, EscrowInv, Conserved, Total, ReservedOnlyWhileActive, ClaimRecorded

LEMMA InitIInv == Init => IInv
<1> SUFFICES ASSUME Init, NEW c \in Channels PROVE EscrowInv(c)
    BY InitTyped DEF IInv
<1>1. channels[c] = NoChannel /\ activeHTLCLockedAmount[c] = 0
    BY DEF Init
<1> QED BY <1>1 DEF EscrowInv, Conserved, ReservedOnlyWhileActive, ClaimRecorded, Total,
                    NoChannel, Zero, Sides

LEMMA StepIInv == IInv /\ [Next]_vars => IInv'
<1> SUFFICES ASSUME IInv, [Next]_vars PROVE \A k \in Channels : EscrowInv(k)'
    BY StepTyped DEF IInv
<1>1. CASE Open \/ Batch
    BY <1>1, OpenConserves
<1>2. CASE Fund
    BY <1>2, FundConserves
<1>3. ASSUME NEW c \in Channels, Cancel(c) PROVE \A k \in Channels : EscrowInv(k)'
    BY <1>3, CancelConserves
<1>4. ASSUME NEW c \in Channels,
             Cooperate(c) \/ Unilateral(c) \/ CurrentState(c) \/ finalizeClose(c)
                \/ \E p \in Parties : Counter(p, c)
      PROVE  \A k \in Channels : EscrowInv(k)'
    BY <1>4, CloseConserves
<1>5. CASE Create
    BY <1>5, CreateConserves
<1>6. ASSUME NEW h \in Htlcs, claimHTLC(h) \/ refundHTLC(h)
      PROVE  \A k \in Channels : EscrowInv(k)'
    <2>1. htlcs[h].sender \in Sides /\ Other(htlcs[h].sender) \in Sides
        BY DEF IInv, TypeOK, HTLC, Other, Sides
    <2> QED BY <1>6, <2>1, ReleaseConserves DEF claimHTLC, refundHTLC
<1>7. CASE Sign \/ Tick \/ Outside \/ UNCHANGED vars
    BY <1>7, QuietConserves
<1> QED BY <1>1, <1>2, <1>3, <1>4, <1>5, <1>6, <1>7 DEF Next, Outside

\* In every instance the two balances and the reservation of a channel add up
\* to what was deposited into it (PaymentChannels.sol:473-479, 734-735,
\* 797-801, 849-854, 876-881).
THEOREM EscrowIsConserved == Spec => []EscrowConserved
<1>1. IInv => EscrowConserved
    BY DEF IInv, EscrowInv, Conserved, EscrowConserved
<1> QED BY <1>1, InitIInv, StepIInv, PTL DEF Spec
-----------------------------------------------------------------------------
(***************************************************************************)
(* The vault.  Its balance is the sum of the escrow of the live channels,  *)
(* and the reservation of a channel the sum of its active HTLCs.  An       *)
(* active HTLC reserves something of a channel that exists, so a channel   *)
(* whose reservation is zero has none.                                     *)
(***************************************************************************)
HTLCsPlaced == \A h \in Htlcs : htlcs[h].status = "ACTIVE" =>
                    htlcs[h].channelId \in Channels /\ htlcs[h].amount > 0

VaultInv == IInv /\ VaultSolvent /\ HTLCReserveExact /\ HTLCsPlaced

LEMMA Finite == /\ \A S \in SUBSET Channels : IsFiniteSet(S)
                /\ \A S \in SUBSET Htlcs : IsFiniteSet(S)
    BY ChannelAssumption, FS_Subset

LEMMA TotalNat == TypeOK => \A c \in Channels : Total(c) \in Nat
    BY DEF TypeOK, Channel, Sides, Total

\* What channel c holds of the vault.
Holding(c) == IF c \in Live THEN Total(c) ELSE 0

LEMMA OneChannelMoves ==
    ASSUME TypeOK, TypeOK', NEW c \in Channels,
           \A k \in Channels \ {c} : channels'[k] = channels[k]
    PROVE  SumFunctionOnSet(totals, Live)' =
               SumFunctionOnSet(totals, Live) + Holding(c)' - Holding(c)
<1> DEFINE A == Live
           B == Live'
           f == totals
           g == totals'
<1>1. /\ A \in SUBSET Channels /\ B \in SUBSET Channels /\ A \ {c} = B \ {c}
    BY DEF Live
<1>2. /\ \A k \in Channels : /\ f[k] = Total(k) /\ g[k] = Total(k)'
                             /\ f[k] \in Int /\ g[k] \in Int
      /\ \A k \in Channels \ {c} : f[k] = g[k]
  <2>1. ASSUME NEW k \in Channels PROVE Total(k)' \in Int
      BY TypeOK' DEF TypeOK, Channel, Sides, Total
  <2> QED BY <2>1, TotalNat DEF totals, Total
<1>3. SumFunctionOnSet(totals, Live)' = SumFunctionOnSet(g, B)
    OBVIOUS
<1> HIDE DEF A, B, f, g
<1>4. SumFunctionOnSet(g, B) = SumFunctionOnSet(f, A)
            + (IF c \in B THEN g[c] ELSE 0) - (IF c \in A THEN f[c] ELSE 0)
    BY <1>1, <1>2, Finite, SumMove
<1>5. /\ Holding(c) = IF c \in A THEN f[c] ELSE 0
      /\ Holding(c)' = IF c \in B THEN g[c] ELSE 0
    BY <1>2 DEF A, B, Holding
<1> QED BY <1>3, <1>4, <1>5 DEF A, f

LEMMA VaultTotalInt == TypeOK => SumFunctionOnSet(totals, Live) \in Int
<1> SUFFICES ASSUME TypeOK PROVE SumFunctionOnSet(totals, Live) \in Int
    OBVIOUS
<1> DEFINE A == Live
<1>1. A \in SUBSET Channels
    BY DEF Live
<1>2. \A k \in A : totals[k] \in Int
    BY <1>1, TotalNat DEF totals
<1> HIDE DEF A
<1>3. SumFunctionOnSet(totals, A) \in Int
    BY <1>1, <1>2, Finite, SumInt
<1> QED BY <1>3 DEF A

LEMMA PullMoves ==
    ASSUME TypeOK, NEW from \in Parties, NEW amount, _pullExactEscrow(from, amount)
    PROVE  balanceOf'[Vault] = balanceOf[Vault] + amount
<1>1. from \in Accounts /\ Vault \in Accounts /\ from # Vault
    BY ChannelAssumption DEF Accounts
<1> QED BY <1>1 DEF _pullExactEscrow, TypeOK

LEMMA PayOutMoves ==
    ASSUME TypeOK, NEW a, NEW b, NEW t, NEW payA \in Nat, NEW payB \in Nat,
           NEW fee \in Nat, PayOut(a, payA, b, payB, t, fee), Vault \notin {a, b, t}
    PROVE  balanceOf'[Vault] = balanceOf[Vault] - (payA + payB + fee)
<1>1. Vault \in Accounts /\ balanceOf[Vault] \in Nat
    BY DEF TypeOK, Accounts
<1> QED BY <1>1 DEF PayOut

LEMMA Strangers ==
    ASSUME TypeOK, NEW c \in Channels
    PROVE  Vault \notin {channels[c].party["A"], channels[c].party["B"], protocolTreasury}
<1>1. channels[c].party \in [Sides -> Parties \cup {None}] /\ protocolTreasury \in Treasuries
    BY DEF TypeOK, Channel
<1> QED BY <1>1, ChannelAssumption DEF Sides

\* A settlement pays out what the channel held.
LEMMA SettleSolvent ==
    ASSUME IInv, TypeOK', VaultSolvent, NEW c \in Channels, NEW bal \in [Sides -> Nat],
           NEW n \in Nat, _settleChannel(c, bal, n), bal["A"] + bal["B"] = Total(c),
           channels[c].status \notin {"NONE", "CLOSED"}
    PROVE  VaultSolvent'
<1>0. TypeOK
    BY DEF IInv
<1>1. bal["A"] \in Nat /\ bal["B"] \in Nat
    BY DEF Sides
<1>2. /\ Fee(bal["A"]) \in Nat /\ bal["A"] - Fee(bal["A"]) \in Nat
      /\ Fee(bal["B"]) \in Nat /\ bal["B"] - Fee(bal["B"]) \in Nat
    BY <1>0, <1>1, NetTyped
<1>3. Fee(bal["A"]) + Fee(bal["B"]) \in Nat
    BY <1>2
<1>4. balanceOf'[Vault] = balanceOf[Vault] - (bal["A"] - Fee(bal["A"])
            + (bal["B"] - Fee(bal["B"])) + (Fee(bal["A"]) + Fee(bal["B"])))
    BY <1>0, <1>2, <1>3, Strangers, PayOutMoves DEF _settleChannel
<1>5. balanceOf'[Vault] = balanceOf[Vault] - Total(c)
  <2>1. balanceOf[Vault] \in Nat
      BY <1>0 DEF TypeOK, Accounts
  <2> QED BY <1>1, <1>2, <1>4, <2>1
<1>6. /\ channels'[c].status = "CLOSED"
      /\ \A k \in Channels \ {c} : channels'[k] = channels[k]
    BY <1>0 DEF _settleChannel, TypeOK, Channel
<1>7. Holding(c) = Total(c) /\ Holding(c)' = 0
    BY <1>6 DEF Holding, Live
<1> QED BY <1>0, <1>5, <1>6, <1>7, TotalNat, VaultTotalInt, OneChannelMoves DEF VaultSolvent

\* A step that moves no token and leaves each channel's life and deposit.
LEMMA SameSolvent ==
    ASSUME TypeOK, TypeOK', VaultSolvent, balanceOf' = balanceOf, NEW c \in Channels,
           \A k \in Channels \ {c} : channels'[k] = channels[k],
           channels'[c].deposit = channels[c].deposit,
           channels[c].status \notin {"NONE", "CLOSED"},
           channels'[c].status \notin {"NONE", "CLOSED"}
    PROVE  VaultSolvent'
<1>1. Holding(c)' = Holding(c)
    BY DEF Holding, Live, Total
<1>2. Holding(c) \in Int
    BY TotalNat DEF Holding
<1> QED BY <1>1, <1>2, VaultTotalInt, OneChannelMoves DEF VaultSolvent

LEMMA OpenSolvent ==
    ASSUME VaultInv, TypeOK', Open \/ Batch PROVE VaultSolvent'
<1>0. TypeOK /\ VaultSolvent
    BY DEF VaultInv, IInv
<1>1. CASE Open
  <2>1. PICK p \in Parties, q \in Parties, amount \in Deposits, d \in ChallengePeriods,
             c \in Channels : openChannel(p, q, amount, d, c)
      BY <1>1 DEF Open
  <2>2. amount \in Nat
      BY ChannelAssumption
  <2>3. /\ channels'[c] = FreshChannel(p, q, amount, d) /\ channels[c].status = "NONE"
        /\ \A k \in Channels \ {c} : channels'[k] = channels[k]
        /\ balanceOf'[Vault] = balanceOf[Vault] + amount
      BY <1>0, <2>1, PullMoves DEF openChannel, TypeOK
  <2>4. Holding(c) = 0 /\ Holding(c)' = amount
      BY <2>2, <2>3 DEF Holding, Live, Total, FreshChannel, Zero, Sides
  <2> QED BY <1>0, <2>2, <2>3, <2>4, VaultTotalInt, OneChannelMoves DEF VaultSolvent
<1>2. CASE Batch
  <2>1. PICK p \in Parties, o \in Opening, d \in ChallengePeriods : batchOpenChannels(p, o, d)
      BY <1>2 DEF Batch
  <2> DEFINE N == DOMAIN o
             dep == [c \in N |-> o[c].amount]
             A == Live
             f == totals
             g == totals'
  <2>2. /\ N \in SUBSET Channels
        /\ \A c \in N : o[c].amount \in Nat
    <3>1. PICK cs \in SUBSET Channels : o \in [cs -> [partyB: Parties, amount: Deposits]]
        BY DEF Opening
    <3>2. N = cs /\ \A c \in cs : o[c] \in [partyB: Parties, amount: Deposits]
        BY <3>1
    <3> QED BY <3>2, ChannelAssumption
  <2>3. \A c \in Channels : channels'[c] =
            IF c \in N THEN FreshChannel(p, o[c].partyB, o[c].amount, d) ELSE channels[c]
      BY <2>1 DEF batchOpenChannels
  <2>4. \A c \in N : channels[c].status = "NONE"
      BY <2>1 DEF batchOpenChannels
  <2>5. balanceOf'[Vault] = balanceOf[Vault] + SumFunctionOnSet(dep, N)
      BY <1>0, <2>1, PullMoves DEF batchOpenChannels
  <2>6. /\ A \in SUBSET Channels /\ A \cap N = {} /\ Live' = A \cup N
    <3>1. ASSUME NEW c \in N PROVE c \notin Live /\ c \in Live'
      <4>1. c \in Channels /\ channels[c].status = "NONE" /\ channels'[c].status = "OPEN"
        <5>1. c \in Channels /\ channels[c].status = "NONE"
            BY <2>2, <2>4
        <5>2. channels'[c] = FreshChannel(p, o[c].partyB, o[c].amount, d)
            BY <2>3, <5>1
        <5> QED BY <5>1, <5>2 DEF FreshChannel
      <4> HIDE DEF N
      <4> QED BY <4>1 DEF Live
    <3>2. \A c \in Channels \ N : c \in Live <=> c \in Live'
        BY <2>3 DEF Live
    <3> QED BY <2>2, <3>1, <3>2 DEF Live
  <2>7. /\ \A c \in A : f[c] \in Int /\ f[c] = g[c]
        /\ \A c \in N : g[c] \in Int /\ g[c] = dep[c]
    <3>1. ASSUME NEW c \in A PROVE f[c] \in Int /\ f[c] = g[c]
      <4>1. c \in Channels /\ c \notin N
          BY <2>6
      <4> QED BY <1>0, <2>3, <4>1, TotalNat DEF totals, Total
    <3>2. ASSUME NEW c \in N PROVE g[c] \in Int /\ g[c] = dep[c]
      <4>1. /\ c \in Channels /\ o[c].amount \in Nat /\ dep[c] = o[c].amount
            /\ channels'[c] = FreshChannel(p, o[c].partyB, o[c].amount, d)
          BY <2>2, <2>3
      <4>2. /\ channels'[c].deposit["A"] = o[c].amount /\ channels'[c].deposit["B"] = 0
          BY <4>1 DEF FreshChannel, Zero, Sides
      <4>3. g[c] = channels'[c].deposit["A"] + channels'[c].deposit["B"]
          BY <4>1 DEF totals, Total
      <4> QED BY <4>1, <4>2, <4>3
    <3> QED BY <3>1, <3>2
  <2>8. IsFiniteSet(A) /\ IsFiniteSet(N)
      BY <2>2, <2>6, Finite
  <2> HIDE DEF A, N, f, g, dep
  <2>9. SumFunctionOnSet(g, A \cup N) = SumFunctionOnSet(f, A) + SumFunctionOnSet(g, N)
      BY <2>6, <2>7, <2>8, SumJoin
  <2>10. SumFunctionOnSet(g, N) = SumFunctionOnSet(dep, N)
      BY <2>7, <2>8, SumSame
  <2>11. SumFunctionOnSet(totals, Live)' = SumFunctionOnSet(g, A \cup N)
      BY <2>6 DEF g
  <2>12. balanceOf[Vault] = SumFunctionOnSet(f, A)
      BY <1>0 DEF VaultSolvent, f, A
  <2> QED BY <2>5, <2>9, <2>10, <2>11, <2>12 DEF VaultSolvent
<1> QED BY <1>1, <1>2

LEMMA FundSolvent ==
    ASSUME VaultInv, TypeOK', Fund PROVE VaultSolvent'
<1>0. TypeOK /\ VaultSolvent
    BY DEF VaultInv, IInv
<1>1. PICK p \in Parties, c \in Channels, amount \in Deposits : fundChannel(p, c, amount)
    BY DEF Fund
<1> DEFINE ch == channels[c]
           s == SideOf(p, c)
<1>2. ch \in Channel /\ s \in {"A", "B"} /\ amount \in Nat
    BY <1>0, ChannelAssumption DEF TypeOK, SideOf
<1>3. /\ channels'[c].deposit = [ch.deposit EXCEPT ![s] = @ + amount]
      /\ ch.status \in {"OPEN", "FUNDED", "ACTIVE"}
      /\ channels'[c].status \in {"OPEN", "FUNDED", "ACTIVE"}
      /\ \A k \in Channels \ {c} : channels'[k] = channels[k]
    BY <1>0, <1>1, <1>2 DEF fundChannel, TypeOK, Channel
<1>4. balanceOf'[Vault] = balanceOf[Vault] + amount
    BY <1>0, <1>1, PullMoves DEF fundChannel
<1>5. Total(c)' = Total(c) + amount
  <2>1. ch.deposit \in [{"A", "B"} -> Nat]
      BY <1>2 DEF Channel, Sides
  <2>2. CASE s = "A"
    <3>1. channels'[c].deposit["A"] = ch.deposit["A"] + amount
            /\ channels'[c].deposit["B"] = ch.deposit["B"]
        BY <1>3, <2>1, <2>2
    <3> QED BY <1>2, <2>1, <3>1 DEF Total
  <2>3. CASE s = "B"
    <3>1. channels'[c].deposit["B"] = ch.deposit["B"] + amount
            /\ channels'[c].deposit["A"] = ch.deposit["A"]
        BY <1>3, <2>1, <2>3
    <3> QED BY <1>2, <2>1, <3>1 DEF Total
  <2> QED BY <1>2, <2>2, <2>3
<1>6. Holding(c) = Total(c) /\ Holding(c)' = Total(c)'
    BY <1>3 DEF Holding, Live
<1> QED BY <1>0, <1>2, <1>3, <1>4, <1>5, <1>6, TotalNat, VaultTotalInt, OneChannelMoves
        DEF VaultSolvent

LEMMA CloseSolvent ==
    ASSUME VaultInv, TypeOK', NEW c \in Channels,
           Cancel(c) \/ Cooperate(c) \/ Unilateral(c) \/ CurrentState(c) \/ finalizeClose(c)
                \/ \E p \in Parties : Counter(p, c)
    PROVE  VaultSolvent'
<1>0. TypeOK /\ VaultSolvent /\ IInv /\ channels[c] \in Channel
    BY DEF VaultInv, IInv, TypeOK
<1>1. CASE Cancel(c)
  <2>1. PICK p \in Parties : cancelOpenChannel(p, c)
      BY <1>1 DEF Cancel
  <2>2. /\ channels[c].status = "OPEN" /\ channels'[c].status = "CLOSED"
        /\ \A k \in Channels \ {c} : channels'[k] = channels[k]
      BY <1>0, <2>1 DEF cancelOpenChannel, TypeOK, Channel
  <2>3. channels[c].balance["A"] \in Nat
      BY <1>0 DEF Channel, Sides
  <2>4. PayOut(p, channels[c].balance["A"], p, 0, p, 0)
      BY <2>1 DEF cancelOpenChannel
  <2>5. balanceOf'[Vault] = balanceOf[Vault] - (channels[c].balance["A"] + 0 + 0)
      BY <1>0, <2>3, <2>4, PayOutMoves, ChannelAssumption
  <2>6. Total(c) = channels[c].balance["A"]
    <3>1. channels[c].deposit["B"] = 0 /\ channels[c].balance["A"] = channels[c].deposit["A"]
        BY <2>1 DEF cancelOpenChannel
    <3> QED BY <2>3, <3>1 DEF Total
  <2>7. Holding(c) = Total(c) /\ Holding(c)' = 0
      BY <2>2 DEF Holding, Live
  <2> QED BY <1>0, <2>2, <2>3, <2>5, <2>6, <2>7, VaultTotalInt, OneChannelMoves
          DEF VaultSolvent
<1>2. CASE Cooperate(c)
  <2>1. PICK q \in Parties, g \in signed : cooperativeClose(q, c, g.balance, g.nonce)
      BY <1>2 DEF Cooperate
  <2>2. g.balance \in [Sides -> Nat] /\ g.nonce \in Nat
      BY <1>0 DEF TypeOK
  <2> QED BY <1>0, <2>1, <2>2, SettleSolvent DEF cooperativeClose
<1>3. CASE finalizeClose(c)
  <2>1. /\ channels[c].status = "CLOSING" /\ activeHTLCLockedAmount[c] = 0
        /\ _settleChannel(c, disputes[c].challengeBalance, disputes[c].challengeNonce)
      BY <1>3 DEF finalizeClose, _requireNoActiveHTLC
  <2>2. disputes[c].challengeBalance \in [Sides -> Nat] /\ disputes[c].challengeNonce \in Nat
      BY <1>0 DEF TypeOK, ChannelDispute
  <2>3. disputes[c].challengeBalance["A"] + disputes[c].challengeBalance["B"] = Total(c)
    <3>1. /\ disputes[c].challengeBalance = channels[c].balance
          /\ channels[c].balance["A"] + channels[c].balance["B"] + 0 = Total(c)
        BY <1>0, <2>1 DEF IInv, EscrowInv, ClaimRecorded, Conserved
    <3>2. disputes[c].challengeBalance["A"] \in Nat /\ disputes[c].challengeBalance["B"] \in Nat
        BY <2>2 DEF Sides
    <3> QED BY <3>1, <3>2
  <2> QED BY <1>0, <2>1, <2>2, <2>3, SettleSolvent
<1>4. CASE Unilateral(c) \/ CurrentState(c) \/ \E p \in Parties : Counter(p, c)
  <2>1. /\ channels[c].status \in {"ACTIVE", "FUNDED", "CLOSING"}
        /\ \E p, bal, n : Claim(p, c, bal, n)
      BY <1>4 DEF Unilateral, initiateUnilateralClose, CurrentState,
          initiateCurrentStateClose, Counter, counterDispute
  <2>2. PICK p, bal, n : Claim(p, c, bal, n)
      BY <2>1
  <2>3. /\ channels'[c].deposit = channels[c].deposit /\ channels'[c].status = "CLOSING"
        /\ \A k \in Channels \ {c} : channels'[k] = channels[k]
        /\ balanceOf' = balanceOf
      BY <1>0, <2>2 DEF Claim, tokenVars, TypeOK, Channel
  <2> QED BY <1>0, <2>1, <2>3, SameSolvent
<1> QED BY <1>1, <1>2, <1>3, <1>4

\* HTLC operations, the clock, the wallets and governance move no token and
\* neither create nor end a channel.
LEMMA OthersSolvent ==
    ASSUME VaultInv, TypeOK', \/ Create \/ Sign \/ Tick \/ Outside \/ UNCHANGED vars
                              \/ \E h \in Htlcs : claimHTLC(h) \/ refundHTLC(h)
    PROVE  VaultSolvent'
<1>0. TypeOK /\ VaultSolvent /\ HTLCsPlaced
    BY DEF VaultInv, IInv
<1>1. CASE Create
  <2>1. PICK p \in Parties, c \in Channels, amount \in HtlcAmounts, t \in Timelocks,
             h \in Htlcs : createHTLC(p, c, amount, t, h)
      BY <1>1 DEF Create
  <2>2. channels[c] \in Channel
      BY <1>0 DEF TypeOK
  <2>3. /\ channels'[c].deposit = channels[c].deposit
        /\ channels'[c].status = channels[c].status /\ channels[c].status = "ACTIVE"
        /\ \A k \in Channels \ {c} : channels'[k] = channels[k]
        /\ balanceOf' = balanceOf
      BY <1>0, <2>1, <2>2 DEF createHTLC, tokenVars, TypeOK, Channel
  <2> QED BY <1>0, <2>3, SameSolvent
<1>2. ASSUME NEW h \in Htlcs, claimHTLC(h) \/ refundHTLC(h) PROVE VaultSolvent'
  <2> DEFINE c == htlcs[h].channelId
  <2>1. PICK s, outcome : ReleaseHTLC(h, s, outcome)
      BY <1>2 DEF claimHTLC, refundHTLC
  <2>2. c \in Channels /\ channels[c] \in Channel
      BY <1>0, <2>1 DEF HTLCsPlaced, ReleaseHTLC, TypeOK
  <2>3. activeHTLCLockedAmount[c] >= htlcs[h].amount /\ htlcs[h].amount > 0
      BY <1>0, <2>1 DEF HTLCsPlaced, ReleaseHTLC
  <2>4. activeHTLCLockedAmount[c] # 0
      BY <1>0, <2>2, <2>3 DEF TypeOK, HTLC
  <2>5. channels[c].status = "ACTIVE"
      BY <2>2, <2>4 DEF VaultInv, IInv, EscrowInv, ReservedOnlyWhileActive
  <2>6. /\ channels'[c].deposit = channels[c].deposit
        /\ channels'[c].status = channels[c].status
        /\ \A k \in Channels \ {c} : channels'[k] = channels[k]
        /\ balanceOf' = balanceOf
      BY <1>0, <2>1, <2>2 DEF ReleaseHTLC, tokenVars, TypeOK, Channel
  <2> HIDE DEF c
  <2> QED BY <1>0, <2>2, <2>5, <2>6, SameSolvent
<1>3. CASE Sign \/ Tick \/ Outside \/ UNCHANGED vars
  <2>1. channels' = channels /\ balanceOf' = balanceOf
      BY <1>3 DEF Sign, signState, Tick, Outside, Treasury, setProtocolTreasury,
          setProtocolFeeBps, SetPaused, setSupportedToken, RegistryChanges, IssuerChanges,
          vars, chanVars, tokenVars
  <2> QED BY <1>0, <2>1 DEF VaultSolvent, totals, Live, Total
<1> QED BY <1>1, <1>2, <1>3

(***************************************************************************)
(* The reservations.                                                       *)
(***************************************************************************)
\* The part of the reservation of channel c that HTLC h makes.
Part(h, c) == IF h \in Reserved(c) THEN htlcs[h].amount ELSE 0

LEMMA OneHTLCMoves ==
    ASSUME TypeOK, TypeOK', NEW h \in Htlcs,
           \A k \in Htlcs \ {h} : htlcs'[k] = htlcs[k],
           NEW c \in Channels
    PROVE  /\ SumFunctionOnSet(amounts, Reserved(c))' =
                  SumFunctionOnSet(amounts, Reserved(c)) + Part(h, c)' - Part(h, c)
           /\ SumFunctionOnSet(amounts, Reserved(c)) \in Nat
<1> DEFINE A == Reserved(c)
           B == Reserved(c)'
           f == amounts
           g == amounts'
<1>1. /\ A \in SUBSET Htlcs /\ B \in SUBSET Htlcs /\ A \ {h} = B \ {h}
    BY DEF Reserved
<1>2. /\ \A k \in Htlcs : /\ f[k] = htlcs[k].amount /\ g[k] = htlcs'[k].amount
                          /\ f[k] \in Nat /\ g[k] \in Nat
      /\ \A k \in Htlcs \ {h} : f[k] = g[k]
    BY DEF amounts, TypeOK, HTLC
<1>3. SumFunctionOnSet(amounts, Reserved(c))' = SumFunctionOnSet(g, B)
    OBVIOUS
<1> HIDE DEF A, B, f, g
<1>4. SumFunctionOnSet(g, B) = SumFunctionOnSet(f, A)
            + (IF h \in B THEN g[h] ELSE 0) - (IF h \in A THEN f[h] ELSE 0)
    BY <1>1, <1>2, Finite, SumMove
<1>5. /\ Part(h, c) = IF h \in A THEN f[h] ELSE 0
      /\ Part(h, c)' = IF h \in B THEN g[h] ELSE 0
    BY <1>2 DEF A, B, Part
<1>6. SumFunctionOnSet(f, A) \in Nat
    BY <1>1, <1>2, Finite, SumNat
<1> QED BY <1>3, <1>4, <1>5, <1>6 DEF A, f

LEMMA CreateReserves ==
    ASSUME VaultInv, TypeOK', Create PROVE HTLCReserveExact' /\ HTLCsPlaced'
<1>0. TypeOK /\ HTLCReserveExact /\ HTLCsPlaced
    BY DEF VaultInv, IInv
<1>1. PICK p \in Parties, c \in Channels, amount \in HtlcAmounts, t \in Timelocks,
           h \in Htlcs : createHTLC(p, c, amount, t, h)
    BY DEF Create
<1>2. /\ htlcs'[h].channelId = c /\ htlcs'[h].amount = amount /\ htlcs'[h].status = "ACTIVE"
      /\ htlcs[h].status # "ACTIVE"
      /\ \A k \in Htlcs \ {h} : htlcs'[k] = htlcs[k]
      /\ amount \in Nat /\ amount > 0
    BY <1>0, <1>1, ChannelAssumption DEF createHTLC, TypeOK
<1>3. activeHTLCLockedAmount' = [activeHTLCLockedAmount EXCEPT ![c] = @ + amount]
    BY <1>1 DEF createHTLC
<1>4. HTLCsPlaced'
    BY <1>0, <1>2 DEF HTLCsPlaced
<1>5. ASSUME NEW k \in Channels
      PROVE  activeHTLCLockedAmount'[k] = SumFunctionOnSet(amounts, Reserved(k))'
  <2>1. Part(h, k) = 0 /\ Part(h, k)' = IF k = c THEN amount ELSE 0
      BY <1>2 DEF Part, Reserved
  <2>2. activeHTLCLockedAmount'[k] = activeHTLCLockedAmount[k] + (IF k = c THEN amount ELSE 0)
      BY <1>0, <1>2, <1>3 DEF TypeOK
  <2>3. activeHTLCLockedAmount[k] = SumFunctionOnSet(amounts, Reserved(k))
      BY <1>0 DEF HTLCReserveExact
  <2> QED BY <1>0, <1>2, <2>1, <2>2, <2>3, OneHTLCMoves
<1> QED BY <1>4, <1>5 DEF HTLCReserveExact

LEMMA ReleaseReserves ==
    ASSUME VaultInv, TypeOK', NEW h \in Htlcs, claimHTLC(h) \/ refundHTLC(h)
    PROVE  HTLCReserveExact' /\ HTLCsPlaced'
<1>0. TypeOK /\ HTLCReserveExact /\ HTLCsPlaced
    BY DEF VaultInv, IInv
<1> DEFINE c == htlcs[h].channelId
           a == htlcs[h].amount
<1>1. PICK s \in {htlcs[h].sender, Other(htlcs[h].sender)},
           outcome \in {"CLAIMED", "REFUNDED"} : ReleaseHTLC(h, s, outcome)
    BY DEF claimHTLC, refundHTLC
<1>2. /\ htlcs'[h].status # "ACTIVE" /\ htlcs[h].status = "ACTIVE"
      /\ \A k \in Htlcs \ {h} : htlcs'[k] = htlcs[k]
      /\ activeHTLCLockedAmount' = [activeHTLCLockedAmount EXCEPT ![c] = @ - a]
    BY <1>0, <1>1 DEF ReleaseHTLC, TypeOK, HTLC
<1>3. c \in Channels /\ a \in Nat
    BY <1>0, <1>2 DEF HTLCsPlaced, TypeOK, HTLC
<1>4. HTLCsPlaced'
    BY <1>0, <1>2 DEF HTLCsPlaced
<1>5. ASSUME NEW k \in Channels
      PROVE  activeHTLCLockedAmount'[k] = SumFunctionOnSet(amounts, Reserved(k))'
  <2>1. Part(h, k)' = 0 /\ Part(h, k) = IF k = c THEN a ELSE 0
      BY <1>2 DEF Part, Reserved
  <2>2. activeHTLCLockedAmount'[k] = activeHTLCLockedAmount[k] - (IF k = c THEN a ELSE 0)
      BY <1>0, <1>2, <1>3 DEF TypeOK
  <2>3. activeHTLCLockedAmount[k] = SumFunctionOnSet(amounts, Reserved(k))
      BY <1>0 DEF HTLCReserveExact
  <2> HIDE DEF c, a
  <2> QED BY <1>0, <1>2, <1>3, <2>1, <2>2, <2>3, OneHTLCMoves
<1> QED BY <1>4, <1>5 DEF HTLCReserveExact

\* The rest changes neither an HTLC's amount, channel and status nor a
\* reservation: time only brings its timelock nearer.
LEMMA OthersReserve ==
    ASSUME VaultInv, TypeOK', activeHTLCLockedAmount' = activeHTLCLockedAmount,
           \A h \in Htlcs : /\ htlcs'[h].status = htlcs[h].status
                            /\ htlcs'[h].channelId = htlcs[h].channelId
                            /\ htlcs'[h].amount = htlcs[h].amount
    PROVE  HTLCReserveExact' /\ HTLCsPlaced'
<1>1. HTLCsPlaced'
    BY DEF VaultInv, HTLCsPlaced
<1>2. \A c \in Channels : Reserved(c)' = Reserved(c)
    BY DEF Reserved
<1>3. amounts' = amounts
    BY DEF amounts
<1> QED BY <1>1, <1>2, <1>3 DEF VaultInv, HTLCReserveExact

LEMMA InitVault == Init => VaultInv
<1> SUFFICES ASSUME Init PROVE VaultInv
    OBVIOUS
<1>1. NoChannel.status = "NONE" /\ NoHTLC.status = "NONE"
    BY DEF NoChannel, NoHTLC
<1>2. VaultSolvent
  <2>1. Live = {}
      BY <1>1 DEF Init, Live
  <2>2. balanceOf[Vault] = 0
      BY ChannelAssumption DEF Init, Accounts
  <2> QED BY <2>1, <2>2, SumEmpty DEF VaultSolvent
<1>3. HTLCReserveExact /\ HTLCsPlaced
  <2>1. \A c \in Channels : Reserved(c) = {}
      BY <1>1 DEF Init, Reserved
  <2> QED BY <1>1, <2>1, SumEmpty DEF Init, HTLCReserveExact, HTLCsPlaced
<1> QED BY <1>2, <1>3, InitIInv DEF VaultInv

LEMMA StepVault == VaultInv /\ [Next]_vars => VaultInv'
<1> SUFFICES ASSUME VaultInv, [Next]_vars PROVE VaultInv'
    OBVIOUS
<1>0. IInv' /\ TypeOK'
    BY StepIInv DEF VaultInv, IInv
<1>1. CASE Create
    BY <1>0, <1>1, OthersSolvent, CreateReserves DEF VaultInv
<1>2. ASSUME NEW h \in Htlcs, claimHTLC(h) \/ refundHTLC(h) PROVE VaultInv'
    BY <1>0, <1>2, OthersSolvent, ReleaseReserves DEF VaultInv
<1>3. CASE Open \/ Batch
  <2>1. htlcs' = htlcs /\ activeHTLCLockedAmount' = activeHTLCLockedAmount
      BY <1>3 DEF Open, openChannel, Batch, batchOpenChannels
  <2> QED BY <1>0, <1>3, <2>1, OpenSolvent, OthersReserve DEF VaultInv
<1>4. CASE Fund
  <2>1. htlcs' = htlcs /\ activeHTLCLockedAmount' = activeHTLCLockedAmount
      BY <1>4 DEF Fund, fundChannel
  <2> QED BY <1>0, <1>4, <2>1, FundSolvent, OthersReserve DEF VaultInv
<1>5. ASSUME NEW c \in Channels,
             Cancel(c) \/ Cooperate(c) \/ Unilateral(c) \/ CurrentState(c) \/ finalizeClose(c)
                \/ \E p \in Parties : Counter(p, c)
      PROVE  VaultInv'
  <2>1. htlcs' = htlcs /\ activeHTLCLockedAmount' = activeHTLCLockedAmount
      BY <1>5 DEF Cancel, cancelOpenChannel, Cooperate, cooperativeClose, Unilateral,
          initiateUnilateralClose, CurrentState, initiateCurrentStateClose, finalizeClose,
          Counter, counterDispute, Claim
  <2> QED BY <1>0, <1>5, <2>1, CloseSolvent, OthersReserve DEF VaultInv
<1>6. CASE Sign \/ Tick \/ Outside \/ UNCHANGED vars
  <2>1. /\ activeHTLCLockedAmount' = activeHTLCLockedAmount
        /\ \A h \in Htlcs : /\ htlcs'[h].status = htlcs[h].status
                            /\ htlcs'[h].channelId = htlcs[h].channelId
                            /\ htlcs'[h].amount = htlcs[h].amount
    <3>1. CASE Tick
      <4>1. \A h \in Htlcs : htlcs[h] \in HTLC
          BY DEF VaultInv, IInv, TypeOK
      <4> QED BY <3>1, <4>1 DEF Tick, HTLC
    <3>2. CASE Sign \/ Outside \/ UNCHANGED vars
        BY <3>2 DEF Sign, signState, Outside, Treasury, setProtocolTreasury,
            setProtocolFeeBps, SetPaused, setSupportedToken, RegistryChanges, IssuerChanges,
            vars, chanVars
    <3> QED BY <1>6, <3>1, <3>2
  <2> QED BY <1>0, <1>6, <2>1, OthersSolvent, OthersReserve DEF VaultInv
<1> QED BY <1>1, <1>2, <1>3, <1>4, <1>5, <1>6 DEF Next, Outside

\* Of any number of channels none is ever left with a claim the vault, its own
\* reserve or its phase cannot honour: the vault holds the escrow of the live
\* channels to the unit, the cached reserve is the sum of the active conditional
\* payments, and those belong to ACTIVE channels (_distributeFunds,
\* _requireNoActiveHTLC, createHTLC, claimHTLC and refundHTLC of
\* PaymentChannels.sol).
THEOREM VaultIsBacked == Spec => []VaultBacked
<1>1. VaultInv => VaultBacked
  <2> SUFFICES ASSUME VaultInv PROVE NoStrandedHTLC
      BY DEF VaultInv, VaultBacked
  <2> SUFFICES ASSUME NEW h \in Htlcs, htlcs[h].status = "ACTIVE"
               PROVE  channels[htlcs[h].channelId].status = "ACTIVE"
      BY DEF NoStrandedHTLC
  <2> DEFINE c == htlcs[h].channelId
             A == Reserved(c)
  <2>1. c \in Channels /\ htlcs[h].amount > 0 /\ h \in A /\ A \in SUBSET Htlcs
      BY DEF VaultInv, HTLCsPlaced, Reserved
  <2>2. \A k \in Htlcs : amounts[k] = htlcs[k].amount /\ amounts[k] \in Nat
      BY DEF VaultInv, IInv, TypeOK, HTLC, amounts
  <2>3. activeHTLCLockedAmount[c] = SumFunctionOnSet(amounts, A)
      BY <2>1 DEF VaultInv, HTLCReserveExact
  <2> HIDE DEF A
  <2>4. amounts[h] <= SumFunctionOnSet(amounts, A) /\ SumFunctionOnSet(amounts, A) \in Nat
      BY <2>1, <2>2, Finite, SumMember, SumNat
  <2>5. activeHTLCLockedAmount[c] # 0
      BY <2>1, <2>2, <2>3, <2>4
  <2> QED BY <2>1, <2>5 DEF VaultInv, IInv, EscrowInv, ReservedOnlyWhileActive
<1> QED BY <1>1, InitVault, StepVault, PTL DEF Spec
-----------------------------------------------------------------------------
(***************************************************************************)
(* Consent.  A signature of the current epoch was given by a signer who    *)
(* had seen everything that has happened to the channel on chain.  The     *)
(* epoch is counted wherever states are signed, and HTLC identifiers are   *)
(* never reused.                                                           *)
(***************************************************************************)
SignatureFresh(g) ==
    LET c == g.channelId IN
    /\ channels[c].status # "NONE" /\ c \notin Unsigned
    /\ g.stateEpoch <= channels[c].stateEpoch
    /\ g.stateEpoch = channels[c].stateEpoch => g.seen = Outcomes(c)

UnusedHTLC == \A h \in Htlcs : htlcs[h].status = "NONE" => htlcs[h].channelId = None

ConsentInv == TypeOK /\ UnusedHTLC /\ \A g \in signed : SignatureFresh(g)

\* The step shows a signer of channel c nothing new.
SameOutcomes(c) ==
    /\ channels'[c].deposit = channels[c].deposit
    /\ \A h \in Htlcs : /\ htlcs'[h].channelId = c <=> htlcs[h].channelId = c
                        /\ htlcs[h].channelId = c => htlcs'[h].status = htlcs[h].status

LEMMA OutcomesKept == ASSUME NEW c, SameOutcomes(c) PROVE Outcomes(c)' = Outcomes(c)
<1>1. {h \in Htlcs : htlcs'[h].channelId = c} = {h \in Htlcs : htlcs[h].channelId = c}
    BY DEF SameOutcomes
<1>2. [h \in {h \in Htlcs : htlcs'[h].channelId = c} |-> htlcs'[h].status]
        = [h \in {h \in Htlcs : htlcs[h].channelId = c} |-> htlcs[h].status]
    BY <1>1 DEF SameOutcomes
<1> QED BY <1>2 DEF Outcomes, SameOutcomes

LEMMA FreshKept ==
    ASSUME NEW g, SignatureFresh(g), SameOutcomes(g.channelId),
           channels'[g.channelId].status # "NONE",
           channels'[g.channelId].stateEpoch = channels[g.channelId].stateEpoch
    PROVE  SignatureFresh(g)'
<1>1. Outcomes(g.channelId)' = Outcomes(g.channelId)
    BY OutcomesKept
<1> QED BY <1>1 DEF SignatureFresh

\* An on-chain change makes every signature of the channel stale.
LEMMA BumpStale ==
    ASSUME TypeOK, NEW g \in signed, SignatureFresh(g), EpochRoom(g.channelId),
           channels'[g.channelId].status # "NONE",
           channels'[g.channelId].stateEpoch = BumpEpoch(g.channelId, channels[g.channelId].stateEpoch)
    PROVE  SignatureFresh(g)'
<1> DEFINE c == g.channelId
<1>1. c \in Channels /\ g.stateEpoch \in Nat
    BY DEF TypeOK
<1>2. channels[c].stateEpoch \in Nat
    BY <1>1 DEF TypeOK, Channel
<1>3. channels'[c].stateEpoch = channels[c].stateEpoch + 1
    BY <1>2 DEF SignatureFresh, BumpEpoch
<1>4. g.stateEpoch < channels'[c].stateEpoch
    BY <1>1, <1>2, <1>3 DEF SignatureFresh
<1> QED BY <1>1, <1>2, <1>3, <1>4 DEF SignatureFresh

LEMMA InitConsent == Init => ConsentInv
<1> SUFFICES ASSUME Init PROVE ConsentInv
    OBVIOUS
<1> QED BY InitTyped DEF Init, ConsentInv, UnusedHTLC, NoHTLC

LEMMA OpenFresh ==
    ConsentInv /\ (Open \/ Batch) => \A g \in signed : SignatureFresh(g)'
<1> SUFFICES ASSUME ConsentInv, Open \/ Batch, NEW g \in signed PROVE SignatureFresh(g)'
    OBVIOUS
<1> DEFINE c == g.channelId
<1>1. c \in Channels /\ SignatureFresh(g)
    BY DEF ConsentInv, TypeOK
<1>2. channels'[c] = channels[c] /\ htlcs' = htlcs
    <2>1. CASE Open
        <3>1. PICK p \in Parties, q \in Parties, amount \in Deposits, d \in ChallengePeriods,
                   k \in Channels : openChannel(p, q, amount, d, k)
            BY <2>1 DEF Open
        <3>2. c # k
            BY <1>1, <3>1 DEF openChannel, SignatureFresh
        <3> QED BY <1>1, <3>1, <3>2 DEF openChannel, ConsentInv, TypeOK
    <2>2. CASE Batch
        <3>1. PICK p \in Parties, o \in Opening, d \in ChallengePeriods :
                    batchOpenChannels(p, o, d)
            BY <2>2 DEF Batch
        <3>2. c \notin DOMAIN o
            BY <1>1, <3>1 DEF batchOpenChannels, SignatureFresh
        <3> QED BY <1>1, <3>1, <3>2 DEF batchOpenChannels
    <2> QED BY <2>1, <2>2
<1>3. SameOutcomes(c)
    BY <1>2 DEF SameOutcomes
<1> QED BY <1>1, <1>2, <1>3, FreshKept DEF SignatureFresh

LEMMA FundFresh == ConsentInv /\ Fund => \A g \in signed : SignatureFresh(g)'
<1> SUFFICES ASSUME ConsentInv, Fund, NEW g \in signed PROVE SignatureFresh(g)'
    OBVIOUS
<1> DEFINE c == g.channelId
<1>1. c \in Channels /\ SignatureFresh(g)
    BY DEF ConsentInv, TypeOK
<1>2. PICK p \in Parties, k \in Channels, amount \in Deposits : fundChannel(p, k, amount)
    BY DEF Fund
<1>3. CASE c = k
    <2>1. channels[c] \in Channel
        BY <1>1 DEF ConsentInv, TypeOK
    <2>2. /\ channels'[c].stateEpoch = BumpEpoch(c, channels[c].stateEpoch)
          /\ channels'[c].status # "NONE" /\ EpochRoom(c)
        BY <1>1, <1>2, <1>3, <2>1 DEF fundChannel, ConsentInv, TypeOK, Channel
    <2> QED BY <1>1, <2>2, BumpStale DEF ConsentInv
<1>4. CASE c # k
    <2>1. channels'[c] = channels[c] /\ htlcs' = htlcs
        BY <1>1, <1>2, <1>4 DEF fundChannel, ConsentInv, TypeOK
    <2>2. SameOutcomes(c)
        BY <2>1 DEF SameOutcomes
    <2> QED BY <1>1, <2>1, <2>2, FreshKept DEF SignatureFresh
<1> QED BY <1>3, <1>4

\* A close changes neither the epoch nor what a signer can have seen.
LEMMA ClosingFields ==
    ASSUME TypeOK, NEW c \in Channels, NEW bal, NEW n, NEW st, st # "NONE",
           channels' = [channels EXCEPT ![c].status = st, ![c].balance = bal, ![c].nonce = n],
           NEW k \in Channels, channels[k].status # "NONE"
    PROVE  /\ channels'[k].stateEpoch = channels[k].stateEpoch
           /\ channels'[k].deposit = channels[k].deposit
           /\ channels'[k].status # "NONE"
<1>1. channels[k] \in Channel
    BY DEF TypeOK
<1> QED BY <1>1 DEF TypeOK, Channel

LEMMA CloseFresh ==
    ASSUME ConsentInv, NEW c \in Channels,
           Cancel(c) \/ Cooperate(c) \/ Unilateral(c) \/ CurrentState(c) \/ finalizeClose(c)
                \/ \E p \in Parties : Counter(p, c)
    PROVE  \A g \in signed : SignatureFresh(g)'
<1> SUFFICES ASSUME NEW g \in signed PROVE SignatureFresh(g)'
    OBVIOUS
<1> DEFINE k == g.channelId
           Kept == /\ channels'[k].stateEpoch = channels[k].stateEpoch
                   /\ channels'[k].deposit = channels[k].deposit
                   /\ channels'[k].status # "NONE"
                   /\ htlcs' = htlcs
<1>1. k \in Channels /\ SignatureFresh(g) /\ channels[k].status # "NONE" /\ TypeOK
    BY DEF ConsentInv, TypeOK, SignatureFresh
<1>2. Kept
    <2>1. CASE Cancel(c)
        <3>1. channels[k] \in Channel
            BY <1>1 DEF TypeOK
        <3>2. channels' = [channels EXCEPT ![c].status = "CLOSED"] /\ htlcs' = htlcs
            BY <2>1 DEF Cancel, cancelOpenChannel
        <3> QED BY <1>1, <3>1, <3>2 DEF TypeOK, Channel
    <2>2. CASE Cooperate(c)
        <3>1. PICK q \in Parties, b \in signed : cooperativeClose(q, c, b.balance, b.nonce)
            BY <2>2 DEF Cooperate
        <3> QED BY <1>1, <3>1, ClosingFields DEF cooperativeClose, _settleChannel
    <2>3. CASE Unilateral(c)
        <3>1. PICK q \in Parties, b \in signed :
                    initiateUnilateralClose(q, c, b.balance, b.nonce)
            BY <2>3 DEF Unilateral
        <3> QED BY <1>1, <3>1, ClosingFields DEF initiateUnilateralClose, Claim
    <2>4. CASE CurrentState(c)
        <3>1. PICK q \in Parties : initiateCurrentStateClose(q, c)
            BY <2>4 DEF CurrentState
        <3> QED BY <1>1, <3>1, ClosingFields DEF initiateCurrentStateClose, Claim
    <2>5. CASE finalizeClose(c)
        BY <1>1, <2>5, ClosingFields DEF finalizeClose, _settleChannel
    <2>6. CASE \E p \in Parties : Counter(p, c)
        <3>1. PICK q \in Parties, b \in signed : counterDispute(q, c, b.balance, b.nonce)
            BY <2>6 DEF Counter
        <3> QED BY <1>1, <3>1, ClosingFields DEF counterDispute, Claim
    <2> QED BY <2>1, <2>2, <2>3, <2>4, <2>5, <2>6
<1>3. SameOutcomes(k)
    BY <1>2 DEF SameOutcomes
<1> QED BY <1>1, <1>2, <1>3, FreshKept

LEMMA CreateFresh ==
    ConsentInv /\ ~RecycleHtlcs /\ Create => UnusedHTLC' /\ \A g \in signed : SignatureFresh(g)'
<1> SUFFICES ASSUME ConsentInv, ~RecycleHtlcs, Create
             PROVE  UnusedHTLC' /\ \A g \in signed : SignatureFresh(g)'
    OBVIOUS
<1>1. PICK p \in Parties, c \in Channels, amount \in HtlcAmounts, t \in Timelocks,
           h \in Htlcs : createHTLC(p, c, amount, t, h)
    BY DEF Create
<1>2. htlcs[h].status = "NONE" /\ htlcs[h].channelId = None /\ None \notin Channels
    BY <1>1, ChannelAssumption DEF createHTLC, ConsentInv, UnusedHTLC
<1>3. /\ htlcs'[h].channelId = c /\ htlcs'[h].status = "ACTIVE"
      /\ \A i \in Htlcs \ {h} : htlcs'[i] = htlcs[i]
    BY <1>1 DEF createHTLC, ConsentInv, TypeOK
<1>4. UnusedHTLC'
    BY <1>3 DEF ConsentInv, UnusedHTLC
<1>5. ASSUME NEW g \in signed PROVE SignatureFresh(g)'
    <2> DEFINE k == g.channelId
    <2>1. k \in Channels /\ SignatureFresh(g)
        BY DEF ConsentInv, TypeOK
    <2>2. channels[k] \in Channel
        BY <2>1 DEF ConsentInv, TypeOK
    <2>3. CASE k = c
        <3>1. /\ channels'[k].stateEpoch = BumpEpoch(k, channels[k].stateEpoch)
              /\ channels'[k].status # "NONE" /\ EpochRoom(k)
            BY <1>1, <2>1, <2>2, <2>3 DEF createHTLC, ConsentInv, TypeOK, Channel
        <3> QED BY <2>1, <3>1, BumpStale DEF ConsentInv
    <2>4. CASE k # c
        <3>1. channels'[k] = channels[k]
            BY <1>1, <2>1, <2>4 DEF createHTLC, ConsentInv, TypeOK
        <3>2. SameOutcomes(k)
            BY <1>2, <1>3, <2>1, <2>4, <3>1 DEF SameOutcomes
        <3> QED BY <2>1, <3>1, <3>2, FreshKept DEF SignatureFresh
    <2> QED BY <2>3, <2>4
<1> QED BY <1>4, <1>5

LEMMA ReleaseFresh ==
    ASSUME ConsentInv, NEW h \in Htlcs, NEW s \in Sides, NEW outcome \in {"CLAIMED", "REFUNDED"},
           ReleaseHTLC(h, s, outcome)
    PROVE  UnusedHTLC' /\ \A g \in signed : SignatureFresh(g)'
<1>1. htlcs[h] \in HTLC
    BY DEF ConsentInv, TypeOK
<1>2. /\ htlcs'[h].channelId = htlcs[h].channelId /\ htlcs'[h].status = outcome
      /\ \A i \in Htlcs \ {h} : htlcs'[i] = htlcs[i]
    BY <1>1 DEF ReleaseHTLC, ConsentInv, TypeOK, HTLC
<1>3. UnusedHTLC'
    BY <1>2 DEF ConsentInv, UnusedHTLC
<1>4. ASSUME NEW g \in signed PROVE SignatureFresh(g)'
    <2> DEFINE k == g.channelId
    <2>1. k \in Channels /\ SignatureFresh(g)
        BY DEF ConsentInv, TypeOK
    <2>2. channels[k] \in Channel
        BY <2>1 DEF ConsentInv, TypeOK
    <2>3. CASE k = htlcs[h].channelId
        <3>1. /\ channels'[k].stateEpoch = BumpEpoch(k, channels[k].stateEpoch)
              /\ channels'[k].status # "NONE" /\ EpochRoom(k)
            BY <2>1, <2>2, <2>3 DEF ReleaseHTLC, ConsentInv, TypeOK, Channel, SignatureFresh
        <3> QED BY <2>1, <3>1, BumpStale DEF ConsentInv
    <2>4. CASE k # htlcs[h].channelId
        <3>1. channels'[k] = channels[k]
            BY <2>1, <2>4 DEF ReleaseHTLC, ConsentInv, TypeOK
        <3>2. SameOutcomes(k)
            BY <1>2, <2>1, <2>4, <3>1 DEF SameOutcomes
        <3> QED BY <2>1, <3>1, <3>2, FreshKept DEF SignatureFresh
    <2> QED BY <2>3, <2>4
<1> QED BY <1>3, <1>4

\* A new signature records what its signer sees; the clock and governance
\* change neither channels nor HTLC outcomes.
LEMMA QuietFresh ==
    ConsentInv /\ (Sign \/ Tick \/ Outside \/ UNCHANGED vars)
        => UnusedHTLC' /\ \A g \in signed' : SignatureFresh(g)'
<1> SUFFICES ASSUME ConsentInv, Sign \/ Tick \/ Outside \/ UNCHANGED vars
             PROVE  UnusedHTLC' /\ \A g \in signed' : SignatureFresh(g)'
    OBVIOUS
<1>1. /\ channels' = channels
      /\ \A h \in Htlcs : /\ htlcs'[h].channelId = htlcs[h].channelId
                          /\ htlcs'[h].status = htlcs[h].status
    <2>1. CASE Sign
        BY <2>1 DEF Sign, signState, chanVars
    <2>2. CASE Tick
        <3>1. ASSUME NEW h \in Htlcs
              PROVE  /\ htlcs'[h].channelId = htlcs[h].channelId
                     /\ htlcs'[h].status = htlcs[h].status
            <4>1. htlcs[h] \in HTLC
                BY DEF ConsentInv, TypeOK
            <4>2. htlcs'[h] = IF htlcs[h].status = "ACTIVE"
                        THEN [htlcs[h] EXCEPT !.left = Later(@)] ELSE htlcs[h]
                BY <2>2 DEF Tick
            <4> QED BY <4>1, <4>2 DEF HTLC
        <3> QED BY <2>2, <3>1 DEF Tick
    <2>3. CASE Outside
        BY <2>3 DEF Outside, Treasury, setProtocolTreasury, setProtocolFeeBps, SetPaused,
                    setSupportedToken, RegistryChanges, IssuerChanges, chanVars
    <2>4. CASE UNCHANGED vars
        BY <2>4 DEF vars, chanVars
    <2> QED BY <2>1, <2>2, <2>3, <2>4
<1>2. UnusedHTLC'
    BY <1>1 DEF ConsentInv, UnusedHTLC
<1>3. ASSUME NEW g \in signed PROVE SignatureFresh(g)'
    <2>1. SameOutcomes(g.channelId) /\ SignatureFresh(g)
        BY <1>1 DEF SameOutcomes, ConsentInv
    <2> QED BY <1>1, <2>1, FreshKept DEF SignatureFresh
<1>4. ASSUME NEW g \in signed', g \notin signed PROVE SignatureFresh(g)'
    <2>1. CASE Sign
        <3>1. PICK p \in Parties, c \in Channels, e \in Anticipated, n \in 1 .. MaxNonce,
                   type \in StateType :
                   \E bal \in Splits(Total(c) + e) : signState(p, c, bal, n, type)
            BY <2>1 DEF Sign
        <3>2. PICK bal \in Splits(Total(c) + e) : signState(p, c, bal, n, type)
            BY <3>1
        <3>3. g = [signer |-> p, channelId |-> c, balance |-> bal, nonce |-> n,
                   stateType |-> type, stateEpoch |-> channels[c].stateEpoch,
                   seen |-> Outcomes(c)]
            BY <1>4, <3>2 DEF signState
        <3>4. channels[c].status # "NONE" /\ c \notin Unsigned
            BY <3>2 DEF signState
        <3>5. /\ g.channelId = c /\ g.stateEpoch = channels[c].stateEpoch
              /\ g.seen = Outcomes(c)
            BY <3>3
        <3>6. channels[c].stateEpoch \in Nat
            BY DEF ConsentInv, TypeOK, Channel
        <3>7. SignatureFresh(g)
            BY <3>4, <3>5, <3>6 DEF SignatureFresh
        <3>8. SameOutcomes(g.channelId)
            BY <1>1 DEF SameOutcomes
        <3> QED BY <1>1, <3>7, <3>8, FreshKept DEF SignatureFresh
    <2>2. CASE ~Sign
        <3>1. signed' = signed
            BY <2>2 DEF Tick, Outside, Treasury, setProtocolTreasury, setProtocolFeeBps,
                        SetPaused, setSupportedToken, RegistryChanges, IssuerChanges, vars
        <3> QED BY <1>4, <3>1
    <2> QED BY <2>1, <2>2
<1> QED BY <1>2, <1>3, <1>4

LEMMA StepConsent == ConsentInv /\ ~RecycleHtlcs /\ [Next]_vars => ConsentInv'
<1> SUFFICES ASSUME ConsentInv, ~RecycleHtlcs, [Next]_vars
             PROVE  UnusedHTLC' /\ \A g \in signed' : SignatureFresh(g)'
    BY StepTyped DEF ConsentInv
<1>1. CASE Open \/ Batch
    <2>1. signed' = signed /\ htlcs' = htlcs
        BY <1>1 DEF Open, openChannel, Batch, batchOpenChannels
    <2> QED BY <1>1, <2>1, OpenFresh DEF ConsentInv, UnusedHTLC
<1>2. CASE Fund
    <2>1. signed' = signed /\ htlcs' = htlcs
        BY <1>2 DEF Fund, fundChannel
    <2> QED BY <1>2, <2>1, FundFresh DEF ConsentInv, UnusedHTLC
<1>3. ASSUME NEW c \in Channels,
             Cancel(c) \/ Cooperate(c) \/ Unilateral(c) \/ CurrentState(c) \/ finalizeClose(c)
                \/ \E p \in Parties : Counter(p, c)
      PROVE  UnusedHTLC' /\ \A g \in signed' : SignatureFresh(g)'
    <2>1. signed' = signed /\ htlcs' = htlcs
        BY <1>3 DEF Cancel, cancelOpenChannel, Cooperate, cooperativeClose, Unilateral,
                    initiateUnilateralClose, CurrentState, initiateCurrentStateClose,
                    finalizeClose, Counter, counterDispute, Claim
    <2> QED BY <1>3, <2>1, CloseFresh DEF ConsentInv, UnusedHTLC
<1>4. CASE Create
    <2>1. signed' = signed
        BY <1>4 DEF Create, createHTLC
    <2> QED BY <1>4, <2>1, CreateFresh
<1>5. ASSUME NEW h \in Htlcs, claimHTLC(h) \/ refundHTLC(h)
      PROVE  UnusedHTLC' /\ \A g \in signed' : SignatureFresh(g)'
    <2>1. htlcs[h].sender \in Sides /\ Other(htlcs[h].sender) \in Sides
        BY DEF ConsentInv, TypeOK, HTLC, Other, Sides
    <2>2. signed' = signed
        BY <1>5 DEF claimHTLC, refundHTLC, ReleaseHTLC
    <2> QED BY <1>5, <2>1, <2>2, ReleaseFresh DEF claimHTLC, refundHTLC
<1>6. CASE Sign \/ Tick \/ Outside \/ UNCHANGED vars
    BY <1>6, QuietFresh
<1> QED BY <1>1, <1>2, <1>3, <1>4, <1>5, <1>6 DEF Next, Outside

\* A valid signature of the current epoch is consent to the state it signs.
LEMMA ValidIsConsent ==
    ASSUME ConsentInv, NEW c \in Channels, NEW p, NEW bal, NEW n, NEW type,
           ValidSignature(p, c, bal, n, type),
           channels'[c].balance = bal, channels'[c].nonce = n
    PROVE  \E g \in signed : g.signer = p /\ FreshConsent(g, c, type)
<1>1. PICK g \in signed : /\ g.signer = p /\ g.channelId = c /\ g.balance = bal
                          /\ g.nonce = n /\ g.stateType = type
                          /\ g.stateEpoch = channels[c].stateEpoch
    BY DEF ValidSignature
<1>2. g.seen = Outcomes(c)
    BY <1>1 DEF ConsentInv, SignatureFresh
<1> QED BY <1>1, <1>2 DEF FreshConsent

\* A channel whose status a step leaves alone or does not close keeps consent.
LEMMA NoClose ==
    ASSUME NEW c,
           \/ channels[c].status \notin {"ACTIVE", "CLOSING"}
           \/ channels'[c].status \notin {"CLOSING", "CLOSED"}
           \/ /\ channels[c].status # "ACTIVE"
              /\ \A s \in Sides : ~ (channels'[c].balance[s] < channels[c].balance[s])
    PROVE  ConsentStep(c)
BY DEF ConsentStep

LEMMA SameChannel ==
    ASSUME TypeOK, NEW c \in Channels, channels'[c] = channels[c] PROVE ConsentStep(c)
<1>1. \A s \in Sides : channels[c].balance[s] \in Nat
    BY DEF TypeOK, Channel
<1> QED BY <1>1, NoClose

LEMMA ClaimConsent ==
    ASSUME ConsentInv, NEW p \in Parties, NEW c \in Channels, NEW bal, NEW n,
           Claim(p, c, bal, n), IsParty(p, c),
           CounterpartySigned(p, c, bal, n) \/ bal = channels[c].balance
    PROVE  ConsentStep(c)
<1>1. channels[c] \in Channel
    BY DEF ConsentInv, TypeOK
<1>2. /\ channels'[c].status = "CLOSING" /\ channels'[c].balance = bal
      /\ channels'[c].nonce = n /\ disputes'[c].challenger = p
    BY <1>1 DEF Claim, ConsentInv, TypeOK, Channel
<1>3. ASSUME NEW s \in Sides, bal[s] < channels[c].balance[s]
      PROVE  \/ p = channels[c].party[s]
             \/ \E g \in signed : g.signer = channels[c].party[s] /\ FreshConsent(g, c, "STATE")
    <2>1. channels[c].party[SideOf(p, c)] = p
        BY DEF IsParty, SideOf, Sides
    <2>2. CASE s = SideOf(p, c)
        BY <2>1, <2>2
    <2>3. CASE s # SideOf(p, c)
        <3>1. s = Other(SideOf(p, c))
            BY <2>3 DEF SideOf, Other, Sides
        <3>2. channels[c].balance[s] \in Nat
            BY <1>1 DEF Channel
        <3>3. CounterpartySigned(p, c, bal, n)
            BY <1>3, <3>2
        <3>4. ValidSignature(channels[c].party[s], c, bal, n, "STATE")
            BY <3>1, <3>3 DEF CounterpartySigned
        <3> QED BY <1>2, <3>4, ValidIsConsent
    <2> QED BY <2>2, <2>3
<1> QED BY <1>2, <1>3 DEF ConsentStep

LEMMA CloseConsent ==
    ASSUME ConsentInv, NEW c \in Channels,
           Cooperate(c) \/ Unilateral(c) \/ CurrentState(c) \/ finalizeClose(c)
                \/ \E p \in Parties : Counter(p, c)
    PROVE  ConsentStep(c)
<1>1. channels[c] \in Channel
    BY DEF ConsentInv, TypeOK
<1>2. CASE Cooperate(c)
    <2>1. PICK q \in Parties, b \in signed : cooperativeClose(q, c, b.balance, b.nonce)
        BY <1>2 DEF Cooperate
    <2>2. /\ channels'[c].status = "CLOSED" /\ channels'[c].balance = b.balance
          /\ channels'[c].nonce = b.nonce
        BY <1>1, <2>1 DEF cooperativeClose, _settleChannel, ConsentInv, TypeOK, Channel
    <2>3. \A s \in Sides : ValidSignature(channels[c].party[s], c, b.balance, b.nonce, "CLOSE")
        BY <2>1 DEF cooperativeClose
    <2>4. \A s \in Sides : \E g \in signed :
                g.signer = channels[c].party[s] /\ FreshConsent(g, c, "CLOSE")
        BY <2>2, <2>3, ValidIsConsent
    <2> QED BY <2>2, <2>4 DEF ConsentStep
<1>3. CASE Unilateral(c)
    <2>1. PICK q \in Parties, b \in signed : initiateUnilateralClose(q, c, b.balance, b.nonce)
        BY <1>3 DEF Unilateral
    <2> QED BY <2>1, ClaimConsent DEF initiateUnilateralClose
<1>4. CASE CurrentState(c)
    <2>1. PICK q \in Parties : initiateCurrentStateClose(q, c)
        BY <1>4 DEF CurrentState
    <2> QED BY <2>1, ClaimConsent DEF initiateCurrentStateClose
<1>5. CASE finalizeClose(c)
    <2>1. channels[c].status = "CLOSING" /\ channels'[c].status = "CLOSED"
        BY <1>1, <1>5 DEF finalizeClose, _settleChannel, ConsentInv, TypeOK, Channel
    <2> QED BY <2>1 DEF ConsentStep
<1>6. CASE \E p \in Parties : Counter(p, c)
    <2>1. PICK q \in Parties, b \in signed : counterDispute(q, c, b.balance, b.nonce)
        BY <1>6 DEF Counter
    <2> QED BY <2>1, ClaimConsent DEF counterDispute
<1> QED BY <1>2, <1>3, <1>4, <1>5, <1>6

\* A close of channel k leaves every other channel alone.
LEMMA CloseOthers ==
    ASSUME TypeOK, NEW k \in Channels, NEW c \in Channels, c # k,
           Cancel(k) \/ Cooperate(k) \/ Unilateral(k) \/ CurrentState(k) \/ finalizeClose(k)
                \/ \E p \in Parties : Counter(p, k)
    PROVE  channels'[c] = channels[c]
BY DEF Cancel, cancelOpenChannel, Cooperate, cooperativeClose, _settleChannel, Unilateral,
       initiateUnilateralClose, CurrentState, initiateCurrentStateClose, finalizeClose,
       Counter, counterDispute, Claim, TypeOK

\* An HTLC outcome credits an amount and leaves the status alone.
LEMMA ReleaseConsent ==
    ASSUME TypeOK, NEW h \in Htlcs, NEW s \in Sides, NEW outcome, ReleaseHTLC(h, s, outcome),
           NEW c \in Channels
    PROVE  ConsentStep(c)
<1>1. CASE c # htlcs[h].channelId
    BY <1>1, SameChannel DEF ReleaseHTLC, TypeOK
<1>2. CASE c = htlcs[h].channelId
    <2>1. channels[c] \in Channel /\ htlcs[h].amount \in Nat
        BY DEF TypeOK, HTLC
    <2>2. /\ channels'[c].status = channels[c].status
          /\ channels'[c].balance = [channels[c].balance EXCEPT ![s] = @ + htlcs[h].amount]
        BY <1>2, <2>1 DEF ReleaseHTLC, TypeOK, Channel
    <2>3. \A r \in Sides : ~ (channels'[c].balance[r] < channels[c].balance[r])
        BY <2>1, <2>2 DEF Channel
    <2> QED BY <2>2, <2>3, NoClose
<1> QED BY <1>1, <1>2

LEMMA StepConsents ==
    ASSUME ConsentInv, [Next]_vars, NEW c \in Channels PROVE ConsentStep(c)
<1> USE DEF ConsentInv
<1>0. channels[c] \in Channel
    BY DEF TypeOK
<1>1. CASE Open
    <2>1. PICK p \in Parties, q \in Parties, amount \in Deposits, d \in ChallengePeriods,
               k \in Channels : openChannel(p, q, amount, d, k)
        BY <1>1 DEF Open
    <2>2. CASE c = k
        BY <2>1, <2>2, NoClose DEF openChannel
    <2>3. CASE c # k
        BY <2>1, <2>3, SameChannel DEF openChannel, TypeOK
    <2> QED BY <2>2, <2>3
<1>2. CASE Batch
    <2>1. PICK p \in Parties, o \in Opening, d \in ChallengePeriods : batchOpenChannels(p, o, d)
        BY <1>2 DEF Batch
    <2>2. CASE c \in DOMAIN o
        BY <2>1, <2>2, NoClose DEF batchOpenChannels
    <2>3. CASE c \notin DOMAIN o
        BY <2>1, <2>3, SameChannel DEF batchOpenChannels
    <2> QED BY <2>2, <2>3
<1>3. CASE Fund
    <2>1. PICK p \in Parties, k \in Channels, amount \in Deposits : fundChannel(p, k, amount)
        BY <1>3 DEF Fund
    <2>2. CASE c = k
        <3>1. channels'[c].status \notin {"CLOSING", "CLOSED"}
            BY <1>0, <2>1, <2>2 DEF fundChannel, TypeOK, Channel
        <3> QED BY <3>1, NoClose
    <2>3. CASE c # k
        BY <2>1, <2>3, SameChannel DEF fundChannel, TypeOK
    <2> QED BY <2>2, <2>3
<1>4. CASE Create
    <2>1. PICK p \in Parties, k \in Channels, amount \in HtlcAmounts, t \in Timelocks,
               h \in Htlcs : createHTLC(p, k, amount, t, h)
        BY <1>4 DEF Create
    <2>2. CASE c = k
        <3>1. channels'[c].status = "ACTIVE"
            BY <1>0, <2>1, <2>2 DEF createHTLC, TypeOK, Channel
        <3> QED BY <3>1, NoClose
    <2>3. CASE c # k
        BY <2>1, <2>3, SameChannel DEF createHTLC, TypeOK
    <2> QED BY <2>2, <2>3
<1>5. ASSUME NEW k \in Channels, Cancel(k) PROVE ConsentStep(c)
    <2>1. CASE c = k
        BY <1>5, <2>1, NoClose DEF Cancel, cancelOpenChannel
    <2>2. CASE c # k
        BY <1>5, <2>2, CloseOthers, SameChannel
    <2> QED BY <2>1, <2>2
<1>6. ASSUME NEW k \in Channels,
             Cooperate(k) \/ Unilateral(k) \/ CurrentState(k) \/ finalizeClose(k)
                \/ \E p \in Parties : Counter(p, k)
      PROVE  ConsentStep(c)
    <2>1. CASE c = k
        BY <1>6, <2>1, CloseConsent
    <2>2. CASE c # k
        BY <1>6, <2>2, CloseOthers, SameChannel
    <2> QED BY <2>1, <2>2
<1>7. ASSUME NEW h \in Htlcs, claimHTLC(h) \/ refundHTLC(h) PROVE ConsentStep(c)
    <2>1. htlcs[h].sender \in Sides /\ Other(htlcs[h].sender) \in Sides
        BY DEF TypeOK, HTLC, Other, Sides
    <2> QED BY <1>7, <2>1, ReleaseConsent DEF claimHTLC, refundHTLC
<1>8. CASE Sign \/ Tick \/ Outside \/ UNCHANGED vars
    <2>1. channels' = channels
        BY <1>8 DEF Sign, signState, Tick, Outside, Treasury, setProtocolTreasury,
                    setProtocolFeeBps, SetPaused, setSupportedToken, RegistryChanges,
                    IssuerChanges, vars, chanVars
    <2> QED BY <2>1, SameChannel
<1> QED BY <1>1, <1>2, <1>3, <1>4, <1>5, <1>6, <1>7, <1>8 DEF Next, Outside

\* In every instance in which HTLC identifiers are not reused, nobody is closed
\* out against their will: money moves away from a party only through a state
\* that party submitted, or signed after the last on-chain change of the channel.
THEOREM ClosesAreConsented == ~RecycleHtlcs => (Spec => ClosesByConsent)
<1> SUFFICES ASSUME ~RecycleHtlcs PROVE Spec => ClosesByConsent
    OBVIOUS
<1>1. ConsentInv /\ [Next]_vars => ConsentInv'
    BY StepConsent
<1>2. ConsentInv /\ [Next]_vars => \A c \in Channels : ConsentStep(c)
    BY StepConsents
<1>3. Spec => [][\A c \in Channels : ConsentStep(c)]_vars
    BY <1>1, <1>2, InitConsent, PTL DEF Spec
<1> QED BY <1>3 DEF ClosesByConsent
=============================================================================
