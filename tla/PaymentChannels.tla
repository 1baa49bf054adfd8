--------------------------- MODULE PaymentChannels ---------------------------
(***************************************************************************)
(* The PaymentChannels contract (contracts/src/PaymentChannels.sol): two   *)
(* businesses escrow a stablecoin, exchange signed states off chain, lock  *)
(* conditional payments (HTLCs) on chain, and close the channel together,  *)
(* from a signed state, or from the balances the contract itself holds.    *)
(*                                                                         *)
(* Each action is one transaction.  A reverted transaction changes nothing *)
(* and is therefore no step, so every `revert' of the contract is a        *)
(* conjunct of a guard.                                                    *)
(*                                                                         *)
(* Time.  block.timestamp is only compared with deadlines, so a deadline   *)
(* is kept as the time that is left until it: left >= 0 is                 *)
(* "block.timestamp <= deadline" and left = -1 is "strictly after it".     *)
(*                                                                         *)
(* Signatures.  A signed state stays in the hands of whoever received it,  *)
(* for ever, and may be submitted at any time; `signed' only grows.        *)
(***************************************************************************)
EXTENDS Integers, FiniteSets, Functions

CONSTANTS
    Parties,            \* wallets of businesses
    Treasuries,         \* addresses that may be the fee beneficiary
    Vault,              \* the contract's own address
    None,               \* address(0), bytes32(0)
    Channels, Htlcs,    \* identifiers (keccak256 of nonces: never reused)
    Deposits,           \* amounts offered to openChannel and fundChannel
    HtlcAmounts,        \* amounts offered to createHTLC
    Timelocks,          \* offered HTLC durations
    ChallengePeriods,   \* offered challenge periods
    MIN_CHALLENGE_PERIOD, MAX_CHALLENGE_PERIOD,
    MIN_HTLC_TIMELOCK, MAX_HTLC_TIMELOCK,
    BpsDenominator,     \* 10_000 in the contract
    MAX_PROTOCOL_FEE_BPS,
    FeeRates,           \* rates offered to setProtocolFeeBps
    InitialFunds,       \* tokens each party starts with
    Anticipated,        \* deposits, not yet made, that a signer may count on
    MaxNonce,           \* bound on the nonce of a signed state
    MaxSigned,          \* bound on the number of signatures given
    EpochBound,         \* bound on stateEpoch
    Unsigned,           \* channels whose parties never sign a state
    KycStates,          \* sets of businesses the registry may hold active
    PauseStates,        \* values `paused' may take
    TokenStates,        \* values supportedTokens[token] may take
    Unreachable,        \* addresses the token's issuer may block
    RecycleHtlcs        \* may a resolved identifier stand for a new HTLC?

ASSUME ChannelAssumption ==
    /\ None \notin Parties /\ Vault \notin Parties \cup Treasuries
    /\ None \notin Channels /\ None # Vault
    /\ IsFiniteSet(Channels) /\ IsFiniteSet(Htlcs)
    /\ Deposits \subseteq Nat /\ HtlcAmounts \subseteq Nat
    /\ Timelocks \subseteq Nat /\ ChallengePeriods \subseteq Nat
    /\ FeeRates \subseteq Nat /\ BpsDenominator \in Nat \ {0}
    /\ MAX_PROTOCOL_FEE_BPS \in Nat /\ MAX_PROTOCOL_FEE_BPS <= BpsDenominator
    /\ Anticipated \subseteq Nat /\ InitialFunds \in Nat /\ MaxNonce \in Nat /\ MaxSigned \in Nat
    /\ EpochBound \in Nat \ {0} /\ Unsigned \subseteq Channels /\ RecycleHtlcs \in BOOLEAN
    /\ KycStates \subseteq SUBSET Parties
    /\ PauseStates \subseteq BOOLEAN /\ TokenStates \subseteq BOOLEAN
    /\ Unreachable \subseteq Parties \cup Treasuries

VARIABLES
    channels,                \* channelId -> Channel
    disputes,                \* channelId -> ChannelDispute
    htlcs,                   \* htlcId -> HTLC
    activeHTLCLockedAmount,  \* channelId -> amount reserved by ACTIVE HTLCs
    balanceOf,               \* the ERC-20 ledger
    blocked,                 \* addresses the token refuses to pay
    supportedToken,          \* supportedTokens[token]
    active,                  \* businesses isBusinessActive holds for
    paused, protocolFeeBps, protocolTreasury,
    signed                   \* the signatures given off chain so far

chanVars  == <<channels, disputes, htlcs, activeHTLCLockedAmount>>
tokenVars == <<balanceOf, blocked>>
adminVars == <<supportedToken, active, paused, protocolFeeBps, protocolTreasury>>
vars      == <<chanVars, tokenVars, adminVars, signed>>

Sides    == {"A", "B"}
Accounts == Parties \cup Treasuries \cup {Vault}
ChannelStatus == {"NONE", "OPEN", "FUNDED", "ACTIVE", "CLOSING", "CLOSED"}
HTLCStatus    == {"NONE", "ACTIVE", "CLAIMED", "REFUNDED"}
StateType     == {"CLOSE", "STATE"}
-----------------------------------------------------------------------------
(***************************************************************************)
(* Records.                                                                *)
(***************************************************************************)
Channel == [party: [Sides -> Parties \cup {None}], deposit: [Sides -> Nat],
            balance: [Sides -> Nat], status: ChannelStatus, nonce: Nat,
            stateEpoch: Nat, challengePeriod: Nat]

ChannelDispute == [challenger: Parties \cup {None}, challengeNonce: Nat,
                   challengeBalance: [Sides -> Nat], left: Int]

HTLC == [channelId: Channels \cup {None}, sender: Sides, amount: Nat,
         left: Int, status: HTLCStatus]

Zero == [s \in Sides |-> 0]
NoChannel == [party |-> [s \in Sides |-> None], deposit |-> Zero, balance |-> Zero,
              status |-> "NONE", nonce |-> 0, stateEpoch |-> 0, challengePeriod |-> 0]
NoDispute == [challenger |-> None, challengeNonce |-> 0,
              challengeBalance |-> Zero, left |-> 0]
NoHTLC    == [channelId |-> None, sender |-> "A", amount |-> 0, left |-> 0,
              status |-> "NONE"]

Other(s)       == IF s = "A" THEN "B" ELSE "A"
IsParty(p, c)  == \E s \in Sides : channels[c].party[s] = p
\* `msg.sender == ch.partyA ? ... : ...'
SideOf(p, c)   == IF channels[c].party["A"] = p THEN "A" ELSE "B"
\* totalDeposit
Total(c)       == channels[c].deposit["A"] + channels[c].deposit["B"]

\* What a signer of a state of channel c knows of the chain: every deposit
\* made and the fate of every HTLC.  Only properties read it.
Outcomes(c) == [deposit |-> channels[c].deposit,
                htlcs   |-> [h \in {h \in Htlcs : htlcs[h].channelId = c} |->
                                htlcs[h].status]]

Init ==
    /\ channels = [c \in Channels |-> NoChannel]
    /\ disputes = [c \in Channels |-> NoDispute]
    /\ htlcs = [h \in Htlcs |-> NoHTLC]
    /\ activeHTLCLockedAmount = [c \in Channels |-> 0]
    /\ balanceOf = [x \in Accounts |-> IF x \in Parties THEN InitialFunds ELSE 0]
    /\ blocked = {}
    /\ supportedToken \in TokenStates
    /\ active \in KycStates
    /\ paused = FALSE
    /\ protocolFeeBps \in {r \in FeeRates : r <= MAX_PROTOCOL_FEE_BPS}
    /\ protocolTreasury \in Treasuries
    /\ signed = {}
-----------------------------------------------------------------------------
(***************************************************************************)
(* Checks shared by the operations.                                        *)
(***************************************************************************)
_requireLiveKYC(p, q) == {p, q} \subseteq active

\* Mutant: closes do not wait for conditional payments.
NoHTLCCheck(c) == TRUE
_requireNoActiveHTLC(c) == activeHTLCLockedAmount[c] = 0

_validateCounterparty(p, q) == q # None /\ q # p

_validateChallengePeriod(d) == d \in MIN_CHALLENGE_PERIOD .. MAX_CHALLENGE_PERIOD

(* A transfer reverts when the payer lacks the tokens or the token's issuer *)
(* refuses the payee.  _pullExactEscrow also reverts unless exactly the      *)
(* stated amount arrives, so a completed deposit is an exact transfer.      *)
_pullExactEscrow(from, amount) ==
    /\ amount \in 0 .. balanceOf[from]
    /\ balanceOf' = [balanceOf EXCEPT ![from] = @ - amount, ![Vault] = @ + amount]
    /\ UNCHANGED blocked

(* The safeTransfers of one transaction: a zero amount is not sent, and one *)
(* refusal undoes them all.                                                 *)
PayOut(a, payA, b, payB, t, fee) ==
    LET In(y) == (IF y = a THEN payA ELSE 0) + (IF y = b THEN payB ELSE 0)
                    + (IF y = t THEN fee ELSE 0)
    IN  /\ \A y \in blocked : In(y) = 0
        /\ balanceOf[Vault] >= payA + payB + fee
        /\ balanceOf' = [y \in Accounts |-> balanceOf[y] + In(y)
                            - (IF y = Vault THEN payA + payB + fee ELSE 0)]
        /\ UNCHANGED blocked

(* ch.stateEpoch++.  Only signatures are compared with it, so where nobody   *)
(* signs it is not counted.                                                 *)
EpochRoom(c) == c \in Unsigned \/ channels[c].stateEpoch + 1 < EpochBound
\* Mutant: an on-chain change leaves older signatures valid.
KeepEpoch(c, e) == e
BumpEpoch(c, e) == IF c \in Unsigned THEN e ELSE e + 1

(* SignatureChecker.isValidSignatureNow over _stateDigest: the digest binds  *)
(* the channel, both balances, the nonce, the purpose and the epoch the      *)
(* channel has when the signature is CHECKED.                               *)
ValidSignature(p, c, bal, n, type) ==
    \E s \in signed : /\ s.signer = p /\ s.channelId = c /\ s.balance = bal
                      /\ s.nonce = n /\ s.stateType = type
                      /\ s.stateEpoch = channels[c].stateEpoch
-----------------------------------------------------------------------------
(***************************************************************************)
(* Opening and funding.                                                    *)
(***************************************************************************)
\* Mutant: the opener's deposit is recorded but not credited.
UncreditedChannel(p, q, amount, period) ==
    [party |-> [s \in Sides |-> IF s = "A" THEN p ELSE q],
     deposit |-> [Zero EXCEPT !["A"] = amount], balance |-> Zero,
     status |-> "OPEN", nonce |-> 0, stateEpoch |-> 0, challengePeriod |-> period]

FreshChannel(p, q, amount, period) ==
    [party |-> [s \in Sides |-> IF s = "A" THEN p ELSE q],
     deposit |-> [Zero EXCEPT !["A"] = amount], balance |-> [Zero EXCEPT !["A"] = amount],
     status |-> "OPEN", nonce |-> 0, stateEpoch |-> 0, challengePeriod |-> period]

openChannel(p, q, amount, period, c) ==
    /\ ~paused
    /\ _requireLiveKYC(p, q)
    /\ _validateCounterparty(p, q)
    /\ supportedToken
    /\ amount # 0
    /\ _validateChallengePeriod(period)
    /\ channels[c].status = "NONE"
    /\ channels' = [channels EXCEPT ![c] = FreshChannel(p, q, amount, period)]
    /\ _pullExactEscrow(p, amount)
    /\ UNCHANGED <<disputes, htlcs, activeHTLCLockedAmount, adminVars, signed>>

\* opening: the new channels, each with its counterparty and deposit.  One
\* escrow transfer carries the sum of the deposits.
batchOpenChannels(p, opening, period) ==
    /\ ~paused
    /\ DOMAIN opening # {}
    /\ supportedToken
    /\ _validateChallengePeriod(period)
    /\ p \in active
    /\ \A c \in DOMAIN opening :
          /\ channels[c].status = "NONE"
          /\ _validateCounterparty(p, opening[c].partyB)
          /\ opening[c].partyB \in active
          /\ opening[c].amount # 0
    /\ channels' = [c \in Channels |->
            IF c \in DOMAIN opening
            THEN FreshChannel(p, opening[c].partyB, opening[c].amount, period)
            ELSE channels[c]]
    /\ _pullExactEscrow(p, SumFunctionOnSet([c \in DOMAIN opening |-> opening[c].amount],
                                           DOMAIN opening))
    /\ UNCHANGED <<disputes, htlcs, activeHTLCLockedAmount, adminVars, signed>>

\* The counterparty's first deposit takes the channel through FUNDED to
\* ACTIVE in the same call; any other deposit is a top-up.
fundChannel(p, c, amount) ==
    LET ch == channels[c]
        s  == SideOf(p, c)
        depositB == ch.deposit["B"] + (IF s = "B" THEN amount ELSE 0)
    IN  /\ ~paused
        /\ IsParty(p, c)
        /\ _requireLiveKYC(ch.party["A"], ch.party["B"])
        /\ ch.status \in {"OPEN", "FUNDED", "ACTIVE"}
        /\ amount # 0
        /\ EpochRoom(c)
        /\ channels' = [channels EXCEPT
                ![c].deposit[s] = @ + amount,
                ![c].balance[s] = @ + amount,
                ![c].stateEpoch = BumpEpoch(c, @),
                ![c].status = IF @ = "FUNDED" \/ (@ = "OPEN" /\ depositB > 0)
                              THEN "ACTIVE" ELSE @]
        /\ _pullExactEscrow(p, amount)
        /\ UNCHANGED <<disputes, htlcs, activeHTLCLockedAmount, adminVars, signed>>

\* Mutant: the refunded channel stays open.
cancelWithoutClosing(p, c) ==
    /\ p = channels[c].party["A"]
    /\ channels[c].status = "OPEN"
    /\ PayOut(p, channels[c].balance["A"], p, 0, p, 0)
    /\ UNCHANGED <<chanVars, adminVars, signed>>

cancelOpenChannel(p, c) ==
    LET ch == channels[c] IN
    /\ p = ch.party["A"]
    /\ ch.status = "OPEN"
    /\ ch.deposit["B"] = 0 /\ ch.balance["B"] = 0
    /\ ch.balance["A"] = ch.deposit["A"]
    /\ channels' = [channels EXCEPT ![c].status = "CLOSED"]
    /\ PayOut(p, ch.balance["A"], p, 0, p, 0)
    /\ UNCHANGED <<disputes, htlcs, activeHTLCLockedAmount, adminVars, signed>>
-----------------------------------------------------------------------------
(***************************************************************************)
(* Closing.                                                                *)
(***************************************************************************)
\* Mutant: rate and denominator swapped.
InvertedFee(amount) == IF protocolFeeBps = 0 THEN 0
                       ELSE (amount * BpsDenominator) \div protocolFeeBps
Fee(amount) == (amount * protocolFeeBps) \div BpsDenominator

_settleChannel(c, bal, n) ==
    LET ch == channels[c] IN
    /\ channels' = [channels EXCEPT ![c].status = "CLOSED", ![c].balance = bal,
                                    ![c].nonce = n]
    /\ PayOut(ch.party["A"], bal["A"] - Fee(bal["A"]),
              ch.party["B"], bal["B"] - Fee(bal["B"]),
              protocolTreasury, Fee(bal["A"]) + Fee(bal["B"]))

cooperativeClose(p, c, bal, n) ==
    /\ ~paused
    /\ IsParty(p, c)
    /\ channels[c].status \in {"ACTIVE", "FUNDED"}
    /\ _requireNoActiveHTLC(c)
    /\ n > channels[c].nonce
    /\ bal["A"] + bal["B"] = Total(c)
    /\ \A s \in Sides : ValidSignature(channels[c].party[s], c, bal, n, "CLOSE")
    /\ _settleChannel(c, bal, n)
    /\ UNCHANGED <<disputes, htlcs, activeHTLCLockedAmount, adminVars, signed>>

\* The close of channel c now stands at balances bal and nonce n, claimed by p.
Claim(p, c, bal, n) ==
    /\ channels' = [channels EXCEPT ![c].status = "CLOSING", ![c].balance = bal,
                                    ![c].nonce = n]
    /\ disputes' = [disputes EXCEPT ![c] =
            [challenger |-> p, challengeNonce |-> n, challengeBalance |-> bal,
             left |-> channels[c].challengePeriod]]
    /\ UNCHANGED <<htlcs, activeHTLCLockedAmount, tokenVars, adminVars, signed>>

CounterpartySigned(p, c, bal, n) ==
    ValidSignature(channels[c].party[Other(SideOf(p, c))], c, bal, n, "STATE")

initiateUnilateralClose(p, c, bal, n) ==
    /\ ~paused
    /\ IsParty(p, c)
    /\ channels[c].status \in {"ACTIVE", "FUNDED"}
    /\ _requireNoActiveHTLC(c)
    /\ n > channels[c].nonce
    /\ bal["A"] + bal["B"] = Total(c)
    /\ CounterpartySigned(p, c, bal, n)
    /\ Claim(p, c, bal, n)

\* Mutant: the unsigned exit is suspended with the rest.
pausableCurrentStateClose(p, c) ==
    /\ ~paused
    /\ IsParty(p, c)
    /\ channels[c].status = "ACTIVE"
    /\ _requireNoActiveHTLC(c)
    /\ Claim(p, c, channels[c].balance, channels[c].nonce)

initiateCurrentStateClose(p, c) ==
    /\ IsParty(p, c)
    /\ channels[c].status = "ACTIVE"
    /\ _requireNoActiveHTLC(c)
    /\ Claim(p, c, channels[c].balance, channels[c].nonce)

counterDispute(p, c, bal, n) ==
    /\ IsParty(p, c)
    /\ channels[c].status = "CLOSING"
    /\ disputes[c].left >= 0
    /\ n > disputes[c].challengeNonce
    /\ bal["A"] + bal["B"] = Total(c)
    /\ CounterpartySigned(p, c, bal, n)
    /\ Claim(p, c, bal, n)

\* Mutant: settles in the last block of the challenge window.
finalizeAtDeadline(c) ==
    /\ channels[c].status = "CLOSING"
    /\ disputes[c].left <= 0
    /\ _settleChannel(c, disputes[c].challengeBalance, disputes[c].challengeNonce)
    /\ UNCHANGED <<disputes, htlcs, activeHTLCLockedAmount, adminVars, signed>>

finalizeClose(c) ==
    /\ channels[c].status = "CLOSING"
    /\ _requireNoActiveHTLC(c)
    /\ disputes[c].left < 0
    /\ _settleChannel(c, disputes[c].challengeBalance, disputes[c].challengeNonce)
    /\ UNCHANGED <<disputes, htlcs, activeHTLCLockedAmount, adminVars, signed>>
-----------------------------------------------------------------------------
(***************************************************************************)
(* Hash time-locked payments.  Who learns the preimage, and when, is off   *)
(* chain: a claim that carries the right preimage may come or not.         *)
(***************************************************************************)
createHTLC(p, c, amount, timelock, h) ==
    LET ch == channels[c]
        s  == SideOf(p, c)
    IN  /\ ~paused
        /\ IsParty(p, c)
        /\ _requireLiveKYC(ch.party["A"], ch.party["B"])
        /\ ch.status = "ACTIVE"
        /\ amount # 0
        /\ timelock \in MIN_HTLC_TIMELOCK .. MAX_HTLC_TIMELOCK
        /\ amount <= ch.balance[s]
        /\ \/ htlcs[h].status = "NONE"
           \/ RecycleHtlcs /\ htlcs[h].status \in {"CLAIMED", "REFUNDED"}
        /\ EpochRoom(c)
        /\ channels' = [channels EXCEPT ![c].balance[s] = @ - amount,
                                        ![c].stateEpoch = BumpEpoch(c, @)]
        /\ htlcs' = [htlcs EXCEPT ![h] =
                [channelId |-> c, sender |-> s, amount |-> amount,
                 left |-> timelock, status |-> "ACTIVE"]]
        /\ activeHTLCLockedAmount' = [activeHTLCLockedAmount EXCEPT ![c] = @ + amount]
        /\ UNCHANGED <<disputes, tokenVars, adminVars, signed>>

\* The reservation ends and the amount is credited to side s of the channel.
\* Checked subtraction reverts if less than the amount is reserved.
ReleaseHTLC(h, s, outcome) ==
    LET c == htlcs[h].channelId IN
    /\ htlcs[h].status = "ACTIVE"
    /\ activeHTLCLockedAmount[c] >= htlcs[h].amount
    /\ EpochRoom(c)
    /\ htlcs' = [htlcs EXCEPT ![h].status = outcome]
    /\ activeHTLCLockedAmount' = [activeHTLCLockedAmount EXCEPT ![c] = @ - htlcs[h].amount]
    /\ channels' = [channels EXCEPT ![c].balance[s] = @ + htlcs[h].amount,
                                    ![c].stateEpoch = BumpEpoch(c, @)]
    /\ UNCHANGED <<disputes, tokenVars, adminVars, signed>>

claimHTLC(h) ==
    /\ htlcs[h].left >= 0
    /\ ReleaseHTLC(h, Other(htlcs[h].sender), "CLAIMED")

\* Mutant: the refund is suspended with the rest.
pausableRefund(h) ==
    /\ ~paused
    /\ htlcs[h].left < 0
    /\ ReleaseHTLC(h, htlcs[h].sender, "REFUNDED")

refundHTLC(h) ==
    /\ htlcs[h].left < 0
    /\ ReleaseHTLC(h, htlcs[h].sender, "REFUNDED")
-----------------------------------------------------------------------------
(***************************************************************************)
(* Governance, the registry, the token's issuer, the wallets, the clock.   *)
(***************************************************************************)
SetPaused == /\ paused' \in PauseStates \ {paused}
             /\ UNCHANGED <<chanVars, tokenVars, supportedToken, active,
                            protocolFeeBps, protocolTreasury, signed>>

setSupportedToken ==
    /\ supportedToken' \in TokenStates \ {supportedToken}
    /\ UNCHANGED <<chanVars, tokenVars, active, paused, protocolFeeBps,
                   protocolTreasury, signed>>

setProtocolTreasury(t) ==
    /\ protocolTreasury' = t
    /\ UNCHANGED <<chanVars, tokenVars, supportedToken, active, paused,
                   protocolFeeBps, signed>>

setProtocolFeeBps(r) ==
    /\ r <= MAX_PROTOCOL_FEE_BPS
    /\ protocolFeeBps' = r
    /\ UNCHANGED <<chanVars, tokenVars, supportedToken, active, paused,
                   protocolTreasury, signed>>

\* The registry verifies, suspends, revokes or lets a verification expire;
\* until configureBusinessRegistry is called it holds nobody active.
RegistryChanges ==
    /\ active' \in KycStates \ {active}
    /\ UNCHANGED <<chanVars, tokenVars, supportedToken, paused, protocolFeeBps,
                   protocolTreasury, signed>>

\* The token's issuer blocks or unblocks an address.
IssuerChanges ==
    /\ blocked' \in SUBSET Unreachable \ {blocked}
    /\ UNCHANGED <<chanVars, balanceOf, adminVars, signed>>

\* A wallet signs a state under the digest computeStateHash gives now.  The
\* client signs only newer nonces; its balances may anticipate a deposit.  (A
\* wallet that signs from an outdated view signs an older epoch, which nothing
\* accepts any more.)
signState(p, c, bal, n, type) ==
    /\ IsParty(p, c) /\ c \notin Unsigned
    /\ channels[c].status \notin {"NONE", "CLOSED"}
    /\ n > channels[c].nonce
    /\ Cardinality(signed) < MaxSigned
    /\ signed' = signed \cup
            {[signer |-> p, channelId |-> c, balance |-> bal, nonce |-> n,
              stateType |-> type, stateEpoch |-> channels[c].stateEpoch,
              seen |-> Outcomes(c)]}
    /\ UNCHANGED <<chanVars, tokenVars, adminVars>>

Later(left) == IF left >= 0 THEN left - 1 ELSE left

Tick ==
    /\ \/ \E c \in Channels : channels[c].status = "CLOSING" /\ disputes[c].left >= 0
       \/ \E h \in Htlcs : htlcs[h].status = "ACTIVE" /\ htlcs[h].left >= 0
    /\ disputes' = [c \in Channels |-> IF channels[c].status = "CLOSING"
                        THEN [disputes[c] EXCEPT !.left = Later(@)] ELSE disputes[c]]
    /\ htlcs' = [h \in Htlcs |-> IF htlcs[h].status = "ACTIVE"
                        THEN [htlcs[h] EXCEPT !.left = Later(@)] ELSE htlcs[h]]
    /\ UNCHANGED <<channels, activeHTLCLockedAmount, tokenVars, adminVars, signed>>
-----------------------------------------------------------------------------
\* The ways of dividing a total between the two sides.
Splits(total) == {[s \in Sides |-> IF s = "A" THEN a ELSE total - a] : a \in 0 .. total}

Opening == UNION {[cs -> [partyB: Parties, amount: Deposits]] : cs \in SUBSET Channels}

Open  == \E p, q \in Parties, amount \in Deposits, d \in ChallengePeriods, c \in Channels :
            openChannel(p, q, amount, d, c)
Batch == \E p \in Parties, o \in Opening, d \in ChallengePeriods : batchOpenChannels(p, o, d)
Fund  == \E p \in Parties, c \in Channels, amount \in Deposits : fundChannel(p, c, amount)
Cancel(c)    == \E p \in Parties : cancelOpenChannel(p, c)
\* Whoever submits a state holds a signature of it, so the submitted states
\* range over the signed ones.
Cooperate(c) == \E p \in Parties, g \in signed : cooperativeClose(p, c, g.balance, g.nonce)
Unilateral(c) == \E p \in Parties, g \in signed :
                    initiateUnilateralClose(p, c, g.balance, g.nonce)
CurrentState(c) == \E p \in Parties : initiateCurrentStateClose(p, c)
Counter(p, c) == \E g \in signed : counterDispute(p, c, g.balance, g.nonce)
Create == \E p \in Parties, c \in Channels, amount \in HtlcAmounts, t \in Timelocks,
             h \in Htlcs : createHTLC(p, c, amount, t, h)
Sign  == \E p \in Parties, c \in Channels, e \in Anticipated, n \in 1 .. MaxNonce,
            type \in StateType : \E bal \in Splits(Total(c) + e) : signState(p, c, bal, n, type)
Treasury == \/ \E t \in Treasuries : setProtocolTreasury(t)
            \/ \E r \in FeeRates : setProtocolFeeBps(r)

Next ==
    \/ Open \/ Batch \/ Fund \/ Create \/ Sign \/ Treasury
    \/ \E c \in Channels : \/ Cancel(c) \/ Cooperate(c) \/ Unilateral(c) \/ CurrentState(c)
                          \/ finalizeClose(c) \/ \E p \in Parties : Counter(p, c)
    \/ \E h \in Htlcs : claimHTLC(h) \/ refundHTLC(h)
    \/ SetPaused \/ setSupportedToken \/ RegistryChanges \/ IssuerChanges \/ Tick

Spec == Init /\ [][Next]_vars
-----------------------------------------------------------------------------
(***************************************************************************)
(* Properties.                                                             *)
(***************************************************************************)
\* The types of the contract's storage, of the token ledger and of the
\* signatures in circulation.
TypeOK ==
    /\ channels \in [Channels -> Channel]
    /\ disputes \in [Channels -> ChannelDispute]
    /\ htlcs \in [Htlcs -> HTLC]
    /\ activeHTLCLockedAmount \in [Channels -> Nat]
    /\ balanceOf \in [Accounts -> Nat]
    /\ blocked \subseteq Parties \cup Treasuries
    /\ supportedToken \in BOOLEAN /\ paused \in BOOLEAN
    /\ active \subseteq Parties
    /\ protocolFeeBps \in 0 .. MAX_PROTOCOL_FEE_BPS
    /\ protocolTreasury \in Treasuries
    /\ \A s \in signed :
          /\ s.signer \in Parties /\ s.channelId \in Channels
          /\ s.balance \in [Sides -> Nat] /\ s.nonce \in Nat
          /\ s.stateType \in StateType /\ s.stateEpoch \in Nat

\* What two parties paid in is always exactly what the channel still owes
\* them: their two balances and the amount conditional payments reserve.  No
\* deposit, HTLC outcome, challenge or close creates or loses a token
\* (the balance updates of PaymentChannels.sol:473-479, 734-735, 797-801,
\* 849-854 and 876-881 and the balance checks of every close).
EscrowConserved ==
    \A c \in Channels :
        channels[c].balance["A"] + channels[c].balance["B"]
            + activeHTLCLockedAmount[c] = Total(c)

totals  == [c \in Channels |-> Total(c)]
amounts == [h \in Htlcs |-> htlcs[h].amount]

Live        == {c \in Channels : channels[c].status \notin {"NONE", "CLOSED"}}
Reserved(c) == {h \in Htlcs : htlcs[h].status = "ACTIVE" /\ htlcs[h].channelId = c}

\* The contract's token balance covers every channel that is not closed, to
\* the unit: closing one channel never spends the escrow of another.
VaultSolvent == balanceOf[Vault] = SumFunctionOnSet(totals, Live)

\* activeHTLCLockedAmount, a cached sum, agrees with the HTLC records, so the
\* checked subtraction of a claim or a refund can never revert and strand it.
HTLCReserveExact ==
    \A c \in Channels :
        activeHTLCLockedAmount[c] = SumFunctionOnSet(amounts, Reserved(c))

\* While a close is being challenged, and after it, no conditional payment is
\* outstanding: it would be credited to a channel that no longer pays out.
NoStrandedHTLC ==
    \A h \in Htlcs : htlcs[h].status = "ACTIVE" =>
        channels[htlcs[h].channelId].status = "ACTIVE"

\* Closing, funding and paying of several channels never leave one of them
\* with a claim the vault, its own cached reserve or its phase cannot honour
\* (PaymentChannels.sol:_distributeFunds, createHTLC, claimHTLC, refundHTLC).
VaultBacked == VaultSolvent /\ HTLCReserveExact /\ NoStrandedHTLC

\* Signature g is of the state channel c is about to have, given by a signer
\* who had seen every deposit into c and every HTLC outcome of c.
FreshConsent(g, c, type) ==
    /\ g.channelId = c /\ g.stateType = type /\ g.seen = Outcomes(c)
    /\ g.balance = channels'[c].balance /\ g.nonce = channels'[c].nonce

\* What a step may do to channel c: an instant close needs from both parties a
\* CLOSE signature, and a claim from each party it takes money from a STATE
\* signature, of exactly the new state given after the last on-chain change.
ConsentStep(c) ==
    LET old == channels[c]
        new == channels'[c]
        Signed(s, type) == \E g \in signed : g.signer = old.party[s]
                                            /\ FreshConsent(g, c, type)
    IN  /\ old.status = "ACTIVE" /\ new.status = "CLOSED"
           => \A s \in Sides : Signed(s, "CLOSE")
        /\ old.status \in {"ACTIVE", "CLOSING"} /\ new.status = "CLOSING"
           => \A s \in Sides : new.balance[s] < old.balance[s]
                => disputes'[c].challenger = old.party[s] \/ Signed(s, "STATE")

\* Nobody is closed out against their will.  A close moves money away from a
\* party only if that party submitted the state itself or signed it with full
\* knowledge of the channel: no signature given before a deposit or an HTLC
\* outcome can be replayed after it (NP-13, security_best_practices_report.md:53).
ClosesByConsent == [][\A c \in Channels : ConsentStep(c)]_vars
=============================================================================
