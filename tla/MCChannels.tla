----------------------------- MODULE MCChannels -----------------------------
(***************************************************************************)
(* PaymentChannels for TLC, in scenarios that are explored side by side.   *)
(*   escrow     two channels share the vault: every operation that moves   *)
(*              tokens and needs no signature;                             *)
(*   replay     two signatures, deposits that a signer anticipates and an  *)
(*              HTLC, so that old signatures meet a channel that changed;  *)
(*   challenge  three signatures with nonces up to 2 and the pause, so     *)
(*              that a claim can be countered, and countered again;        *)
(*   pages      two signatures, all of it through the parties' pages;      *)
(*   exit       the registry and the issuer as well, under fairness.       *)
(***************************************************************************)
EXTENDS ChannelPages, TLC

CONSTANTS Leaver,    \* the party that wants its escrow back
          Payers     \* the parties that still create conditional payments, in the exit
ASSUME LeaverAssumption == Leaver \in Parties /\ Payers \subseteq Parties

VARIABLE scenario

Scenarios == {"escrow", "replay", "challenge", "pages"}
allVars == <<vars, selected, scenario>>

Used == IF scenario = "escrow" THEN Unsigned ELSE Channels \ Unsigned
OpenUsed == \E p, q \in Parties, amount \in Deposits, d \in ChallengePeriods, c \in Used :
                openChannel(p, q, amount, d, c)
BatchUnsigned == \E p \in Parties, d \in ChallengePeriods,
                    o \in {o \in Opening : DOMAIN o \subseteq Unsigned} : batchOpenChannels(p, o, d)

EscrowNext ==
    \/ OpenUsed \/ BatchUnsigned \/ Fund \/ Create \/ Treasury
    \/ \E c \in Unsigned : Cancel(c) \/ CurrentState(c) \/ finalizeClose(c)
    \/ \E h \in Htlcs : claimHTLC(h) \/ refundHTLC(h)
    \/ setSupportedToken \/ Tick

SignedNext ==
    \/ OpenUsed \/ Fund \/ Create
    \/ (scenario = "replay" => Cardinality(signed) < 2) /\ Sign
    \/ \E c \in Channels \ Unsigned :
          \/ Cancel(c) \/ Cooperate(c) \/ Unilateral(c) \/ CurrentState(c)
          \/ finalizeClose(c) \/ \E p \in Parties : Counter(p, c)
    \/ \E h \in Htlcs : claimHTLC(h) \/ refundHTLC(h)
    \/ SetPaused \/ Tick

\* The escrow uses the Unsigned channels; the others use one, with a deposit of
\* one token from each party, no fee and one conditional payment at most.
OneChannel ==
    /\ \A c \in Unsigned : channels'[c] = NoChannel
    /\ \A c \in Channels, s \in Sides : channels'[c].deposit[s] <= 1
    /\ Cardinality({h \in Htlcs : htlcs'[h] # NoHTLC}) <= 1

Scope ==
    /\ UNCHANGED protocolFeeBps
    /\ scenario # "escrow" => OneChannel
    /\ scenario = "replay" => /\ ~paused' /\ Cardinality(signed') <= 2
                              /\ \A g \in signed' : g.nonce <= 1
    /\ scenario = "challenge" => /\ \A h \in Htlcs : htlcs'[h].status = "NONE"
                                 /\ \A g \in signed' \ signed :
                                      g.balance["A"] + g.balance["B"] = Total(g.channelId)
    /\ scenario = "pages" => /\ Cardinality(signed') <= 2
                             /\ \E p \in Parties : selected'[p] = Unselected

MCInit ==
    /\ PagesInit /\ scenario \in Scenarios
    /\ protocolFeeBps = IF scenario = "escrow" THEN 1 ELSE 0
    /\ scenario = "escrow" \/ supportedToken

MCNext ==
    /\ \/ scenario = "escrow" /\ EscrowNext /\ UNCHANGED selected
       \/ scenario \in {"replay", "challenge"} /\ SignedNext /\ UNCHANGED selected
       \/ scenario = "pages" /\ PagesNext
    /\ Scope
    /\ UNCHANGED scenario

MCSpec == MCInit /\ [][MCNext]_allVars

\* Wallets, channel identifiers and HTLC identifiers are interchangeable.
Symmetric == Permutations(Parties) \cup Permutations(Unsigned) \cup Permutations(Htlcs)
-----------------------------------------------------------------------------
\* Party p has received the counterparty's signature g of a newer state of
\* channel c, of the current epoch and dividing exactly the escrow.
HoldsNewer(p, c, g) ==
    /\ IsParty(p, c) /\ g.channelId = c /\ g.stateType = "STATE"
    /\ g.signer = channels[c].party[Other(SideOf(p, c))]
    /\ g.stateEpoch = channels[c].stateEpoch
    /\ g.balance["A"] + g.balance["B"] = Total(c)
    /\ g.nonce > channels[c].nonce

\* A stale close never sticks against a party that watches the chain.  While a
\* party holds a newer counterparty-signed state within the challenge window,
\* the channel does not settle, and the party can submit that state, paused or
\* not, up to the last moment before the window runs out.  It needs
\* counterDispute to stay open through the deadline's own block, and settlement
\* to wait until strictly after it (PaymentChannels.sol:697-739, 745-756).
NewestStateSettles ==
    [][\A c \in Channels, p \in Parties :
        /\ channels[c].status = "CLOSING" /\ disputes[c].left >= 0
        /\ \E g \in signed : HoldsNewer(p, c, g)
        => /\ channels'[c].status = "CLOSING"
           /\ disputes'[c].left >= 0 \/ ENABLED Counter(p, c)]_vars
-----------------------------------------------------------------------------
(***************************************************************************)
(* The exits of PaymentChannels under fairness.  One party, Leaver, wants  *)
(* its escrow back: it keeps trying cancelOpenChannel and                  *)
(* initiateCurrentStateClose, and it or anybody else (both calls are       *)
(* permissionless) keeps trying refundHTLC and finalizeClose.  The holder  *)
(* of TREASURY_ROLE replaces a fee beneficiary the token refuses.  Nothing *)
(* is assumed of the other party, of ADMIN_ROLE or of the registry: they   *)
(* may pause the contract, or hold a party inactive, for ever.  Strong     *)
(* fairness stands for retrying a call that others can disable for a       *)
(* while: the close while an HTLC is open, the payout while the issuer     *)
(* blocks.                                                                 *)
(***************************************************************************)
CreateByPayer == \E p \in Payers, c \in Channels, amount \in HtlcAmounts, t \in Timelocks,
                    h \in Htlcs : createHTLC(p, c, amount, t, h)

\* What TREASURY_ROLE is for (PaymentChannels.sol:1082-1089).
RotateTreasury == /\ protocolTreasury \in blocked
                  /\ \E t \in Treasuries \ blocked : setProtocolTreasury(t)

\* No cooperative close: it would only settle the channel sooner.
ExitNext ==
    \/ Open \/ Fund \/ CreateByPayer \/ Sign
    \/ \E c \in Channels : \/ Cancel(c) \/ Unilateral(c) \/ CurrentState(c)
                           \/ finalizeClose(c) \/ \E p \in Parties : Counter(p, c)
    \/ \E h \in Htlcs : claimHTLC(h) \/ refundHTLC(h)
    \/ SetPaused \/ RegistryChanges \/ IssuerChanges \/ RotateTreasury \/ Tick

Fairness ==
    /\ WF_vars(Tick) /\ WF_vars(RotateTreasury)
    /\ \A h \in Htlcs : WF_vars(refundHTLC(h))
    /\ \A c \in Channels : /\ SF_vars(finalizeClose(c))
                           /\ WF_vars(cancelOpenChannel(Leaver, c))
                           /\ SF_vars(initiateCurrentStateClose(Leaver, c))

ExitInit == PagesInit /\ scenario = "exit"

ExitSpec == /\ ExitInit
            /\ [][ExitNext /\ UNCHANGED <<selected, scenario>>]_allVars /\ Fairness

\* Leaver has tokens in a channel that is not closed.
AtStake(c) == /\ IsParty(Leaver, c) /\ channels[c].status # "CLOSED"
              /\ channels[c].deposit[SideOf(Leaver, c)] > 0

\* A party that wants to leave gets the channel settled, through every
\* pause, KYC loss, counter-dispute, conditional payment and unreachable fee
\* beneficiary the instance allows (README.md:32, deploy/README.md:71,
\* PaymentChannels.sol:502-510, 645-654).
EscrowReturned == \A c \in Channels : AtStake(c) ~> channels[c].status = "CLOSED"

\* No conditional payment stays locked: it is claimed, or refunded once its
\* timelock has passed, although the contract may stay paused
\* (PaymentChannels.sol:860-871).
HTLCResolved == \A h \in Htlcs : htlcs[h].status = "ACTIVE" ~> htlcs[h].status # "ACTIVE"

\* The comment of initiateCurrentStateClose: "This guarantees an ACTIVE
\* channel can always make progress if a party refuses to produce the first
\* signature" (PaymentChannels.sol:648-649).
ActiveMakesProgress ==
    \A c \in Channels : (AtStake(c) /\ channels[c].status = "ACTIVE")
                            ~> channels[c].status # "ACTIVE"
=============================================================================
