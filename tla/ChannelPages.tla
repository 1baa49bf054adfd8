---------------------------- MODULE ChannelPages ----------------------------
(***************************************************************************)
(* The page through which the two parties use a channel (the hooks of      *)
(* src/hooks/usePaymentChannels.ts over src/lib/channel-state.ts, and      *)
(* src/pages/payment-channels.tsx).  A dialog works on the channel as it   *)
(* was when the dialog was opened, with the browser's clock; the artifacts *)
(* that travel between the parties are the signatures given so far.  What  *)
(* the page submits is one transaction of the contract, later: the guards  *)
(* here are the page's, those of the transaction are the contract's own.   *)
(***************************************************************************)
EXTENDS PaymentChannels

VARIABLE selected   \* per party: the channel as its dialog shows it, or Unselected

Unselected == [id |-> None]

\* expectedState: an artifact must be newer than the dispute, or the channel.
minimumNonceExclusive(c) ==
    IF channels[c].status = "CLOSING" THEN disputes[c].challengeNonce ELSE channels[c].nonce

\* getChannel and, while it closes, getDispute.
View(c) == [id |-> c, channel |-> channels[c], seen |-> Outcomes(c),
            minimumNonceExclusive |-> minimumNonceExclusive(c),
            left |-> IF channels[c].status = "CLOSING" THEN disputes[c].left ELSE 0]

PagesInit == Init /\ selected = [p \in Parties |-> Unselected]

Status(p) == IF selected[p] = Unselected THEN "NONE" ELSE selected[p].channel.status

Select(p, c) ==
    /\ IsParty(p, c)
    /\ selected' = [selected EXCEPT ![p] = View(c)]
    /\ UNCHANGED vars

\* The dialog closes when its transaction is confirmed.
Confirmed(p) == selected' = [selected EXCEPT ![p] = Unselected]

----------------------------------------------------------------------------
(* Artifacts. *)

\* Mutant: the state on the chain itself passes as a newer one
NotOlder(n, v) == n >= v.minimumNonceExclusive
Newer(n, v) == n > v.minimumNonceExclusive

\* Mutant: the epoch of an artifact is not compared
AnyEpoch(epoch, v) == TRUE
SameEpoch(epoch, v) == epoch = v.channel.stateEpoch

\* validateChannelStateArtifact
Valid(v, state, stateType) ==
    /\ state.channelId = v.id
    /\ state.stateType = stateType
    /\ SameEpoch(state.stateEpoch, v)
    /\ Newer(state.nonce, v)
    /\ state.balance["A"] + state.balance["B"] = v.channel.deposit["A"] + v.channel.deposit["B"]

\* buildStateArtifact, then the wallet's signature of it.
SignArtifact(p, bal, n, type) ==
    LET v == selected[p]
        state == [signer |-> p, channelId |-> v.id, balance |-> bal, nonce |-> n,
                  stateType |-> type, stateEpoch |-> v.channel.stateEpoch, seen |-> v.seen]
    IN  /\ v # Unselected /\ Cardinality(signed) < MaxSigned
        /\ IF type = "CLOSE" THEN Status(p) \in {"ACTIVE", "FUNDED"}
           ELSE Status(p) \in {"ACTIVE", "FUNDED"} \/ (Status(p) = "CLOSING" /\ v.left >= 0)
        /\ Valid(v, state, type)
        /\ signed' = signed \cup {state}
        /\ UNCHANGED <<chanVars, tokenVars, adminVars, selected>>

\* The parties whose signature of g's state can be attached to an artifact.
Signers(g) == {h.signer : h \in {h \in signed :
                  /\ h.channelId = g.channelId /\ h.balance = g.balance /\ h.nonce = g.nonce
                  /\ h.stateType = g.stateType /\ h.stateEpoch = g.stateEpoch}}

counterpartySignature(p, g) ==
    selected[p].channel.party[IF selected[p].channel.party["A"] = p THEN "B" ELSE "A"] \in Signers(g)

----------------------------------------------------------------------------
(* What the page offers on the selected channel. *)

challengeOpen(p) == Status(p) = "CLOSING" /\ selected[p].left >= 0
canFinalize(p) == Status(p) = "CLOSING" /\ ~challengeOpen(p)
canFund(p) == Status(p) \in {"OPEN", "FUNDED", "ACTIVE"}
canClose(p) == Status(p) \in {"ACTIVE", "FUNDED"}
canCancel(p) == /\ Status(p) = "OPEN"
                /\ selected[p].channel.deposit["B"] = 0 /\ selected[p].channel.party["A"] = p
canCurrentStateClose(p) == Status(p) = "ACTIVE"

closeTogether(p, g) ==
    /\ canClose(p) /\ Valid(selected[p], g, "CLOSE")
    /\ \A s \in Sides : selected[p].channel.party[s] \in Signers(g)
closeAlone(p, g) ==
    canClose(p) /\ Valid(selected[p], g, "STATE") /\ counterpartySignature(p, g)
dispute(p, g) ==
    challengeOpen(p) /\ Valid(selected[p], g, "STATE") /\ counterpartySignature(p, g)

\* The exits that need no signature of the counterparty.
GuaranteedExit(p) ==
    LET c == selected[p].id IN
    /\ \/ canCancel(p) /\ cancelOpenChannel(p, c)
       \/ canCurrentStateClose(p) /\ initiateCurrentStateClose(p, c)
    /\ Confirmed(p)

Submit(p) ==
    LET c == selected[p].id IN
    /\ \/ \E amount \in Deposits : canFund(p) /\ fundChannel(p, c, amount)
       \/ canFinalize(p) /\ finalizeClose(c)
       \/ \E g \in signed :
             \/ closeTogether(p, g) /\ cooperativeClose(p, c, g.balance, g.nonce)
             \/ closeAlone(p, g) /\ initiateUnilateralClose(p, c, g.balance, g.nonce)
             \/ dispute(p, g) /\ counterDispute(p, c, g.balance, g.nonce)
    /\ Confirmed(p)

Around ==
    \/ Open \/ Create \/ SetPaused
    \/ \E h \in Htlcs : claimHTLC(h) \/ refundHTLC(h)

PageClock ==
    /\ Tick
    /\ selected' = [p \in Parties |-> IF Status(p) = "CLOSING"
                        THEN [selected[p] EXCEPT !.left = Later(@)] ELSE selected[p]]

PagesNext ==
    \/ \E p \in Parties :
          \/ \E c \in Channels : Select(p, c)
          \/ \E n \in 1 .. MaxNonce, type \in StateType, e \in {0} \cup Anticipated :
                \E bal \in Splits(IF selected[p] = Unselected THEN 0
                                  ELSE selected[p].channel.deposit["A"]
                                       + selected[p].channel.deposit["B"] + e) :
                    SignArtifact(p, bal, n, type)
          \/ Submit(p) \/ GuaranteedExit(p)
    \/ Around /\ UNCHANGED selected
    \/ PageClock

----------------------------------------------------------------------------
(* Properties. *)

\* A page and the contract check a state twice, in two languages: while the
\* dialog shows the channel as it is, the page lets a party submit exactly what
\* the contract accepts, a counter-dispute above all, whose refusal would cost
\* the party the newer state.  The page does not look at the pause and at
\* conditional payments, which the contract refuses a close for
\* (channel-state.ts:267-330 and PaymentChannels.sol:534-756).
PageMatchesContract ==
    \A p \in Parties :
        LET c == selected[p].id
            Free == ~paused /\ activeHTLCLockedAmount[c] = 0
            Same(g) == {h \in signed : h.balance = g.balance /\ h.nonce = g.nonce}
        IN  selected[p] # Unselected /\ selected[p] = View(c) =>
            /\ \A g \in signed :
                  /\ (\E h \in Same(g) : dispute(p, h))
                        <=> ENABLED counterDispute(p, c, g.balance, g.nonce)
                  /\ (Free /\ \E h \in Same(g) : closeAlone(p, h))
                        <=> ENABLED initiateUnilateralClose(p, c, g.balance, g.nonce)
                  /\ (Free /\ \E h \in Same(g) : closeTogether(p, h))
                        <=> ENABLED cooperativeClose(p, c, g.balance, g.nonce)
            /\ canCancel(p) <=> ENABLED cancelOpenChannel(p, c)
            /\ (canCurrentStateClose(p) /\ activeHTLCLockedAmount[c] = 0)
                  <=> ENABLED initiateCurrentStateClose(p, c)
            /\ canFinalize(p) <=> ENABLED finalizeClose(c)
=============================================================================
