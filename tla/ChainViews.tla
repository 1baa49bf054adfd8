---------------------------- MODULE ChainViews ----------------------------
(***************************************************************************)
(* What the backend shows or decides from a contract's present state: one  *)
(* view takes several calls.  All name the block that was the head when    *)
(* the view began, but by its number: if a reorganisation replaces it in   *)
(* between, later calls are answered from another block.  Two views, those *)
(* that decide who is let in, look at the block's hash again at the end.   *)
(* A block is named by its hash, which a new block never shares.  Views do *)
(* not affect each other, so one at a time is served here.                 *)
(***************************************************************************)
EXTENDS Requests

CONSTANT MaxBlocks      \* bound: blocks ever made

ASSUME ViewAssumption == MaxBlocks \in Nat

VARIABLE blocks         \* how many have been made

Hash(n) == mined[n]

ViewInit == blocks = 0
ViewTypeOK == blocks \in 0..MaxBlocks

\* The calls of each view; those of one step wait for the step before.
RegistryAuthorization ==
    [calls |-> <<{"details", "active", "role"}>>, hashAtExit |-> TRUE]
WalletSignature ==
    [calls |-> <<{"code"}, {"isValidSignature"}>>, hashAtExit |-> TRUE]
OnChainLimits ==
    [calls |-> <<{"tier"}, {"volumes", "limits"}>>, hashAtExit |-> FALSE]
TreasuryOverview ==
    [calls |-> <<{"signers", "thresholds"}, {"logs"}, {"proposals"}>>, hashAtExit |-> FALSE]
ProposalList == [calls |-> <<{"logs"}, {"proposals"}>>, hashAtExit |-> FALSE]
BudgetList == [calls |-> <<{"ids"}, {"budgets"}>>, hashAtExit |-> FALSE]
FXPairs ==
    [calls |-> <<{"ids", "fee"}, {"pairs"}, {"rates"}>>, hashAtExit |-> FALSE]
HedgerPositions ==
    [calls |-> <<{"ids", "portfolio"}, {"positions"}, {"margins"}>>, hashAtExit |-> FALSE]

Views == {RegistryAuthorization, WalletSignature, OnChainLimits, TreasuryOverview,
          ProposalList, BudgetList, FXPairs, HedgerPositions}

----------------------------------------------------------------------------
(* The chain. *)

NewBlock ==
    /\ blocks < MaxBlocks /\ blocks' = blocks + 1
    /\ Mine(blocks + 1)

Replace ==
    /\ DropUnconfirmed
    /\ req' = [w \in Workers |->
                 IF req[w] = Idle THEN Idle ELSE [req[w] EXCEPT !.replaced = TRUE]]
    /\ UNCHANGED <<deep, trail, blocks>>

----------------------------------------------------------------------------
(* A view. *)

OpenView(w) ==
    /\ \A v \in Workers : req[v] = Idle
    /\ mined # <<>>
    /\ \E view \in Views :
          Goto(w, [at |-> "view", block |-> Len(mined), hash |-> Hash(Len(mined)),
                   calls |-> view.calls, hashAtExit |-> view.hashAtExit,
                   from |-> {}, replaced |-> FALSE])
    /\ UNCHANGED <<mined, deep, trail, blocks>>

\* Mutant: a call names no block and is answered from the head
HeadBlock(w) == Len(mined)

PinnedBlock(w) == req[w].block

\* A node that does not have the block refuses the call, and the view fails.
Call(w, c) ==
    LET now == Head(req[w].calls)
        rest == now \ {c}
    IN
    /\ At(w, "view") /\ req[w].calls # <<>> /\ c \in now
    /\ PinnedBlock(w) \in Receipts
    /\ Goto(w, [req[w] EXCEPT
                  !.calls = IF rest = {} THEN Tail(@) ELSE <<rest>> \o Tail(@),
                  !.from = @ \cup {Hash(PinnedBlock(w))}])
    /\ UNCHANGED <<mined, deep, trail, blocks>>

\* Mutant: the exit check is left out
ExitUnchecked(w) == TRUE

StillCanonical(w) ==
    req[w].hashAtExit => req[w].block \in Receipts /\ Hash(req[w].block) = req[w].hash

Answer(w) ==
    /\ At(w, "view") /\ req[w].calls = <<>>
    /\ StillCanonical(w)
    /\ Goto(w, [req[w] EXCEPT !.at = "shown"])
    /\ UNCHANGED <<mined, deep, trail, blocks>>

ViewNext ==
    \/ NewBlock \/ Replace
    \/ \E w \in Workers :
          \/ OpenView(w) \/ Answer(w)
          \/ At(w, "view") /\ req[w].calls # <<>> /\ \E c \in Head(req[w].calls) : Call(w, c)
    \/ (RequestStep \/ Confirm) /\ UNCHANGED blocks

----------------------------------------------------------------------------
(* Property. *)

\* A view is one block's state and not a mixture of several: for the views
\* that admit a wallet always, for the others unless the block was replaced
\* while they were read.
OneBlockPerView ==
    \A w \in Workers :
        At(w, "shown") /\ (req[w].hashAtExit \/ ~req[w].replaced) =>
            req[w].from = {req[w].hash}
=============================================================================
