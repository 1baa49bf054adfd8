---------------------------- MODULE PoolRecords ----------------------------
(***************************************************************************)
(* The backend's liquidity positions (services/liquidity.ts), kept from    *)
(* receipts of LiquidityPool (services/liquidity-execution.ts).  A row is  *)
(* found again by the hash of the settlement it was last written from.     *)
(***************************************************************************)
EXTENDS Requests

CONSTANTS
    Positions,          \* positions of the contract, all of one provider
    PoolRows            \* rows of LPPosition

VARIABLE poolRows

\* A transaction is named by what it does: its hash is unique to it.
Added(p) == [kind |-> "ADD", position |-> p]
Removed(p) == [kind |-> "REMOVE", position |-> p]
Flashed == [kind |-> "FLASH", position |-> "none"]
Settlements == {Added(p) : p \in Positions} \cup {Removed(p) : p \in Positions}

NoPosition == [position |-> "none", settlement |-> Flashed]

PoolInit == poolRows = [r \in PoolRows |-> NoPosition]

PoolTypeOK ==
    poolRows \in [PoolRows -> [position : Positions \cup {"none"},
                               settlement : Settlements \cup {Flashed}]]

----------------------------------------------------------------------------
(* The pool: a position is added, then removed, each once. *)

PoolHas(tx) == \E i \in Receipts : mined[i] = tx

AddOnChain(p) == ~PoolHas(Added(p)) /\ Mine(Added(p)) /\ UNCHANGED poolRows
RemoveOnChain(p) ==
    /\ PoolHas(Added(p)) /\ ~PoolHas(Removed(p))
    /\ Mine(Removed(p)) /\ UNCHANGED poolRows

\* A flash loan is repaid in its own transaction or reverts.
FlashOnChain == ~PoolHas(Flashed) /\ Mine(Flashed) /\ UNCHANGED poolRows

----------------------------------------------------------------------------
(* Handlers.  What is verified is the receipt alone; the pool is not read. *)

\* canonicalPoolTransaction: mined, not reverted, deep enough, sent to the pool.
PoolReceipt(tx) == \E i \in Canonical : mined[i] = tx

\* The receipt holds the event of this kind for this position.
VerifyLiquiditySettlement(tx) == tx \in Settlements /\ PoolReceipt(tx)

\* One receipt holds the loan and its repayment.
VerifyFlashLoan == PoolReceipt(Flashed)

Recorded(tx) == \E r \in PoolRows : poolRows[r].settlement = tx

AddLiquidity(w, p) ==
    /\ req[w] = Idle /\ ~Recorded(Added(p))
    /\ VerifyLiquiditySettlement(Added(p))
    /\ Goto(w, [at |-> "create position", position |-> p])
    /\ UNCHANGED <<mined, deep, trail, poolRows>>

InsertPosition(w, r) ==
    /\ At(w, "create position") /\ poolRows[r] = NoPosition
    /\ LET p == req[w].position IN
       /\ poolRows' = [poolRows EXCEPT ![r] = [position |-> p, settlement |-> Added(p)]]
       /\ Goto(w, [at |-> "audit", entry |-> [event |-> "liquidity added", row |-> r]])
    /\ UNCHANGED <<mined, deep, trail>>

\* The receipt must be of the position the caller names, which is not compared
\* with the row's; the row keeps its liquidity.
RemoveLiquidity(w, r, p) ==
    /\ req[w] = Idle /\ poolRows[r] # NoPosition
    /\ VerifyLiquiditySettlement(Removed(p))
    /\ Goto(w, [at |-> "store removal", row |-> r, position |-> p])
    /\ UNCHANGED <<mined, deep, trail, poolRows>>

StoreRemoval(w) ==
    /\ At(w, "store removal")
    /\ poolRows' = [poolRows EXCEPT ![req[w].row].settlement = Removed(req[w].position)]
    /\ Goto(w, [at |-> "audit", entry |-> [event |-> "liquidity removed", row |-> req[w].row]])
    /\ UNCHANGED <<mined, deep, trail>>

RequestFlashLiquidity(w) ==
    /\ req[w] = Idle /\ VerifyFlashLoan
    /\ Goto(w, [at |-> "audit", entry |-> [event |-> "flash loan"]])
    /\ UNCHANGED <<mined, deep, trail, poolRows>>

PoolNext ==
    \/ \E p \in Positions : AddOnChain(p) \/ RemoveOnChain(p)
    \/ FlashOnChain
    \/ \E w \in Workers :
          \/ \E p \in Positions : AddLiquidity(w, p)
          \/ \E r \in PoolRows : InsertPosition(w, r)
          \/ \E r \in PoolRows, p \in Positions : RemoveLiquidity(w, r, p)
          \/ StoreRemoval(w) \/ RequestFlashLiquidity(w)
    \/ (RequestStep \/ ChainStep) /\ UNCHANGED poolRows

----------------------------------------------------------------------------
(* Properties. *)

\* What addLiquidity's comment says: the same settlement reported twice yields
\* the same row rather than a duplicate position.  Violated, by one request
\* after another: a removal overwrites the hash the row is found by.
OneRowPerPosition ==
    \A r, s \in PoolRows :
        r # s /\ poolRows[r] # NoPosition => poolRows[r].position # poolRows[s].position
=============================================================================
