--------------------------- MODULE HedgeRecords ---------------------------
(***************************************************************************)
(* The backend's rows of one hedge (services/fx.ts), kept from receipts of *)
(* FXHedgingVault (services/fx-execution.ts).  A position of the vault is  *)
(* ACTIVE until one of five closings, each with an event of its own.       *)
(***************************************************************************)
EXTENDS Requests

CONSTANT Hedges         \* rows of FXHedge for this one position

VARIABLE hedges

HedgeTypes == {"FORWARD", "OPTION"}
CloseKinds == {"SETTLED", "EXERCISED", "EXPIRED", "LIQUIDATED", "EMERGENCY_UNWOUND"}
HedgeStatus(kind) == IF kind \in {"EXERCISED", "EXPIRED"} THEN kind ELSE "CLOSED"

NoHedge == [status |-> "NONE", onChainStatus |-> "NONE", pnl |-> FALSE]

HedgeInit == hedges = [r \in Hedges |-> NoHedge]

HedgeTypeOK ==
    hedges \in [Hedges -> [status : {"NONE", "OPEN", "CLOSED", "EXERCISED", "EXPIRED"},
                           onChainStatus : {"NONE", "ACTIVE"} \cup CloseKinds,
                           pnl : BOOLEAN]]

----------------------------------------------------------------------------
(* The vault: creation of a forward or of an option, then one closing.      *)

VaultStatus == IF mined = <<>> THEN "NONE"
               ELSE IF Len(mined) = 1 THEN "ACTIVE" ELSE mined[Len(mined)].event

OpenPosition(type) ==
    /\ VaultStatus = "NONE"
    /\ Mine([event |-> "OPENED", type |-> type])
    /\ UNCHANGED hedges

\* A forward settles, an option is exercised or expires; either is liquidated
\* or unwound.
Closings(type) == CloseKinds \ IF type = "FORWARD" THEN {"EXERCISED", "EXPIRED"} ELSE {"SETTLED"}

ClosePositionOnChain(kind) ==
    /\ VaultStatus = "ACTIVE" /\ kind \in Closings(mined[1].type)
    /\ Mine([event |-> kind, type |-> mined[1].type])
    /\ UNCHANGED hedges

----------------------------------------------------------------------------
(* Verification. *)

VaultReceipts(event) == {i \in Canonical : mined[i].event = event}

VerifyHedgeOpen(type) == \E i \in VaultReceipts("OPENED") : mined[i].type = type

\* The receipt decides the kind, and the vault must agree with it now.
\* Mutant: any closing event stands for the kind the caller names
ClosedSomehow(kind) == \E k \in CloseKinds : VaultReceipts(k) # {}

VerifyHedgeClose(kind) == VaultReceipts(kind) # {} /\ VaultStatus = kind

----------------------------------------------------------------------------
(* Handlers. *)

\* The look-up by onChainPositionId, which no unique index backs.
CreateHedge(w, type) ==
    /\ req[w] = Idle /\ \A r \in Hedges : hedges[r].status = "NONE"
    /\ VerifyHedgeOpen(type)
    /\ Goto(w, [at |-> "create hedge", onChainStatus |-> VaultStatus])
    /\ UNCHANGED <<mined, deep, trail, hedges>>

\* A position already closed on the chain is recorded OPEN, and closed by its
\* own receipt afterwards.
InsertHedge(w, r) ==
    /\ At(w, "create hedge") /\ hedges[r].status = "NONE"
    /\ hedges' = [hedges EXCEPT ![r] = [status |-> "OPEN", pnl |-> FALSE,
                                        onChainStatus |-> req[w].onChainStatus]]
    /\ Goto(w, [at |-> "audit", entry |-> [event |-> "hedge opened", row |-> r]])
    /\ UNCHANGED <<mined, deep, trail>>

\* Only an OPEN row is closed; a replay returns the row as it is.
ClosePosition(w, r) ==
    /\ req[w] = Idle /\ hedges[r].status = "OPEN"
    /\ Goto(w, [at |-> "verify close", row |-> r])
    /\ UNCHANGED <<mined, deep, trail, hedges>>

VerifyClose(w) ==
    /\ At(w, "verify close")
    /\ \E kind \in CloseKinds :
          /\ VerifyHedgeClose(kind)
          /\ Goto(w, [at |-> "store close", row |-> req[w].row, kind |-> kind])
    /\ UNCHANGED <<mined, deep, trail, hedges>>

\* Only PositionSettled and OptionExercised carry a profit or loss.
StoreClose(w) ==
    /\ At(w, "store close")
    /\ LET h == req[w] IN
       /\ hedges' = [hedges EXCEPT ![h.row] =
              [status |-> HedgeStatus(h.kind), onChainStatus |-> h.kind,
               pnl |-> h.kind \in {"SETTLED", "EXERCISED"}]]
       /\ Goto(w, [at |-> "audit", entry |-> [event |-> h.kind, row |-> h.row]])
    /\ UNCHANGED <<mined, deep, trail>>

HedgeNext ==
    \/ \E type \in HedgeTypes : OpenPosition(type)
    \/ \E kind \in CloseKinds : ClosePositionOnChain(kind)
    \/ \E w \in Workers :
          \/ \E type \in HedgeTypes : CreateHedge(w, type)
          \/ \E r \in Hedges : InsertHedge(w, r) \/ ClosePosition(w, r)
          \/ VerifyClose(w) \/ StoreClose(w)
    \/ (RequestStep \/ ChainStep) /\ UNCHANGED hedges

----------------------------------------------------------------------------
(* Properties. *)

\* A close recorded once is never recorded otherwise: not reopened by the
\* creation of another request, not given another kind or another profit by a
\* request that read the row while it was open.
HedgeKeepsItsClose ==
    [][\A r \in Hedges : hedges[r].status \notin {"NONE", "OPEN"} => hedges'[r] = hedges[r]]_hedges
=============================================================================
