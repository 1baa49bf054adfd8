----------------------------- MODULE Requests -----------------------------
(***************************************************************************)
(* What the backend's handlers have in common.  A worker is one HTTP       *)
(* request being served; between two of its awaits anything else may       *)
(* happen.  req[w] is Idle or the request's next step with the data it     *)
(* carries there, so a value read before an await and used after it is a   *)
(* field of req[w].  A request that is refused, times out or dies with its *)
(* process leaves only what it has committed.                              *)
(*                                                                         *)
(* Most handlers record a fact the caller says a transaction proves.  The  *)
(* transactions of the contract concerned are the sequence mined; the      *)
(* first deep of them have minimumConfirmations, which this module takes   *)
(* as final.  A receipt is read with its confirmations, but a contract's   *)
(* state is read at the head of the chain, unconfirmed blocks included.    *)
(***************************************************************************)
EXTENDS Naturals, FiniteSets, Sequences

CONSTANTS
    Workers,    \* requests in service at the same time
    MaxMined    \* bound: transactions on the chain at a time

ASSUME RequestsAssumption == MaxMined \in Nat

VARIABLES
    req,    \* per worker: Idle, or its next step and what it carries
    mined,  \* the contract's transactions on the canonical chain, in order
    deep,   \* how many of them are confirmed
    trail   \* the audit entries written (AuditLog), one per distinct content

shared == <<req, mined, deep, trail>>

Idle == [at |-> "idle"]

RequestsInit ==
    /\ req = [w \in Workers |-> Idle]
    /\ mined = <<>> /\ deep = 0
    /\ trail = {}

RequestsTypeOK ==
    /\ DOMAIN req = Workers
    /\ deep \in 0..Len(mined)

----------------------------------------------------------------------------
(* Requests. *)

Goto(w, r) == req' = [req EXCEPT ![w] = r]
At(w, step) == req[w].at = step
Done(w) == Goto(w, Idle)

\* The last await of a handler: its audit entry, then the response.
Audit(w) ==
    /\ At(w, "audit")
    /\ trail' = trail \cup {req[w].entry}
    /\ Done(w)
    /\ UNCHANGED <<mined, deep>>

\* The request dies: a refusal further on, a timeout, the end of its process.
Fail(w) ==
    /\ req[w] # Idle
    /\ Done(w)
    /\ UNCHANGED <<mined, deep, trail>>

RequestStep == \E w \in Workers : Audit(w) \/ Fail(w)

----------------------------------------------------------------------------
(* The chain. *)

Receipts == 1..Len(mined)

\* Mutant: a receipt is taken as soon as it is mined
CanonicalAnyDepth == Receipts

\* The transactions getCanonicalTransaction accepts.
Canonical == {i \in Receipts : i <= deep}

Mine(tx) ==
    /\ Len(mined) < MaxMined
    /\ mined' = Append(mined, tx)
    /\ UNCHANGED <<req, deep, trail>>

Confirm ==
    /\ deep < Len(mined)
    /\ deep' = deep + 1
    /\ UNCHANGED <<req, mined, trail>>

\* Unconfirmed blocks are replaced; what they held may or may not return.
DropUnconfirmed == \E keep \in deep..(Len(mined) - 1) : mined' = SubSeq(mined, 1, keep)

Reorg == DropUnconfirmed /\ UNCHANGED <<req, deep, trail>>

ChainStep == Confirm \/ Reorg
=============================================================================
