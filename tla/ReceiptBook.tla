---------------------------- MODULE ReceiptBook ----------------------------
(***************************************************************************)
(* What every recording service of the backend promises: a row claims only *)
(* facts that receipts with enough confirmations prove, and once it claims *)
(* something it never goes back to claiming nothing.  Handlers, their      *)
(* awaits and their races, reorganisations and the contracts' states are   *)
(* all below this level.                                                   *)
(***************************************************************************)
CONSTANT Rows

VARIABLES
    confirmed,      \* the facts confirmed receipts prove
    book            \* per row, the facts it claims

vars == <<confirmed, book>>

Init == confirmed = {} /\ book = [r \in Rows |-> {}]

Prove ==
    /\ confirmed \subseteq confirmed' /\ confirmed' # confirmed
    /\ UNCHANGED book

Write(r) ==
    /\ book' = [book EXCEPT ![r] = book'[r]]
    /\ book'[r] # {} /\ book'[r] \subseteq confirmed
    /\ UNCHANGED confirmed

Next == Prove \/ \E r \in Rows : Write(r)

Spec == Init /\ [][Next]_vars

OnlyProved == \A r \in Rows : book[r] \subseteq confirmed
=============================================================================
