---------------------------- MODULE TreasuryBudgets ----------------------------
(***************************************************************************)
(* The budgets of the treasury (contracts/src/MultiSigTreasury.sol): a     *)
(* total allocation, and limits on what is spent in one calendar day, week *)
(* and month, counted by trackers that are reset lazily, when the budget   *)
(* is charged for the first time in a new window.                          *)
(*                                                                         *)
(* A tracker's last reset time is only compared with the window the clock  *)
(* is in, so it is kept as `current': does it lie in the present window?   *)
(* periodEnd, category and name are written once and never read.           *)
(***************************************************************************)
EXTENDS Integers

CONSTANTS
    BudgetIds, NoBudget,  \* keccak256 of a nonce; bytes32(0)
    Allocations,          \* offered total allocations
    SpendingLimits        \* offered limits, [Period -> Nat]; 0 is no limit

Period == {"day", "week", "month"}

ASSUME BudgetAssumption ==
    /\ NoBudget \notin BudgetIds
    /\ Allocations \subseteq Nat /\ SpendingLimits \subseteq [Period -> Nat]

VARIABLES
    budgets,           \* budgetId -> Budget
    spendingTrackers,  \* budgetId -> SpendingTracker
    outflow            \* budgetId -> what really left in each present window

budgetVars == <<budgets, spendingTrackers, outflow>>

Budget == [totalAllocation: Nat, spent: Nat, limit: [Period -> Nat], active: BOOLEAN]
SpendingTracker == [Period -> [spent: Nat, current: BOOLEAN]]

Nothing    == [p \in Period |-> 0]
Inactive == [totalAllocation |-> 0, spent |-> 0, limit |-> Nothing, active |-> FALSE]
Stale    == [p \in Period |-> [spent |-> 0, current |-> FALSE]]
Reset    == [p \in Period |-> [spent |-> 0, current |-> TRUE]]

BudgetsInit ==
    /\ budgets = [b \in BudgetIds |-> Inactive]
    /\ spendingTrackers = [b \in BudgetIds |-> Stale]
    /\ outflow = [b \in BudgetIds |-> Nothing]
-----------------------------------------------------------------------------
createBudget(b, allocation, limit) ==
    /\ ~budgets[b].active
    /\ allocation # 0
    /\ budgets' = [budgets EXCEPT ![b] =
            [totalAllocation |-> allocation, spent |-> 0, limit |-> limit, active |-> TRUE]]
    /\ spendingTrackers' = [spendingTrackers EXCEPT ![b] = Reset]
    /\ UNCHANGED outflow

remaining(b) == budgets[b].totalAllocation - budgets[b].spent

\* A proposal or mandate that names a budget is admitted against what is left.
WithinBudget(b, amount) == b # NoBudget => budgets[b].active /\ amount <= remaining(b)

\* Mutant: a new day resets the weekly and monthly trackers too.
SpentToday(b, p) == IF spendingTrackers[b]["day"].current THEN spendingTrackers[b][p].spent ELSE 0

SpentIn(b, p) == IF spendingTrackers[b][p].current THEN spendingTrackers[b][p].spent ELSE 0

_recordBudgetSpending(b, amount) ==
    /\ budgets[b].active
    /\ amount <= remaining(b)
    /\ \A p \in Period : budgets[b].limit[p] > 0 => SpentIn(b, p) + amount <= budgets[b].limit[p]
    /\ budgets' = [budgets EXCEPT ![b].spent = @ + amount]
    /\ spendingTrackers' = [spendingTrackers EXCEPT ![b] =
            [p \in Period |-> [spent |-> SpentIn(b, p) + amount, current |-> TRUE]]]
    /\ outflow' = [outflow EXCEPT ![b] = [p \in Period |-> @[p] + amount]]

Charge(b, amount) == IF b = NoBudget THEN UNCHANGED budgetVars ELSE _recordBudgetSpending(b, amount)

\* The next day begins, and with it perhaps a week or a month: both are counted
\* in whole days, and nothing else ties them together.  Storage stays as it is.
WindowsEnding == {{"day"} \cup longer : longer \in SUBSET {"week", "month"}}

AgeBudgets ==
    /\ \E over \in WindowsEnding :
          /\ spendingTrackers' = [b \in BudgetIds |-> [p \in Period |->
                 [spendingTrackers[b][p] EXCEPT !.current = @ /\ p \notin over]]]
          /\ outflow' = [b \in BudgetIds |->
                 [p \in Period |-> IF p \in over THEN 0 ELSE outflow[b][p]]]
    /\ UNCHANGED budgets

CreateBudget == \E b \in BudgetIds, n \in Allocations, l \in SpendingLimits : createBudget(b, n, l)
-----------------------------------------------------------------------------
(***************************************************************************)
(* Properties.                                                             *)
(***************************************************************************)
BudgetsTypeOK ==
    /\ budgets \in [BudgetIds -> Budget]
    /\ spendingTrackers \in [BudgetIds -> SpendingTracker]
    /\ outflow \in [BudgetIds -> [Period -> Nat]]

\* What really leaves the treasury under a budget in any one calendar day,
\* week or month stays within that window's limit, although the trackers are
\* reset only when the budget is charged and the three windows do not nest
\* (MultiSigTreasury.sol:1343-1371).
WindowsHold ==
    \A b \in BudgetIds, p \in Period :
        budgets[b].limit[p] > 0 => outflow[b][p] <= budgets[b].limit[p]
=============================================================================
