-------------------------- MODULE MCMultiSigTreasury --------------------------
(***************************************************************************)
(* MultiSigTreasury for TLC, in four scenarios that are explored side by   *)
(* side; each lets a part of the contract move within bounds of its own.   *)
(***************************************************************************)
EXTENDS MultiSigTreasury, TLC

CONSTANTS ann, bob, dan, prop1, native, usdc

TwoFounders == <<ann, bob>>
Threshold(small, large, emergency) ==
    [t \in TxTier |-> CASE t = "LARGE" -> large [] t = "EMERGENCY" -> emergency [] OTHER -> small]
ForVotes     == Threshold(1, 2, 3)
ForSpending  == Threshold(1, 1, 1)
MCThresholds == {ForVotes, ForSpending, Threshold(2, 2, 2)}
MCLimits == {[p \in Period |-> CASE p = "day" -> 1 [] p = "month" -> 2 [] OTHER -> 0]}

\* The identifiers of authorizations and of mandates are interchangeable.
Symmetric == Permutations(AuthorizationIds) \cup Permutations(RecurringIds)

VARIABLE scenario

\* "votes": one large proposal, two or three signers, one delegate.
VotesNext == \/ Propose \/ Signers \/ Tick
             \/ \E i \in ProposalIds : Vote(i) \/ Execute(i)

\* "spending": two proposals and a standing order charge one budget.
SpendingNext ==
    \/ Propose \/ Recur \/ Allot \/ Tick
    \/ \E i \in ProposalIds : Execute(i) \/ \E x \in People : approveProposal(x, i)

\* "mandates": two authorizations, the pause, the support of their token, and
\* a yield manager who may leave the treasury without the means.
MandateNext == Recur \/ Administer \/ Yield \/ Tick

\* What the scenarios leave out: in "votes" and "signers" everything but one
\* proposal, in the others every change of the signers.
OfToken(t, k) == t.token = k /\ t.amount = 1
Scope ==
    /\ scenario \in {"votes", "signers"} =>
          \A i \in ProposalIds : proposals[i].status # "NONE" =>
              i = prop1 /\ proposals[i].amount = 2 /\ proposals[i].token = native
    /\ scenario = "votes" => signerConfig.threshold = ForVotes
    /\ scenario = "signers" => signerConfig.threshold # ForSpending
    /\ scenario = "spending" =>
          /\ signerConfig.threshold = ForSpending
          /\ \A i \in ProposalIds : proposals[i].status # "NONE" =>
                /\ OfToken(proposals[i], native) /\ proposals[i].tier # "EMERGENCY"
          /\ \A a \in AuthorizationIds : recurringAuthorizations[a].terms # NoTerms =>
                /\ OfToken(recurringAuthorizations[a].terms, native)
                /\ recurringAuthorizations[a].terms.budgetId # NoBudget
          /\ Cardinality({a \in AuthorizationIds : recurringAuthorizations[a].terms # NoTerms}) <= 1
    /\ scenario = "mandates" =>
          \A a \in AuthorizationIds : recurringAuthorizations[a].terms # NoTerms =>
              OfToken(recurringAuthorizations[a].terms, usdc)

TreasuryInit == Init /\ scenario \in {"votes", "signers", "spending", "mandates"} /\ Scope

TreasuryNext ==
    /\ UNCHANGED scenario
    /\ \/ scenario = "votes" /\ VotesNext
       \/ scenario = "signers" /\ Signers
       \/ scenario = "spending" /\ SpendingNext
       \/ scenario = "mandates" /\ MandateNext
    /\ Scope'

TreasurySpec == TreasuryInit /\ [][TreasuryNext]_<<vars, scenario>>
=============================================================================
