--------------------------- MODULE AppealRecords ---------------------------
(***************************************************************************)
(* The backend's record of one AI decision and its appeal                  *)
(* (services/ai-compliance.ts), kept from receipts of AIComplianceModule   *)
(* (services/ai-compliance-execution.ts).  On the chain an appeal is       *)
(* filed, taken up for review, and resolved; a decision is overridden once *)
(* by an officer, and revised by an appeal that overturns it.              *)
(***************************************************************************)
EXTENDS Requests

CONSTANT Appeals        \* rows of AIAppeal for this one appeal

VARIABLES decision, appeals

appealVars == <<decision, appeals>>

Outcomes == {"APPROVE", "BLOCK"}
Resolutions == {"UPHELD", "OVERTURNED", "DISMISSED"}
Other(outcome) == CHOOSE o \in Outcomes : o # outcome

NoAppeal == [status |-> "NONE", reviewed |-> FALSE, resolved |-> FALSE, outcome |-> "NONE"]

AppealInit ==
    /\ decision = [outcome |-> "BLOCK", original |-> "NONE", overridden |-> FALSE]
    /\ appeals = [a \in Appeals |-> NoAppeal]

AppealTypeOK ==
    /\ decision \in [outcome : Outcomes, original : Outcomes \cup {"NONE"}, overridden : BOOLEAN]
    /\ appeals \in [Appeals -> [status : {"NONE", "SUBMITTED", "UNDER_REVIEW"} \cup Resolutions,
                                reviewed : BOOLEAN, resolved : BOOLEAN,
                                outcome : Outcomes \cup {"NONE"}]]

----------------------------------------------------------------------------
(* The contract.  A transaction keeps its event and what it leaves: the     *)
(* status of the appeal and the outcome of the decision.                    *)

ModuleHead == IF mined = <<>> THEN [event |-> "NONE", status |-> "NONE", outcome |-> "BLOCK"]
              ELSE mined[Len(mined)]
ModuleTx(event) == \E i \in Receipts : mined[i].event = event

Emit(event, status, outcome) ==
    /\ Mine([event |-> event, status |-> status, outcome |-> outcome])
    /\ UNCHANGED appealVars

FileAppeal == ModuleHead.status = "NONE" /\ Emit("filed", "SUBMITTED", ModuleHead.outcome)
ReviewOnChain ==
    ModuleHead.status = "SUBMITTED" /\ Emit("review", "UNDER_REVIEW", ModuleHead.outcome)
ResolveOnChain(status) ==
    /\ ModuleHead.status = "UNDER_REVIEW"
    /\ \E revised \in IF status = "OVERTURNED" THEN Outcomes ELSE {ModuleHead.outcome} :
          Emit("resolved", status, revised)
OverrideOnChain ==
    /\ ~ModuleTx("overridden")
    /\ Emit("overridden", ModuleHead.status, Other(ModuleHead.outcome))

ModuleStep ==
    \/ FileAppeal \/ ReviewOnChain \/ OverrideOnChain
    \/ \E status \in Resolutions : ResolveOnChain(status)

----------------------------------------------------------------------------
(* Verification. *)

ModuleReceipt(event) == \E i \in Canonical : mined[i].event = event
TheReceipt(event) == mined[CHOOSE i \in Canonical : mined[i].event = event]

\* The status of the appeal is reported as the contract has it now.
VerifyAppealFiling == ModuleReceipt("filed")
VerifyAppealReview == ModuleReceipt("review")
VerifyAppealResolution ==
    ModuleReceipt("resolved") /\ TheReceipt("resolved").status = ModuleHead.status
VerifyDecisionOverride == ModuleReceipt("overridden")

----------------------------------------------------------------------------
(* Handlers. *)

OverrideDecision(w) ==
    /\ req[w] = Idle /\ ~decision.overridden
    /\ VerifyDecisionOverride
    /\ Goto(w, [at |-> "store override"])
    /\ UNCHANGED <<mined, deep, trail, appealVars>>

\* originalOutcome and newOutcome are those of the event.
StoreOverride(w) ==
    /\ At(w, "store override")
    /\ LET new == TheReceipt("overridden").outcome IN
       decision' = [outcome |-> new, original |-> Other(new), overridden |-> TRUE]
    /\ Goto(w, [at |-> "audit", entry |-> [event |-> "overridden"]])
    /\ UNCHANGED <<mined, deep, trail, appeals>>

\* The look-up by onChainAppealId, which no unique index backs.
SubmitAppeal(w) ==
    /\ req[w] = Idle /\ \A a \in Appeals : appeals[a].status = "NONE"
    /\ VerifyAppealFiling
    /\ Goto(w, [at |-> "create appeal", status |-> ModuleHead.status])
    /\ UNCHANGED <<mined, deep, trail, appealVars>>

InsertAppeal(w, a) ==
    /\ At(w, "create appeal") /\ appeals[a].status = "NONE"
    /\ appeals' = [appeals EXCEPT ![a].status = req[w].status]
    /\ Goto(w, [at |-> "audit", entry |-> [event |-> "appealed", row |-> a]])
    /\ UNCHANGED <<mined, deep, trail, decision>>

\* Past SUBMITTED the row is returned as it is.  The update writes UNDER_REVIEW
\* whatever the contract's status is by then.
StartAppealReview(w, a) ==
    /\ req[w] = Idle /\ appeals[a].status = "SUBMITTED"
    /\ VerifyAppealReview
    /\ Goto(w, [at |-> "store review", row |-> a])
    /\ UNCHANGED <<mined, deep, trail, appealVars>>

StoreReview(w) ==
    /\ At(w, "store review")
    /\ appeals' = [appeals EXCEPT ![req[w].row].status = "UNDER_REVIEW",
                                   ![req[w].row].reviewed = TRUE]
    /\ Goto(w, [at |-> "audit", entry |-> [event |-> "review", row |-> req[w].row]])
    /\ UNCHANGED <<mined, deep, trail, decision>>

\* Mutant: the outcome is the one the caller expects
ResolutionClaimed(status, outcome) == status \in Resolutions /\ outcome \in Outcomes

\* The event's status and outcome, never the caller's.
ResolutionRead(status, outcome) ==
    /\ status = TheReceipt("resolved").status
    /\ outcome = TheReceipt("resolved").outcome

ResolveAppeal(w, a) ==
    /\ req[w] = Idle /\ ~appeals[a].resolved /\ appeals[a].status = "UNDER_REVIEW"
    /\ VerifyAppealResolution
    /\ \E status \in Resolutions, outcome \in Outcomes :
          /\ ResolutionRead(status, outcome)
          /\ Goto(w, [at |-> "store resolution", row |-> a, status |-> status,
                      outcome |-> outcome])
    /\ UNCHANGED <<mined, deep, trail, appealVars>>

StoreResolution(w) ==
    /\ At(w, "store resolution")
    /\ LET h == req[w] IN
       /\ appeals' = [appeals EXCEPT ![h.row].status = h.status, ![h.row].resolved = TRUE,
                                      ![h.row].outcome = h.outcome]
       /\ Goto(w, [at |-> "audit", entry |-> [event |-> h.status, row |-> h.row]])
    /\ UNCHANGED <<mined, deep, trail, decision>>

AppealNext ==
    \/ ModuleStep
    \/ \E w \in Workers :
          \/ OverrideDecision(w) \/ StoreOverride(w) \/ SubmitAppeal(w)
          \/ StoreReview(w) \/ StoreResolution(w)
          \/ \E a \in Appeals : InsertAppeal(w, a) \/ StartAppealReview(w, a)
                                \/ ResolveAppeal(w, a)
    \/ (RequestStep \/ ChainStep) /\ UNCHANGED appealVars

----------------------------------------------------------------------------
(* Properties. *)

\* The outcome of an appeal in the record is the one on the chain, reached
\* through the review the contract requires, and the decision it overrode has
\* the outcome the officer gave it.
OutcomesProved ==
    /\ \A a \in Appeals : LET row == appeals[a] IN
          row.resolved => /\ ModuleReceipt("review") /\ ModuleReceipt("resolved")
                          /\ row.outcome = TheReceipt("resolved").outcome
                          /\ row.status \in {TheReceipt("resolved").status, "UNDER_REVIEW"}
    /\ decision.overridden => decision.outcome = TheReceipt("overridden").outcome

\* What startAppealReview's comment says the record must not do: reach a final
\* outcome without the review step.  Violated when the filing is reported after
\* the contract has resolved the appeal.
ReviewOnRecord ==
    \A a \in Appeals : appeals[a].status \in Resolutions => appeals[a].reviewed
=============================================================================
