--------------------------- MODULE TravelRecords ---------------------------
(***************************************************************************)
(* Travel Rule data of one payment over the threshold (services/travel-    *)
(* rule.ts, lib/travel-rule.ts): bound to a signature of the business's    *)
(* wallet, then sent to the screening service with the payment             *)
(* (services/compliance.ts; PaymentMirror has the rest of a screening).    *)
(* A commitment is named by the data it commits to.                        *)
(***************************************************************************)
EXTENDS Requests

CONSTANTS
    TravelData,     \* what may be filled in for the two parties
    Forms,          \* wallet challenges for this payment
    Services,       \* origins of the screening service
    MaxAttempts     \* bound: attempts to send

ASSUME TravelAssumption == MaxAttempts \in Nat \ {0} /\ Services # {}

VARIABLES
    payment,    \* status of the payment's row
    forms,      \* challenges: the data committed to, and their state
    record,     \* TravelRuleRecord
    evidence,   \* has the intent verified evidence of a screening
    service,    \* the origin configured now
    signable,   \* does the wallet's contract still accept its signatures
    sent        \* history: what was sent, where, how often

travelVars == <<payment, forms, record, evidence, service, signable, sent>>

NoForm == [state |-> "none"]
NoRecord == [attempts |-> 0]
RecordOf(c) == [data |-> forms[c].data, form |-> c, attempts |-> 0,
                destination |-> "none", shared |-> FALSE]

TravelInit ==
    /\ payment = "PENDING"
    /\ forms = [c \in Forms |-> NoForm]
    /\ record = NoRecord /\ evidence = FALSE
    /\ service = CHOOSE s \in Services : TRUE
    /\ signable = TRUE /\ sent = <<>>

TravelTypeOK ==
    /\ payment \in {"PENDING", "DECIDED", "CANCELLED"}
    /\ \A c \in Forms : forms[c] # NoForm => forms[c].data \in TravelData
    /\ record.attempts \in 0..MaxAttempts
    /\ {evidence, signable} \subseteq BOOLEAN /\ service \in Services

----------------------------------------------------------------------------
(* What happens meanwhile. *)

ServiceMoves ==
    /\ service' \in Services \ {service}
    /\ UNCHANGED <<shared, payment, forms, record, evidence, signable, sent>>

\* A contract wallet changes its owners.
WalletRotates ==
    /\ signable /\ signable' = FALSE
    /\ UNCHANGED <<shared, payment, forms, record, evidence, service, sent>>

CancelMirrored ==
    /\ payment = "PENDING" /\ payment' = "CANCELLED"
    /\ UNCHANGED <<shared, forms, record, evidence, service, signable, sent>>

FormExpires(c) ==
    /\ forms[c].state = "open" /\ forms' = [forms EXCEPT ![c].state = "expired"]
    /\ UNCHANGED <<shared, payment, record, evidence, service, signable, sent>>

----------------------------------------------------------------------------
(* Authorization. *)

CreateChallenge(c, d) ==
    /\ forms[c] = NoForm /\ payment = "PENDING" /\ record = NoRecord
    /\ forms' = [forms EXCEPT ![c] = [state |-> "open", data |-> d]]
    /\ UNCHANGED <<shared, payment, record, evidence, service, signable, sent>>

\* The payment, its record and the challenge as they are now ...
Authorize(w, c) ==
    /\ req[w] = Idle /\ forms[c] # NoForm
    /\ Goto(w, [at |-> "check wallet", form |-> c, open |-> forms[c].state = "open", found |-> record])
    /\ UNCHANGED <<mined, deep, trail, travelVars>>

\* ... are judged when the wallet's signature has been checked on the chain.
CheckWallet(w) ==
    /\ At(w, "check wallet") /\ signable
    /\ LET found == req[w].found IN
       IF found = NoRecord
       THEN req[w].open /\ Goto(w, [req[w] EXCEPT !.at = "bind data"])
       ELSE found.form = req[w].form /\ Done(w)
    /\ UNCHANGED <<mined, deep, trail, travelVars>>

\* One serializable transaction, against everything as it is then.
BindData(w) ==
    LET c == req[w].form IN
    /\ At(w, "bind data") /\ payment = "PENDING"
    /\ IF record = NoRecord
       THEN /\ forms[c].state = "open"
            /\ forms' = [forms EXCEPT ![c].state = "used"]
            /\ record' = RecordOf(c)
       ELSE record.form = c /\ UNCHANGED <<forms, record>>
    /\ Done(w)
    /\ UNCHANGED <<mined, deep, trail, payment, evidence, service, signable, sent>>

----------------------------------------------------------------------------
(* Screening. *)

\* The payment is read, then its data is loaded, its signature checked again.
Screen(w) ==
    /\ req[w] = Idle /\ payment = "PENDING"
    /\ Goto(w, [at |-> "load data", recover |-> evidence])
    /\ UNCHANGED <<mined, deep, trail, travelVars>>

LoadAuthorizedPayload(w) ==
    /\ At(w, "load data") /\ record # NoRecord /\ signable
    /\ Goto(w, [at |-> IF req[w].recover THEN "commit" ELSE "record attempt", data |-> record.data])
    /\ UNCHANGED <<mined, deep, trail, travelVars>>

\* Mutant: an attempt may go where no earlier one went
AnyDestination == TRUE

SameDestination == record.attempts > 0 => record.destination = service

\* Counted in the database before anything leaves.
RecordOutboundAttempt(w) ==
    /\ At(w, "record attempt") /\ ~record.shared /\ SameDestination
    /\ record.attempts < MaxAttempts
    /\ record' = [record EXCEPT !.attempts = @ + 1, !.destination = service]
    /\ Goto(w, [at |-> "send", data |-> req[w].data, to |-> service])
    /\ UNCHANGED <<mined, deep, trail, payment, forms, evidence, service, signable, sent>>

\* The request leaves; its answer may be lost, and the request with it.
Send(w) ==
    /\ At(w, "send")
    /\ sent' = Append(sent, [data |-> req[w].data, to |-> req[w].to])
    /\ Goto(w, [at |-> "await answer"])
    /\ UNCHANGED <<mined, deep, trail, payment, forms, record, evidence, service, signable>>

\* The answer is proved on the chain and stored with the intent.
StoreAnswer(w) ==
    /\ At(w, "await answer")
    /\ evidence' = TRUE
    /\ Goto(w, [at |-> "commit"])
    /\ UNCHANGED <<mined, deep, trail, payment, forms, record, service, signable, sent>>

\* The decision and the sharing of the data, in one transaction.
CommitScreening(w) ==
    /\ At(w, "commit")
    /\ IF payment = "PENDING"
       THEN /\ ~record.shared
            /\ payment' = "DECIDED"
            /\ record' = [record EXCEPT !.shared = TRUE]
       ELSE UNCHANGED <<payment, record>>
    /\ Done(w)
    /\ UNCHANGED <<mined, deep, trail, forms, evidence, service, signable, sent>>

TravelNext ==
    \/ ServiceMoves \/ WalletRotates \/ CancelMirrored
    \/ \E c \in Forms : FormExpires(c) \/ \E d \in TravelData : CreateChallenge(c, d)
    \/ \E w \in Workers :
          \/ \E c \in Forms : Authorize(w, c)
          \/ CheckWallet(w) \/ BindData(w)
          \/ Screen(w) \/ LoadAuthorizedPayload(w) \/ RecordOutboundAttempt(w)
          \/ Send(w) \/ StoreAnswer(w) \/ CommitScreening(w)
    \/ RequestStep /\ UNCHANGED travelVars

----------------------------------------------------------------------------
(* Properties. *)

\* Personal data leaves only as the one wallet signature on record committed
\* to it, only to the origin on record, and never more often than counted;
\* and a payment over the threshold is decided only with its data shared.
TravelDataAccounted ==
    /\ Len(sent) <= record.attempts
    /\ \A k \in DOMAIN sent :
          sent[k] = [data |-> record.data, to |-> record.destination]
    /\ payment = "DECIDED" => record.shared /\ sent # <<>>
=============================================================================
