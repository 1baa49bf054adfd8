----------------------------- MODULE Reports -----------------------------
(***************************************************************************)
(* Regulatory reports (services/reporting.ts): made from the payments of a *)
(* period, kept with the hash of their content, and filed with the         *)
(* regulator's gateway.  The gateway answers over the network, so it may   *)
(* take a filing whose answer is lost; a report may be filed by two        *)
(* requests at once.  The payments are read in one query and their         *)
(* screenings in the next, outside any transaction.                        *)
(***************************************************************************)
EXTENDS Requests

CONSTANTS
    Period,         \* the payments of the period
    ReportIds,      \* reports; the hash of a report's content is unique to it
    References      \* receipts the gateway may issue

ASSUME ReportAssumption == IsFiniteSet(Period)

VARIABLES
    payments,   \* the business's payments: mirrored status, screening outcomes
    reports,    \* the rows of RegulatoryReport
    filings     \* at the gateway: per receipt, its report, key and status

reportVars == <<payments, reports, filings>>

\* FAILED stands for ESCALATED too.
Outcomes == {"PASSED", "FAILED"}
NoReport == [status |-> "NONE", listed |-> {}, flagged |-> 0, ref |-> "none"]

ReportInit ==
    /\ payments = [p \in Period |-> [status |-> "PENDING", screenings |-> {}]]
    /\ reports = [r \in ReportIds |-> NoReport]
    /\ filings = <<>>

ReportTypeOK ==
    /\ payments \in [Period -> [status : {"PENDING", "FLAGGED", "APPROVED", "REJECTED"},
                                screenings : SUBSET Outcomes]]
    /\ reports \in [ReportIds ->
           [status : {"NONE", "GENERATED", "SUBMITTED", "ACKNOWLEDGED"},
            listed : SUBSET Period, flagged : 0..Cardinality(Period),
            ref : References \cup {"none"}]]
    /\ DOMAIN filings \subseteq References

----------------------------------------------------------------------------
(* Payments go on while a report is made. *)

Screened(p) ==
    /\ \E o \in Outcomes : payments' = [payments EXCEPT ![p].screenings = @ \cup {o}]
    /\ UNCHANGED <<shared, reports, filings>>

Mirrored(p) ==
    /\ \E next \in IF payments[p].status = "PENDING" THEN {"FLAGGED", "APPROVED"}
                   ELSE IF payments[p].status = "FLAGGED" THEN {"APPROVED", "REJECTED"}
                   ELSE {} :
          payments' = [payments EXCEPT ![p].status = next]
    /\ UNCHANGED <<shared, reports, filings>>

----------------------------------------------------------------------------
(* Generating. *)

FailedScreening(p) == "FAILED" \in p.screenings

\* Mutant: only what the payment's status says counts
SuspiciousNow(p) == p.status \in {"FLAGGED", "REJECTED"}

Suspicious(p) == p.status \in {"FLAGGED", "REJECTED"} \/ FailedScreening(p)

ReadPayments(w, r) ==
    /\ req[w] = Idle /\ reports[r] = NoReport
    /\ \A v \in Workers : req[v] # Idle => req[v].report # r
    /\ Goto(w, [at |-> "read screenings", report |-> r,
                status |-> [p \in Period |-> payments[p].status],
                due |-> {p \in Period : payments[p].status \in {"FLAGGED", "REJECTED"}
                                          \/ FailedScreening(payments[p])}])
    /\ UNCHANGED <<mined, deep, trail, reportVars>>

\* calculateSummary and buildReportData, on the same snapshot.
ReadScreenings(w) ==
    /\ At(w, "read screenings")
    /\ LET snapshot == [p \in Period |-> [payments[p] EXCEPT !.status = req[w].status[p]]]
           suspicious == {p \in Period : Suspicious(snapshot[p])}
       IN Goto(w, [at |-> "store report", report |-> req[w].report, due |-> req[w].due,
                   listed |-> suspicious, flagged |-> Cardinality(suspicious)])
    /\ UNCHANGED <<mined, deep, trail, reportVars>>

\* The row and its audit entry, in one transaction.
StoreReport(w) ==
    /\ At(w, "store report")
    /\ reports' = [reports EXCEPT ![req[w].report] =
                      [status |-> "GENERATED", listed |-> req[w].listed,
                       flagged |-> req[w].flagged, ref |-> "none"]]
    /\ trail' = trail \cup {[event |-> "generated", report |-> req[w].report]}
    /\ Goto(w, [req[w] EXCEPT !.at = "stored"])
    /\ UNCHANGED <<mined, deep, payments, filings>>

----------------------------------------------------------------------------
(* Filing. *)

ReadReport(w, r) ==
    /\ req[w] = Idle /\ reports[r].status = "GENERATED"
    /\ Goto(w, [at |-> "file", report |-> r])
    /\ UNCHANGED <<mined, deep, trail, reportVars>>

\* Mutant: every attempt makes its own key
KeyPerAttempt(w) == w

\* Idempotency-Key: the content's hash.
IdempotencyKey(w) == req[w].report

\* The gateway, taken to keep its side: a key it knows gets the filing it
\* had, whose status may have moved on.
GatewayFiles(w) ==
    /\ At(w, "file")
    /\ \A ref \in DOMAIN filings : filings[ref].key # IdempotencyKey(w)
    /\ \E ref \in References \ DOMAIN filings, s \in {"SUBMITTED", "ACKNOWLEDGED"} :
          filings' = [x \in DOMAIN filings \cup {ref} |->
                        IF x = ref THEN [report |-> req[w].report, key |-> IdempotencyKey(w),
                                         status |-> s]
                        ELSE filings[x]]
    /\ UNCHANGED <<shared, payments, reports>>

GatewayAcknowledges ==
    /\ \E ref \in DOMAIN filings :
          /\ filings[ref].status = "SUBMITTED"
          /\ filings' = [filings EXCEPT ![ref].status = "ACKNOWLEDGED"]
    /\ UNCHANGED <<shared, payments, reports>>

GatewayAnswers(w) ==
    /\ At(w, "file")
    /\ \E ref \in DOMAIN filings :
          /\ filings[ref].key = IdempotencyKey(w)
          /\ Goto(w, [at |-> "store receipt", report |-> req[w].report, ref |-> ref,
                      status |-> filings[ref].status])
    /\ UNCHANGED <<mined, deep, trail, reportVars>>

\* Mutant: the row is updated whatever it says by now
AnyStatus(w) == TRUE

StillGenerated(w) == reports[req[w].report].status = "GENERATED"

\* The receipt and its audit entry, in one transaction.
StoreReceipt(w) ==
    /\ At(w, "store receipt") /\ StillGenerated(w)
    /\ reports' = [reports EXCEPT ![req[w].report].status = req[w].status,
                                  ![req[w].report].ref = req[w].ref]
    /\ trail' = trail \cup {[event |-> "submitted", report |-> req[w].report,
                             ref |-> req[w].ref, status |-> req[w].status]}
    /\ Done(w)
    /\ UNCHANGED <<mined, deep, payments, filings>>

ReportNext ==
    \/ \E p \in Period : Screened(p) \/ Mirrored(p)
    \/ GatewayAcknowledges
    \/ \E w \in Workers :
          \/ ReadScreenings(w) \/ StoreReport(w) \/ GatewayFiles(w) \/ GatewayAnswers(w)
          \/ StoreReceipt(w)
          \/ \E r \in ReportIds : ReadPayments(w, r) \/ ReadReport(w, r)
    \/ RequestStep /\ UNCHANGED reportVars

----------------------------------------------------------------------------
(* Properties. *)

\* A report is filed once: whichever attempts were made, lost or raced, the
\* regulator holds one filing of it, and the row and the only audit entry of
\* its submission name that filing.
FiledOnce ==
    \A r \in ReportIds :
        LET ours == {ref \in DOMAIN filings : filings[ref].report = r}
            entries == {e \in trail : e.event = "submitted" /\ e.report = r}
        IN /\ Cardinality(ours) <= 1
           /\ IF reports[r].status \in {"NONE", "GENERATED"} THEN entries = {}
              ELSE \E ref \in ours :
                      /\ reports[r].ref = ref
                      /\ entries = {[event |-> "submitted", report |-> r, ref |-> ref,
                                     status |-> reports[r].status]}

\* What was suspicious when the report began is in it, although the payments
\* and their screenings are read at different moments, and its summary
\* counts what its data lists.
SuspicionReported ==
    \A w \in Workers :
        At(w, "stored") =>
            /\ req[w].due \subseteq reports[req[w].report].listed
            /\ req[w].flagged = Cardinality(req[w].listed)
=============================================================================
