----------------------------- MODULE AuditTrail -----------------------------
(***************************************************************************)
(* One tenant's audit trail (services/audit.ts): a hash chain of rows of   *)
(* AuditLog, ordered by their timestamps.  An append reads the head of the *)
(* chain in the snapshot its transaction began with; writers run on hosts  *)
(* whose clocks disagree.  Verification and export read the chain a page   *)
(* at a time, each page in a statement of its own, while appends go on.    *)
(***************************************************************************)
EXTENDS Requests, SequencesExt

CONSTANTS
    Clock,          \* what a host's clock may read
    PageSize,       \* AUDIT_VERIFICATION_PAGE_SIZE and queryPageSize
    MaxRows,        \* AUDIT_EXPORT_LIMITS.maxRows
    Retries,        \* SERIALIZABLE_RETRIES
    MaxEntries      \* bound: entries on the chain

ASSUME AuditAssumption ==
    /\ Clock \subseteq Nat /\ Clock # {}
    /\ PageSize \in Nat \ {0} /\ MaxRows \in Nat /\ Retries \in Nat \ {0}

VARIABLE log            \* the rows in the order they were committed

GENESIS_HASH == 0

\* A row is named by its hash, which differs from every other row's.
Entry(hash, previous, createdAt) == [hash |-> hash, previous |-> previous, createdAt |-> createdAt]

NoRow == Entry(GENESIS_HASH, GENESIS_HASH, 0)

AuditInit == log = <<>>

AuditTypeOK ==
    \A i \in 1..Len(log) : log[i] = Entry(i, log[i].previous, log[i].createdAt)

\* orderBy createdAt, then id, of the rows committed when a statement or snapshot
\* began; the id of a row is any name of its own, here its hash.
Before(d, e) == d.createdAt < e.createdAt \/ (d.createdAt = e.createdAt /\ d.hash < e.hash)
Ordered(n) ==
    LET rows == Range(SubSeq(log, 1, n)) IN
    [k \in 1..n |-> CHOOSE e \in rows : Cardinality({d \in rows : Before(d, e)}) = k - 1]
Chain == Ordered(Len(log))

----------------------------------------------------------------------------
(* Appending. *)

\* A serializable transaction opens: the snapshot is the rows committed so far.
BeginEntry(w) ==
    /\ req[w] = Idle
    /\ Goto(w, [at |-> "append", seen |-> Len(log), attempt |-> 1])
    /\ UNCHANGED <<mined, deep, trail, log>>

ChainHead(n) == IF n = 0 THEN NoRow ELSE Last(Ordered(n))

\* Mutant: the host's clock alone stamps the entry
StampByClock(now, head) == now

\* Strictly after the entry it follows, whatever this host's clock says.
Stamp(now, head) == IF now > head.createdAt THEN now ELSE head.createdAt + 1

\* Mutant: read committed, so that a head read earlier may no longer be the head
NeverConflicts(w) == TRUE

\* The advisory lock orders the appends of a tenant, but a transaction that
\* waited for it still has the snapshot it began with: if another append was
\* committed since, the database refuses this one (P2034).
Serializable(w) == req[w].seen = Len(log)

CreateEntry(w) ==
    /\ At(w, "append") /\ Serializable(w) /\ Len(log) < MaxEntries
    /\ \E now \in Clock :
          LET head == ChainHead(req[w].seen) IN
          log' = Append(log, Entry(Len(log) + 1, head.hash, Stamp(now, head)))
    /\ Done(w)
    /\ UNCHANGED <<mined, deep, trail>>

\* Refused: a new transaction, up to Retries times, then the error is thrown.
RetryEntry(w) ==
    /\ At(w, "append") /\ ~Serializable(w)
    /\ IF req[w].attempt < Retries
       THEN Goto(w, [at |-> "append", seen |-> Len(log), attempt |-> req[w].attempt + 1])
       ELSE Done(w)
    /\ UNCHANGED <<mined, deep, trail, log>>

----------------------------------------------------------------------------
(* verifyChainIntegrity. *)

\* The rows after the cursor's, at most take of them.
Page(rows, cursor, take) ==
    LET passed == Cardinality({i \in 1..Len(rows) : rows[i].createdAt <= cursor}) IN
    SubSeq(rows, passed + 1, IF passed + take < Len(rows) THEN passed + take ELSE Len(rows))

CountEntries(w) ==
    /\ req[w] = Idle
    /\ Goto(w, [at |-> "verify", total |-> Len(log), verified |-> 0, last |-> NoRow])
    /\ UNCHANGED <<mined, deep, trail, log>>

Linked(page, expected) ==
    \A i \in 1..Len(page) : page[i].previous = IF i = 1 THEN expected ELSE page[i - 1].hash

VerifyPage(w) ==
    /\ At(w, "verify")
    /\ LET h == req[w]
           take == IF PageSize < h.total - h.verified THEN PageSize ELSE h.total - h.verified
           page == Page(Chain, h.last.createdAt, take) IN
       IF h.verified = h.total
       THEN Goto(w, [at |-> "verified", intact |-> TRUE])
       ELSE IF page = <<>> \/ ~Linked(page, h.last.hash)
       THEN Goto(w, [at |-> "verified", intact |-> FALSE])
       ELSE Goto(w, [h EXCEPT !.verified = @ + Len(page), !.last = Last(page)])
    /\ UNCHANGED <<mined, deep, trail, log>>

----------------------------------------------------------------------------
(* generateExport. *)

Within(rows, period) ==
    LET earlier == Cardinality({i \in 1..Len(rows) : rows[i].createdAt < period[1]})
        through == Cardinality({i \in 1..Len(rows) : rows[i].createdAt <= period[2]})
    IN SubSeq(rows, earlier + 1, through)

StartExport(w) ==
    /\ req[w] = Idle
    /\ \E period \in Clock \X Clock :
          /\ period[1] <= period[2]
          /\ Goto(w, [at |-> "export", period |-> period, rows |-> <<>>, began |-> Len(log)])
    /\ UNCHANGED <<mined, deep, trail, log>>

\* Mutant: nothing is read past the last row allowed
TakeExactly(remaining) == IF PageSize < remaining THEN PageSize ELSE remaining

\* One row more than may be delivered, so that an export too large is refused.
Take(remaining) == IF PageSize < remaining + 1 THEN PageSize ELSE remaining + 1

ExportPage(w) ==
    /\ At(w, "export")
    /\ LET h == req[w]
           take == Take(MaxRows - Len(h.rows))
           cursor == IF h.rows = <<>> THEN 0 ELSE Last(h.rows).createdAt
           page == Page(Within(Chain, h.period), cursor, take)
           rows == h.rows \o page IN
       IF Len(rows) > MaxRows THEN Done(w)
       ELSE IF page # <<>> /\ Len(page) >= take THEN Goto(w, [h EXCEPT !.rows = rows])
       ELSE Goto(w, [h EXCEPT !.rows = rows, !.at = "exported"])
    /\ UNCHANGED <<mined, deep, trail, log>>

AnswerAudit(w) ==
    /\ At(w, "verified") \/ At(w, "exported")
    /\ Done(w)
    /\ UNCHANGED <<mined, deep, trail, log>>

AuditNext ==
    \/ \E w \in Workers :
          \/ BeginEntry(w) \/ CreateEntry(w) \/ RetryEntry(w)
          \/ CountEntries(w) \/ VerifyPage(w)
          \/ StartExport(w) \/ ExportPage(w) \/ AnswerAudit(w)
    \/ (\E w \in Workers : Fail(w)) /\ UNCHANGED log

----------------------------------------------------------------------------
(* Properties. *)

\* Concurrent appends never fork the chain: in the order of their timestamps,
\* which are distinct, every row follows the hash of the one before it.  So a
\* verification that runs while rows are appended never reports a break.
AuditChainIntact ==
    /\ Linked(Chain, GENESIS_HASH)
    /\ \A i, j \in 1..Len(log) : i < j => log[i].createdAt < log[j].createdAt
    /\ \A w \in Workers : At(w, "verified") => req[w].intact

\* An export that is delivered holds, without a gap and in order, every row its
\* period held when it began, and rows of the period appended since.
ExportComplete ==
    \A w \in Workers : At(w, "exported") =>
        LET h == req[w] IN
        /\ Len(h.rows) <= MaxRows
        /\ IsPrefix(Within(Ordered(h.began), h.period), h.rows)
        /\ \A i \in 2..Len(h.rows) : h.rows[i].previous = h.rows[i - 1].hash

\* While tenants' requests append from processes with clocks of their own, the
\* chain stays one chain and what is exported of it is all of it
\* (services/audit.ts:createAuditEntry, verifyChainIntegrity, exportAuditLog).
AuditHolds == AuditChainIntact /\ ExportComplete
=============================================================================
