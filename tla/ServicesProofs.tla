--------------------------- MODULE ServicesProofs ---------------------------
(***************************************************************************)
(* What the backend keeps besides the records, and the pages in front of   *)
(* it, and the scripts that deploy, for any number of requests, clients,   *)
(* rows, runs and blocks: an invariant for each part, and with the parts   *)
(* together the promises of MCServices.                                    *)
(***************************************************************************)
EXTENDS MCServices, PermissionProofs, SumTheorems, Integers, SequenceTheorems, FiniteSetTheorems,
        WellFoundedInduction, NaturalsInduction, TLAPS

(***************************************************************************)
(* Requests.                                                               *)
(***************************************************************************)
\* A step of one request: it alone is somewhere else.
LEMMA OneGoes ==
    ASSUME NEW Held, req \in [Workers -> Held], NEW w \in Workers, NEW r \in Held, Goto(w, r)
    PROVE  /\ req' \in [Workers -> Held] /\ req'[w] = r
           /\ \A v \in Workers \ {w} : req'[v] = req[v]
BY DEF Goto

\* A request that dies, where no request writes an audit entry of its own.
LEMMA OneFails ==
    ASSUME NEW Held, req \in [Workers -> Held], Idle \in Held, RequestStep,
           \A w \in Workers : ~At(w, "audit")
    PROVE  \E w \in Workers : Goto(w, Idle) /\ UNCHANGED <<mined, deep, trail>>
BY DEF RequestStep, Audit, Fail, Done

LEMMA IdleRests == Idle.at = "idle"
BY DEF Idle

\* A sequence without its k-th element.
LEMMA OneRemoved ==
    ASSUME NEW S, NEW s \in Seq(S), NEW k \in 1..Len(s)
    PROVE  /\ RemoveAt(s, k) \in Seq(S) /\ Len(RemoveAt(s, k)) = Len(s) - 1
           /\ \A i \in 1..(Len(s) - 1) : RemoveAt(s, k)[i] = s[IF i < k THEN i ELSE i + 1]
BY WithoutOne DEF RemoveAt

AtRest == mined = <<>> /\ deep = 0 /\ trail = {}

----------------------------------------------------------------------------
(***************************************************************************)
(* The audit trail (services/audit.ts).  Rows are linked in the order they *)
(* are committed, which is that of their timestamps, so what is read by    *)
(* timestamp is a stretch of the chain; a verification and an export hold  *)
(* on to the stretch they have read.                                       *)
(***************************************************************************)
AuditRow == [hash : Nat, previous : Nat, createdAt : Nat]

\* Rows in the order of their timestamps, no two of which are the same.
Increasing(s) ==
    /\ s \in Seq(AuditRow)
    /\ \A i \in 1..Len(s) : s[i].createdAt > 0
    /\ \A i, j \in 1..Len(s) : i < j => s[i].createdAt < s[j].createdAt

\* One chain: the rows are linked in the order they were committed.
Chained ==
    /\ Increasing(log)
    /\ \A i \in 1..Len(log) : log[i].hash = i /\ log[i].previous = i - 1

\* How many rows are before a time, and how many at or before one.
LEMMA Earlier ==
    ASSUME NEW s, Increasing(s), NEW c \in Nat
    PROVE  LET k == Cardinality({i \in 1..Len(s) : s[i].createdAt < c})
           IN k \in 0..Len(s) /\ \A i \in 1..Len(s) : s[i].createdAt < c <=> i <= k
<1> DEFINE D == {i \in 1..Len(s) : s[i].createdAt < c}
           k == Cardinality(D)
<1>1. Len(s) \in Nat /\ \A i \in 1..Len(s) : s[i].createdAt \in Nat
  <2>1. s \in Seq(AuditRow)
    BY DEF Increasing
  <2>2. ASSUME NEW i \in 1..Len(s) PROVE s[i] \in AuditRow
    BY <2>1, ElementOfSeq
  <2> QED BY <2>1, <2>2 DEF AuditRow
<1>2. ASSUME NEW i \in D, NEW j \in 1..i PROVE j \in D
  BY <1>1, <1>2 DEF Increasing
<1>3. D \in SUBSET (1..Len(s)) /\ \A i \in D : 1..i \subseteq D
  BY <1>2
<1>4. k \in 0..Len(s) /\ D = 1..k
  <2> HIDE DEF D
  <2> QED BY <1>1, <1>3, InitialIndices
<1>5. \A i \in 1..Len(s) : i \in 1..k <=> i <= k
  BY <1>1, <1>4
<1> QED BY <1>4, <1>5

LEMMA UpTo ==
    ASSUME NEW s, Increasing(s), NEW c \in Nat
    PROVE  LET k == Cardinality({i \in 1..Len(s) : s[i].createdAt <= c})
           IN k \in 0..Len(s) /\ \A i \in 1..Len(s) : s[i].createdAt <= c <=> i <= k
<1>1. \A i \in 1..Len(s) : s[i].createdAt <= c <=> s[i].createdAt < c + 1
  <2>1. ASSUME NEW i \in 1..Len(s) PROVE s[i] \in AuditRow
    BY ElementOfSeq DEF Increasing
  <2> QED BY <2>1 DEF AuditRow
<1>2. {i \in 1..Len(s) : s[i].createdAt <= c} = {i \in 1..Len(s) : s[i].createdAt < c + 1}
  BY <1>1
<1> QED BY <1>1, <1>2, Earlier

\* A stretch of such rows is one too.
LEMMA IncreasingStretch ==
    ASSUME NEW s, Increasing(s), NEW a \in 0..Len(s), NEW b \in a..Len(s)
    PROVE  Increasing(SubSeq(s, a + 1, b))
<1> DEFINE t == SubSeq(s, a + 1, b)
<1>1. s \in Seq(AuditRow) /\ Len(s) \in Nat /\ a \in Nat /\ b \in Nat /\ a <= b /\ b <= Len(s)
  BY DEF Increasing
<1>2. t \in Seq(AuditRow) /\ Len(t) = b - a /\ \A i \in 1..(b - a) : t[i] = s[a + i]
  BY <1>1, Stretch
<1> HIDE DEF t
<1>3. ASSUME NEW i \in 1..Len(t) PROVE a + i \in 1..Len(s) /\ t[i] = s[a + i]
  BY <1>1, <1>2
<1>4. ASSUME NEW i \in 1..Len(t), NEW j \in 1..Len(t), i < j
      PROVE  t[i].createdAt < t[j].createdAt
  <2>1. a + i < a + j
    BY <1>1, <1>4
  <2> QED BY <1>3, <2>1 DEF Increasing
<1>5. \A i \in 1..Len(t) : t[i].createdAt > 0
  BY <1>3 DEF Increasing
<1>6. Increasing(t)
  BY <1>2, <1>4, <1>5 DEF Increasing
<1> QED BY <1>6 DEF t

\* What the chain is made of.
LEMMA ChainRows ==
    ASSUME Chained
    PROVE  /\ log \in Seq(AuditRow) /\ Len(log) \in Nat
           /\ \A i \in 1..Len(log) :
                 /\ log[i] \in AuditRow /\ log[i].hash = i /\ log[i].previous = i - 1
                 /\ log[i].createdAt \in Nat /\ log[i].createdAt > 0
           /\ \A i, j \in 1..Len(log) : i < j => log[i].createdAt < log[j].createdAt
<1>1. log \in Seq(AuditRow)
  BY DEF Chained, Increasing
<1>2. ASSUME NEW i \in 1..Len(log) PROVE log[i] \in AuditRow
  BY <1>1, ElementOfSeq
<1>3. \A i \in 1..Len(log) : log[i].createdAt \in Nat
  BY <1>2 DEF AuditRow
<1> QED BY <1>1, <1>2, <1>3, LenProperties DEF Chained, Increasing

LEMMA FirstRows ==
    ASSUME Chained, NEW n \in 0..Len(log)
    PROVE  /\ SubSeq(log, 1, n) \in Seq(AuditRow) /\ Len(SubSeq(log, 1, n)) = n
           /\ \A i \in 1..n : SubSeq(log, 1, n)[i] = log[i]
           /\ Increasing(SubSeq(log, 1, n))
<1> DEFINE z == 0
<1>1. log \in Seq(AuditRow) /\ Len(log) \in Nat /\ Increasing(log)
  BY ChainRows DEF Chained
<1>2. z \in 0..Len(log) /\ n \in z..Len(log) /\ z + 1 = 1 /\ n - z = n /\ \A i \in 1..n : z + i = i
  BY <1>1
<1> HIDE DEF z
<1>3. /\ SubSeq(log, z + 1, n) \in Seq(AuditRow) /\ Len(SubSeq(log, z + 1, n)) = n - z
      /\ \A i \in 1..(n - z) : SubSeq(log, z + 1, n)[i] = log[z + i]
  BY <1>1, <1>2, Stretch
<1>4. Increasing(SubSeq(log, z + 1, n))
  BY <1>1, <1>2, IncreasingStretch
<1> QED BY <1>2, <1>3, <1>4

LEMMA CountedRows ==
    ASSUME Chained, NEW m \in 0..Len(log)
    PROVE  Cardinality({log[i] : i \in 1..m}) = m
<1> DEFINE T == {log[i] : i \in 1..m}
           f == [i \in 1..m |-> log[i]]
<1>1. m \in Nat /\ \A i \in 1..m : i \in 1..Len(log)
  BY ChainRows
<1>2. \A i, j \in 1..m : log[i] = log[j] => i = j
  BY <1>1, ChainRows
<1>3. f \in Bijection(1..m, T)
  BY <1>2 DEF Bijection, Injection, Surjection, IsInjective
<1>4. ExistsBijection(1..m, T)
  BY <1>3 DEF ExistsBijection
<1> QED BY <1>1, <1>4, FS_CountingElements

\* Ordered by their timestamps, the rows are in the order of their commits.
LEMMA OrderedAsCommitted ==
    ASSUME Chained, NEW n \in 0..Len(log)
    PROVE  Ordered(n) = SubSeq(log, 1, n)
<1> DEFINE rows == Range(SubSeq(log, 1, n))
<1>1. n \in Nat /\ \A i \in 1..n : i \in 1..Len(log)
  BY ChainRows
<1>2. rows = {log[i] : i \in 1..n}
  <2>1. DOMAIN SubSeq(log, 1, n) = 1..n
    BY FirstRows, LenProperties
  <2> QED BY <2>1, FirstRows DEF Range
<1>3. \A i, j \in 1..n : Before(log[i], log[j]) <=> i < j
  <2> SUFFICES ASSUME NEW i \in 1..n, NEW j \in 1..n PROVE Before(log[i], log[j]) <=> i < j
    OBVIOUS
  <2>1. /\ log[i].createdAt \in Nat /\ log[j].createdAt \in Nat
        /\ log[i].hash = i /\ log[j].hash = j
        /\ i < j => log[i].createdAt < log[j].createdAt
        /\ j < i => log[j].createdAt < log[i].createdAt
    BY <1>1, ChainRows
  <2>2. i < j \/ i = j \/ j < i
    OBVIOUS
  <2> QED BY <2>1, <2>2 DEF Before
<1> HIDE DEF rows
<1>4. ASSUME NEW j \in 1..n
      PROVE  Cardinality({d \in rows : Before(d, log[j])}) = j - 1
  <2>1. {d \in rows : Before(d, log[j])} = {log[i] : i \in 1..(j - 1)}
    <3>1. ASSUME NEW i \in 1..(j - 1) PROVE log[i] \in rows /\ Before(log[i], log[j])
      BY <1>1, <1>2, <1>3
    <3>2. ASSUME NEW i \in 1..n, Before(log[i], log[j]) PROVE i \in 1..(j - 1)
      BY <1>1, <1>3, <3>2
    <3> QED BY <1>2, <3>1, <3>2
  <2>2. j - 1 \in 0..Len(log)
    BY <1>1, ChainRows
  <2> QED BY <2>1, <2>2, CountedRows
<1>5. ASSUME NEW k \in 1..n
      PROVE  (CHOOSE e \in rows : Cardinality({d \in rows : Before(d, e)}) = k - 1) = log[k]
  <2>1. log[k] \in rows /\ Cardinality({d \in rows : Before(d, log[k])}) = k - 1
    BY <1>2, <1>4
  <2>2. ASSUME NEW e \in rows, Cardinality({d \in rows : Before(d, e)}) = k - 1 PROVE e = log[k]
    <3>1. PICK j \in 1..n : e = log[j]
      BY <1>2
    <3>2. j - 1 = k - 1
      BY <1>4, <2>2, <3>1
    <3> QED BY <1>1, <3>1, <3>2
  <2> QED BY <2>1, <2>2
<1>6. SubSeq(log, 1, n) = [k \in 1..n |-> log[k]]
  <2>1. SubSeq(log, 1, n) \in [1..n -> AuditRow]
    BY FirstRows, LenProperties
  <2> QED BY <2>1, FirstRows
<1>7. [k \in 1..n |-> CHOOSE e \in rows : Cardinality({d \in rows : Before(d, e)}) = k - 1]
        = [k \in 1..n |-> log[k]]
  BY <1>5
<1> QED BY <1>6, <1>7 DEF Ordered, rows

\* The page after the m-th row of a stretch.
LEMMA PageOf ==
    ASSUME Chained, NEW a \in 0..Len(log), NEW b \in a..Len(log), NEW m \in 0..(b - a),
           NEW cursor \in Nat, NEW take \in Nat,
           \A i \in 1..(b - a) : log[a + i].createdAt <= cursor <=> i <= m
    PROVE  LET last == IF m + take < b - a THEN m + take ELSE b - a
           IN Page(SubSeq(log, a + 1, b), cursor, take) = SubSeq(log, a + m + 1, a + last)
<1> DEFINE s == SubSeq(log, a + 1, b)
           D == {i \in 1..Len(s) : s[i].createdAt <= cursor}
           last == IF m + take < b - a THEN m + take ELSE b - a
<1>1. log \in Seq(AuditRow) /\ a \in Nat /\ b \in Nat /\ a <= b /\ b <= Len(log) /\ m \in Nat
  BY ChainRows
<1>2. s \in Seq(AuditRow) /\ Len(s) = b - a /\ \A i \in 1..(b - a) : s[i] = log[a + i]
  BY <1>1, Stretch
<1> HIDE DEF s
<1>3. D = 1..m
  <2>1. \A i \in 1..(b - a) : s[i].createdAt <= cursor <=> i <= m
    BY <1>2
  <2>2. \A i : i \in 1..m <=> i \in 1..(b - a) /\ i <= m
    BY <1>1
  <2> QED BY <1>2, <2>1, <2>2
<1>4. Cardinality(D) = m
  <2>1. Cardinality(1..m) = m
    BY <1>1, FS_Interval
  <2> HIDE DEF D
  <2> QED BY <1>3, <2>1
<1>5. m \in 0..(b - a) /\ last \in m..(b - a)
  BY <1>1
<1>6. Page(s, cursor, take) = SubSeq(s, m + 1, last)
  BY <1>2, <1>4 DEF Page
<1> HIDE DEF last
<1>7. SubSeq(s, m + 1, last) = SubSeq(log, a + m + 1, a + last)
  BY <1>1, <1>5, StretchOfStretch DEF s
<1> QED BY <1>6, <1>7 DEF s, last

\* The rows of a period, among the first n.
LEMMA WithinOf ==
    ASSUME Chained, NEW n \in 0..Len(log), NEW p \in Nat \X Nat, p[1] <= p[2]
    PROVE  \E lo \in 0..n : \E hi \in lo..n :
              /\ Within(SubSeq(log, 1, n), p) = SubSeq(log, lo + 1, hi)
              /\ \A i \in 1..n : /\ log[i].createdAt < p[1] <=> i <= lo
                                 /\ log[i].createdAt <= p[2] <=> i <= hi
<1> DEFINE s == SubSeq(log, 1, n)
           lo == Cardinality({i \in 1..Len(s) : s[i].createdAt < p[1]})
           hi == Cardinality({i \in 1..Len(s) : s[i].createdAt <= p[2]})
<1>1. n \in Nat /\ log \in Seq(AuditRow) /\ p[1] \in Nat /\ p[2] \in Nat
  BY ChainRows
<1>2. s \in Seq(AuditRow) /\ Len(s) = n /\ Increasing(s) /\ \A i \in 1..n : s[i] = log[i]
  BY FirstRows
<1>3. lo \in 0..n /\ \A i \in 1..n : s[i].createdAt < p[1] <=> i <= lo
  BY <1>1, <1>2, Earlier
<1>4. hi \in 0..n /\ \A i \in 1..n : s[i].createdAt <= p[2] <=> i <= hi
  BY <1>1, <1>2, UpTo
<1>5. Within(s, p) = SubSeq(s, lo + 1, hi)
  BY DEF Within
<1> HIDE DEF lo, hi
<1>6. hi \in lo..n
  <2> HIDE DEF s
  <2> SUFFICES ASSUME lo > hi PROVE FALSE
    BY <1>3, <1>4
  <2>1. lo \in 1..n /\ lo \in 1..Len(log)
    BY <1>1, <1>3, <1>4, ChainRows
  <2>2. s[lo].createdAt \in Nat
    BY <1>2, <2>1, ChainRows
  <2>3. s[lo].createdAt < p[1] /\ ~(s[lo].createdAt <= p[2])
    BY <1>3, <1>4, <2>1
  <2> QED BY <1>1, <2>2, <2>3
<1>7. SubSeq(s, lo + 1, hi) = SubSeq(log, lo + 1, hi)
  <2> DEFINE z == 0
  <2>1. z \in 0..Len(log) /\ n \in z..Len(log) /\ lo \in 0..(n - z) /\ hi \in lo..(n - z)
        /\ z + 1 = 1 /\ z + lo + 1 = lo + 1 /\ z + hi = hi
    BY <1>1, <1>3, <1>6
  <2> HIDE DEF z
  <2>2. SubSeq(SubSeq(log, z + 1, n), lo + 1, hi) = SubSeq(log, z + lo + 1, z + hi)
    BY <1>1, <2>1, StretchOfStretch
  <2> QED BY <2>1, <2>2
<1> HIDE DEF s
<1>8. \A i \in 1..n : /\ log[i].createdAt < p[1] <=> i <= lo
                      /\ log[i].createdAt <= p[2] <=> i <= hi
  BY <1>2, <1>3, <1>4
<1>9. Within(s, p) = SubSeq(log, lo + 1, hi)
  BY <1>5, <1>7
<1> QED BY <1>3, <1>6, <1>8, <1>9 DEF s

\* What a request of the audit service holds.
Appending == [at : {"append"}, seen : Nat, attempt : Nat]
Verifying == [at : {"verify"}, total : Nat, verified : Nat, last : AuditRow]
Judged == [at : {"verified"}, intact : BOOLEAN]
Exporting == [at : {"export", "exported"}, period : Clock \X Clock, rows : Seq(AuditRow), began : Nat]
AuditHeld == {Idle} \cup Appending \cup Verifying \cup Judged \cup Exporting

\* The rows read for an export follow the a-th of the chain without a gap; what
\* is before them is before the period, and what is after them when all is read
\* is after it.
Cut(r, chain, a) ==
    /\ a + Len(r.rows) <= Len(chain)
    /\ \A k \in 1..Len(r.rows) : r.rows[k] = chain[a + k]
    /\ \A i \in 1..a : chain[i].createdAt < r.period[1]
    /\ \A i \in (a + 1)..(a + Len(r.rows)) :
          r.period[1] <= chain[i].createdAt /\ chain[i].createdAt <= r.period[2]
    /\ r.at = "exported" =>
          \A i \in (a + Len(r.rows) + 1)..r.began : chain[i].createdAt > r.period[2]

\* A verification stands at a row of the chain and never found a break.
Follows(r, chain) ==
    /\ r.at = "append" => r.seen <= Len(chain)
    /\ r.at = "verify" =>
          /\ r.verified <= r.total /\ r.total <= Len(chain)
          /\ r.last = (IF r.verified = 0 THEN NoRow ELSE chain[r.verified])
    /\ r.at = "verified" => r.intact = TRUE
    /\ r.at \in {"export", "exported"} =>
          /\ r.period[1] <= r.period[2] /\ r.began <= Len(chain) /\ Len(r.rows) <= MaxRows
          /\ \E a \in 0..Len(chain) : Cut(r, chain, a)

AuditInv ==
    /\ req \in [Workers -> AuditHeld] /\ AtRest
    /\ Chained
    /\ \A w \in Workers : Follows(req[w], log)

LEMMA IdleAudits == Idle \in AuditHeld /\ \A chain : Follows(Idle, chain)
BY IdleRests DEF AuditHeld, Follows

LEMMA NoRowIsOne == NoRow \in AuditRow /\ NoRow.hash = 0 /\ NoRow.createdAt = 0
BY DEF NoRow, Entry, AuditRow, GENESIS_HASH

LEMMA AuditStart == RequestsInit /\ AuditInit => AuditInv
<1> SUFFICES ASSUME RequestsInit, AuditInit PROVE AuditInv
  OBVIOUS
<1>1. Chained
  BY DEF AuditInit, Chained, Increasing
<1> QED BY <1>1, IdleAudits DEF RequestsInit, AuditInv, AtRest

\* A request of the audit service at the step it is at.
LEMMA AuditRequest ==
    ASSUME AuditInv, NEW w \in Workers
    PROVE  /\ Follows(req[w], log)
           /\ req[w].at = "append" => req[w] \in Appending
           /\ req[w].at = "verify" => req[w] \in Verifying
           /\ req[w].at \in {"export", "exported"} => req[w] \in Exporting
           /\ req[w].at # "audit"
<1>1. req[w] \in AuditHeld /\ Follows(req[w], log)
  BY DEF AuditInv
<1> QED BY <1>1, IdleRests DEF AuditHeld, Appending, Verifying, Judged, Exporting

LEMMA AuditGoes ==
    ASSUME AuditInv, NEW w \in Workers, NEW r \in AuditHeld, Follows(r, log),
           Goto(w, r), UNCHANGED <<mined, deep, trail, log>>
    PROVE  AuditInv'
<1>1. /\ req' \in [Workers -> AuditHeld] /\ req'[w] = r
      /\ \A v \in Workers \ {w} : req'[v] = req[v]
  BY OneGoes DEF AuditInv
<1>2. AtRest' /\ Chained'
  BY DEF AuditInv, AtRest, Chained, Increasing
<1>3. \A v \in Workers : Follows(req[v], log)'
  BY <1>1 DEF AuditInv
<1> QED BY <1>1, <1>2, <1>3 DEF AuditInv

\* What is appended takes nothing from what was read.
LEMMA ChainGrows ==
    ASSUME NEW chain \in Seq(AuditRow), NEW e \in AuditRow, NEW r \in AuditHeld, Follows(r, chain)
    PROVE  Follows(r, Append(chain, e))
<1> DEFINE more == Append(chain, e)
<1>1. /\ Len(chain) \in Nat /\ Len(more) = Len(chain) + 1
      /\ \A i \in 1..Len(chain) : more[i] = chain[i]
  BY AppendProperties
<1> HIDE DEF more
<1>2. r.at = "append" => r \in Appending
  BY IdleRests DEF AuditHeld, Appending, Verifying, Judged, Exporting
<1>3. r.at = "verify" => r \in Verifying
  BY IdleRests DEF AuditHeld, Appending, Verifying, Judged, Exporting
<1>4. r.at \in {"export", "exported"} => r \in Exporting
  BY IdleRests DEF AuditHeld, Appending, Verifying, Judged, Exporting
<1>5. r.at = "append" => r.seen <= Len(more)
  BY <1>1, <1>2 DEF Follows, Appending
<1>6. ASSUME r.at = "verify"
      PROVE  /\ r.verified <= r.total /\ r.total <= Len(more)
             /\ r.last = (IF r.verified = 0 THEN NoRow ELSE more[r.verified])
  <2>1. r.verified \in Nat /\ r.total \in Nat /\ r.verified <= r.total /\ r.total <= Len(chain)
        /\ r.last = (IF r.verified = 0 THEN NoRow ELSE chain[r.verified])
    BY <1>3, <1>6 DEF Follows, Verifying
  <2>2. r.verified # 0 => r.verified \in 1..Len(chain)
    BY <1>1, <2>1
  <2> QED BY <1>1, <2>1, <2>2
<1>7. ASSUME r.at \in {"export", "exported"}
      PROVE  /\ r.period[1] <= r.period[2] /\ r.began <= Len(more) /\ Len(r.rows) <= MaxRows
             /\ \E a \in 0..Len(more) : Cut(r, more, a)
  <2>1. /\ r.began \in Nat /\ r.rows \in Seq(AuditRow) /\ Len(r.rows) \in Nat
        /\ r.began <= Len(chain)
    BY <1>4, <1>7 DEF Follows, Exporting
  <2>2. PICK a \in 0..Len(chain) : Cut(r, chain, a)
    BY <1>7 DEF Follows
  <2> DEFINE m == Len(r.rows)
  <2>3. a \in Nat /\ m \in Nat /\ a + m <= Len(chain)
    BY <2>1, <2>2 DEF Cut
  <2>4. /\ \A i \in 1..a : more[i] = chain[i]
        /\ \A k \in 1..m : more[a + k] = chain[a + k]
        /\ \A i \in (a + 1)..(a + m) : more[i] = chain[i]
        /\ \A i \in (a + m + 1)..r.began : more[i] = chain[i]
    <3>1. \A i \in 1..a : i \in 1..Len(chain)
      BY <1>1, <2>3
    <3>2. \A k \in 1..m : a + k \in 1..Len(chain)
      BY <1>1, <2>3
    <3>3. \A i \in (a + 1)..(a + m) : i \in 1..Len(chain)
      BY <1>1, <2>3
    <3>4. \A i \in (a + m + 1)..r.began : i \in 1..Len(chain)
      BY <1>1, <2>1, <2>3
    <3> HIDE DEF m
    <3> QED BY <1>1, <3>1, <3>2, <3>3, <3>4
  <2>5. Cut(r, more, a)
    <3>1. a + m <= Len(more)
      BY <1>1, <2>3
    <3> QED BY <2>2, <2>4, <3>1 DEF Cut
  <2>6. r.period[1] <= r.period[2] /\ Len(r.rows) <= MaxRows
    BY <1>7 DEF Follows
  <2> HIDE DEF m
  <2> QED BY <1>1, <2>1, <2>3, <2>5, <2>6
<1>8. r.at = "verified" => r.intact = TRUE
  BY DEF Follows
<1> QED BY <1>5, <1>6, <1>7, <1>8 DEF Follows, more

\* Only a transaction that saw the whole chain appends to it.
LEMMA EntryCreated ==
    ASSUME AuditInv, NEW w \in Workers, CreateEntry(w)
    PROVE  AuditInv'
<1> DEFINE n == Len(log)
           head == ChainHead(n)
<1>1. /\ log \in Seq(AuditRow) /\ n \in Nat /\ n \in 0..Len(log)
      /\ \A i \in 1..n : /\ log[i] \in AuditRow /\ log[i].hash = i /\ log[i].previous = i - 1
                         /\ log[i].createdAt \in Nat /\ log[i].createdAt > 0
      /\ \A i, j \in 1..n : i < j => log[i].createdAt < log[j].createdAt
  BY ChainRows DEF AuditInv
<1>2. Ordered(n) = log
  <2>1. SubSeq(log, 1, n) = log
    BY <1>1, SubSeqFull
  <2> QED BY <1>1, <2>1, OrderedAsCommitted DEF AuditInv
<1> HIDE DEF n
<1>3. /\ head.hash = n /\ head.createdAt \in Nat
      /\ \A i \in 1..n : log[i].createdAt <= head.createdAt
  <2>1. CASE n = 0
    BY <1>1, <2>1, NoRowIsOne DEF ChainHead
  <2>2. CASE n # 0
    <3>1. head = log[n] /\ n \in 1..n
      BY <1>1, <1>2, <2>2 DEF ChainHead, Last, n
    <3>2. \A i \in 1..n : i = n \/ i < n
      BY <1>1
    <3> QED BY <1>1, <3>1, <3>2
  <2> QED BY <2>1, <2>2
<1>4. PICK now \in Clock : log' = Append(log, Entry(n + 1, head.hash, Stamp(now, head)))
  BY DEF CreateEntry, Serializable, n
<1> DEFINE t == Stamp(now, head)
           e == Entry(n + 1, head.hash, t)
<1>5. t \in Nat /\ t > head.createdAt
  <2>1. now \in Nat
    BY AuditAssumption
  <2> HIDE DEF head
  <2> QED BY <1>3, <2>1 DEF Stamp
<1> HIDE DEF head, t
<1>6. e \in AuditRow /\ e.hash = n + 1 /\ e.previous = n /\ e.createdAt = t
  BY <1>1, <1>3, <1>5 DEF Entry, AuditRow
<1>7. log' = Append(log, e)
  BY <1>4 DEF t
<1> HIDE DEF e
<1>8. /\ log' \in Seq(AuditRow) /\ Len(log') = n + 1
      /\ \A i \in 1..n : log'[i] = log[i] /\ log'[n + 1] = e
  BY <1>1, <1>6, <1>7, AppendProperties DEF n
<1>9. log'[n + 1] = e
  BY <1>1, <1>6, <1>7, AppendProperties DEF n
<1>10. ASSUME NEW i \in 1..Len(log')
       PROVE  log'[i].hash = i /\ log'[i].previous = i - 1 /\ log'[i].createdAt > 0
  <2>1. i \in 1..n \/ i = n + 1
    BY <1>1, <1>8
  <2>2. CASE i \in 1..n
    BY <1>1, <1>8, <2>2
  <2>3. CASE i = n + 1
    BY <1>1, <1>3, <1>5, <1>6, <1>9, <2>3
  <2> QED BY <2>1, <2>2, <2>3
<1>11. ASSUME NEW i \in 1..Len(log'), NEW j \in 1..Len(log'), i < j
       PROVE  log'[i].createdAt < log'[j].createdAt
  <2>1. i \in 1..n /\ (j \in 1..n \/ j = n + 1)
    BY <1>1, <1>8, <1>11
  <2>2. CASE j \in 1..n
    BY <1>1, <1>8, <1>11, <2>1, <2>2
  <2>3. CASE j = n + 1
    <3>1. log'[i].createdAt = log[i].createdAt /\ log'[j].createdAt = t
      BY <1>6, <1>8, <1>9, <2>1, <2>3
    <3>2. log[i].createdAt \in Nat /\ log[i].createdAt <= head.createdAt
      BY <1>1, <1>3, <2>1
    <3> QED BY <1>3, <1>5, <3>1, <3>2
  <2> QED BY <2>1, <2>2, <2>3
<1>12. Chained'
  BY <1>8, <1>10, <1>11 DEF Chained, Increasing
<1>13. /\ req' \in [Workers -> AuditHeld] /\ req'[w] = Idle
       /\ \A v \in Workers \ {w} : req'[v] = req[v]
  BY OneGoes, IdleAudits DEF AuditInv, CreateEntry, Done
<1>14. ASSUME NEW v \in Workers PROVE Follows(req'[v], log')
  <2>1. CASE v = w
    BY <1>13, <2>1, IdleAudits
  <2>2. CASE v # w
    <3>1. req[v] \in AuditHeld /\ Follows(req[v], log) /\ req'[v] = req[v]
      BY <1>13, <2>2 DEF AuditInv
    <3> QED BY <1>1, <1>6, <1>7, <3>1, ChainGrows
  <2> QED BY <2>1, <2>2
<1>15. AtRest'
  BY DEF AuditInv, AtRest, CreateEntry
<1> QED BY <1>12, <1>13, <1>14, <1>15 DEF AuditInv

LEMMA AppendSteps ==
    ASSUME AuditInv, NEW w \in Workers, BeginEntry(w) \/ RetryEntry(w) \/ CountEntries(w)
    PROVE  AuditInv'
<1>1. Len(log) \in Nat /\ log \in Seq(AuditRow)
  BY ChainRows DEF AuditInv
<1>2. CASE BeginEntry(w)
  <2> DEFINE r == [at |-> "append", seen |-> Len(log), attempt |-> 1]
  <2>1. r \in AuditHeld /\ Follows(r, log)
    BY <1>1 DEF AuditHeld, Appending, Follows
  <2> QED BY <1>2, <2>1, AuditGoes DEF BeginEntry
<1>3. CASE RetryEntry(w)
  <2>1. CASE req[w].attempt < Retries
    <3> DEFINE r == [at |-> "append", seen |-> Len(log), attempt |-> req[w].attempt + 1]
    <3>1. req[w].attempt \in Nat
      BY <1>3, AuditRequest DEF RetryEntry, At, Appending
    <3>2. r \in AuditHeld /\ Follows(r, log)
      BY <1>1, <3>1 DEF AuditHeld, Appending, Follows
    <3> QED BY <1>3, <2>1, <3>2, AuditGoes DEF RetryEntry
  <2>2. CASE ~(req[w].attempt < Retries)
    BY <1>3, <2>2, IdleAudits, AuditGoes DEF RetryEntry, Done
  <2> QED BY <2>1, <2>2
<1>4. CASE CountEntries(w)
  <2> DEFINE r == [at |-> "verify", total |-> Len(log), verified |-> 0, last |-> NoRow]
  <2>1. r \in AuditHeld /\ Follows(r, log)
    BY <1>1, NoRowIsOne DEF AuditHeld, Verifying, Follows
  <2> HIDE DEF r
  <2> QED BY <1>4, <2>1, AuditGoes DEF CountEntries, r
<1> QED BY <1>2, <1>3, <1>4

\* A page read for a verification follows the last row verified.
LEMMA PageVerified ==
    ASSUME AuditInv, NEW w \in Workers, VerifyPage(w)
    PROVE  AuditInv'
<1> DEFINE h == req[w]
           n == Len(log)
           take == IF PageSize < h.total - h.verified THEN PageSize ELSE h.total - h.verified
           page == Page(Chain, h.last.createdAt, take)
           next == [h EXCEPT !.verified = @ + Len(page), !.last = Last(page)]
<1>1. /\ log \in Seq(AuditRow) /\ n \in Nat
      /\ \A i \in 1..n : /\ log[i] \in AuditRow /\ log[i].hash = i /\ log[i].previous = i - 1
                         /\ log[i].createdAt \in Nat /\ log[i].createdAt > 0
      /\ \A i, j \in 1..n : i < j => log[i].createdAt < log[j].createdAt
  BY ChainRows DEF AuditInv
<1>2. /\ h \in Verifying /\ h.verified \in Nat /\ h.total \in Nat
      /\ h.verified <= h.total /\ h.total <= n
      /\ h.last = (IF h.verified = 0 THEN NoRow ELSE log[h.verified])
  BY AuditRequest DEF VerifyPage, At, Follows, Verifying
<1> HIDE DEF n
<1>3. CASE h.verified = h.total
  <2> DEFINE r == [at |-> "verified", intact |-> TRUE]
  <2>1. r \in AuditHeld /\ Follows(r, log)
    BY DEF AuditHeld, Judged, Follows
  <2>2. Goto(w, r)
    BY <1>3 DEF VerifyPage
  <2> HIDE DEF r
  <2> QED BY <2>1, <2>2, AuditGoes DEF VerifyPage
<1>4. CASE h.verified # h.total
  <2> DEFINE v == h.verified
  <2>1. /\ take \in Nat /\ take >= 1 /\ v + take <= n /\ v \in Nat /\ v < n
        /\ v + take <= h.total
    BY <1>1, <1>2, <1>4, AuditAssumption
  <2>0. h.verified = v /\ h.last = (IF v = 0 THEN NoRow ELSE log[v])
    BY <1>2
  <2> HIDE DEF take, v
  <2>2. /\ h.last \in AuditRow /\ h.last.createdAt \in Nat /\ h.last.hash = v
        /\ \A i \in 1..n : log[i].createdAt <= h.last.createdAt <=> i <= v
    <3>1. CASE v = 0
      BY <1>1, <2>0, <3>1, NoRowIsOne
    <3>2. CASE v # 0
      <4>1. v \in 1..n /\ h.last = log[v]
        BY <1>1, <2>0, <2>1, <3>2
      <4>2. ASSUME NEW i \in 1..n
            PROVE  log[i].createdAt <= log[v].createdAt <=> i <= v
        <5>1. i < v \/ i = v \/ v < i
          BY <2>1
        <5>2. /\ log[i].createdAt \in Nat /\ log[v].createdAt \in Nat
              /\ i < v => log[i].createdAt < log[v].createdAt
              /\ v < i => log[v].createdAt < log[i].createdAt
          BY <1>1, <4>1
        <5> QED BY <2>1, <5>1, <5>2
      <4>3. log[v] \in AuditRow /\ log[v].createdAt \in Nat /\ log[v].hash = v
        BY <1>1, <4>1
      <4> QED BY <4>1, <4>2, <4>3
    <3> QED BY <3>1, <3>2
  <2>3. page = SubSeq(log, v + 1, v + take)
    <3> DEFINE z == 0
               cursor == h.last.createdAt
    <3>1. /\ z \in 0..Len(log) /\ n \in z..Len(log) /\ v \in 0..(n - z) /\ z + 1 = 1
          /\ z + v + 1 = v + 1 /\ z + (v + take) = v + take /\ n - z = n
          /\ \A i \in 1..(n - z) : z + i = i
      BY <1>1, <2>1 DEF n
    <3>2. \A i \in 1..(n - z) : log[z + i].createdAt <= cursor <=> i <= v
      BY <2>2, <3>1
    <3>3. (IF v + take < n - z THEN v + take ELSE n - z) = v + take
      BY <1>1, <2>1, <3>1
    <3>4. Chain = SubSeq(log, z + 1, n)
      <4>1. n \in 0..Len(log)
        BY <1>1 DEF n
      <4> QED BY <3>1, <4>1, OrderedAsCommitted DEF Chain, AuditInv, n
    <3>5. cursor \in Nat /\ Chained
      BY <2>2 DEF AuditInv
    <3> HIDE DEF z, cursor
    <3>6. LET last == IF v + take < n - z THEN v + take ELSE n - z
          IN Page(SubSeq(log, z + 1, n), cursor, take) = SubSeq(log, z + v + 1, z + last)
      BY <2>1, <3>1, <3>2, <3>5, PageOf
    <3> QED BY <3>1, <3>3, <3>4, <3>6 DEF cursor
  <2> HIDE DEF page
  <2>4. /\ page \in Seq(AuditRow) /\ Len(page) = take
        /\ \A i \in 1..take : page[i] = log[v + i]
    <3> DEFINE b == v + take
    <3>1. v \in 0..Len(log) /\ b \in v..Len(log) /\ b - v = take
      BY <1>1, <2>1 DEF n
    <3> HIDE DEF b
    <3>2. /\ SubSeq(log, v + 1, b) \in Seq(AuditRow) /\ Len(SubSeq(log, v + 1, b)) = b - v
          /\ \A i \in 1..(b - v) : SubSeq(log, v + 1, b)[i] = log[v + i]
      BY <1>1, <3>1, Stretch
    <3> QED BY <2>3, <3>1, <3>2 DEF b
  <2>5. page # <<>> /\ Linked(page, h.last.hash)
    <3>1. page # <<>>
      BY <2>1, <2>4
    <3>2. ASSUME NEW i \in 1..Len(page)
          PROVE  page[i].previous = IF i = 1 THEN h.last.hash ELSE page[i - 1].hash
      <4>0. i \in 1..take /\ v + i \in 1..n
        BY <1>1, <2>1, <2>4
      <4>1. v + i \in 1..n /\ page[i] = log[v + i] /\ log[v + i].previous = v + i - 1
        <5> DEFINE k == v + i
        <5>1. k \in 1..n /\ page[i] = log[k] /\ k - 1 = v + i - 1
          BY <2>1, <2>4, <4>0
        <5> HIDE DEF k
        <5>2. log[k].previous = k - 1
          BY <1>1, <5>1
        <5> QED BY <5>1, <5>2 DEF k
      <4>2. CASE i = 1
        BY <2>1, <2>2, <4>1, <4>2
      <4>3. CASE i # 1
        <5>1. i - 1 \in 1..take /\ v + (i - 1) \in 1..n /\ v + (i - 1) = v + i - 1
          BY <1>1, <2>1, <4>0, <4>3
        <5>2. page[i - 1] = log[v + (i - 1)] /\ log[v + (i - 1)].hash = v + (i - 1)
          BY <1>1, <2>4, <5>1
        <5> QED BY <4>1, <4>3, <5>1, <5>2
      <4> QED BY <4>2, <4>3
    <3> QED BY <3>1, <3>2 DEF Linked
  <2>6. Goto(w, next)
    BY <1>4, <2>5 DEF VerifyPage, page, take
  <2>7. Last(page) = log[v + take] /\ Last(page) \in AuditRow
    <3>1. take \in 1..take /\ v + take \in 1..n
      BY <1>1, <2>1
    <3> QED BY <1>1, <2>4, <3>1 DEF Last
  <2> DEFINE end == Last(page)
             far == h.verified + Len(page)
  <2>8. far = v + take /\ far \in Nat /\ far # 0 /\ far <= h.total
    BY <2>0, <2>1, <2>4
  <2>9. next = [h EXCEPT !.verified = far, !.last = end]
    OBVIOUS
  <2> HIDE DEF end, far
  <2>10. next \in Verifying /\ next.at = "verify" /\ next.verified = far /\ next.last = end
         /\ next.total = h.total
    BY <1>2, <2>7, <2>8, <2>9 DEF Verifying, end
  <2> HIDE DEF next
  <2>11. next \in AuditHeld /\ Follows(next, log)
    BY <1>2, <2>7, <2>8, <2>10 DEF AuditHeld, Follows, n, end
  <2> QED BY <2>6, <2>11, AuditGoes DEF VerifyPage
<1> QED BY <1>3, <1>4

LEMMA ExportStarts ==
    ASSUME AuditInv, NEW w \in Workers, StartExport(w)
    PROVE  AuditInv'
<1>1. PICK period \in Clock \X Clock :
         /\ period[1] <= period[2]
         /\ Goto(w, [at |-> "export", period |-> period, rows |-> <<>>, began |-> Len(log)])
  BY DEF StartExport
<1> DEFINE r == [at |-> "export", period |-> period, rows |-> <<>>, began |-> Len(log)]
<1>2. Len(log) \in Nat
  BY ChainRows DEF AuditInv
<1>3. r \in Exporting /\ r.at = "export" /\ r.rows = <<>> /\ r.period = period /\ r.began = Len(log)
      /\ Len(r.rows) = 0
  BY <1>2 DEF Exporting
<1> HIDE DEF r
<1>4. Cut(r, log, 0)
  BY <1>2, <1>3 DEF Cut
<1>5. Follows(r, log)
  <2>1. 0 \in 0..Len(log)
    BY <1>2
  <2> QED BY <1>1, <1>2, <1>3, <1>4, <2>1, AuditAssumption DEF Follows
<1> QED BY <1>1, <1>3, <1>5, AuditGoes DEF AuditHeld, StartExport, r

\* Where an export is, among the rows its period has now: after the first ones.
LEMMA ExportStands ==
    ASSUME AuditInv, NEW w \in Workers, At(w, "export") \/ At(w, "exported"),
           NEW lo \in 0..Len(log), NEW hi \in lo..Len(log),
           \A i \in 1..Len(log) : /\ log[i].createdAt < req[w].period[1] <=> i <= lo
                                  /\ log[i].createdAt <= req[w].period[2] <=> i <= hi
    PROVE  /\ Len(req[w].rows) \in 0..(hi - lo)
           /\ req[w].rows = SubSeq(log, lo + 1, lo + Len(req[w].rows))
<1> DEFINE h == req[w]
           n == Len(log)
           m == Len(h.rows)
           p == h.period
<1>1. /\ log \in Seq(AuditRow) /\ n \in Nat /\ \A i \in 1..n : log[i].createdAt \in Nat
  BY ChainRows DEF AuditInv
<1>2. h \in Exporting /\ \E a \in 0..n : Cut(h, log, a)
  BY AuditRequest DEF At, Follows
<1>3. h.rows \in Seq(AuditRow) /\ m \in Nat /\ p[1] \in Nat /\ p[2] \in Nat
  <2>1. h.rows \in Seq(AuditRow) /\ p \in Clock \X Clock /\ Clock \subseteq Nat
    BY <1>2, AuditAssumption DEF Exporting
  <2>2. m \in Nat
    BY <2>1, LenProperties
  <2> HIDE DEF p, m, h
  <2> QED BY <2>1, <2>2
<1>4. PICK a \in 0..n : Cut(h, log, a)
  BY <1>2
<1>5. /\ a + m <= n /\ \A k \in 1..m : h.rows[k] = log[a + k]
      /\ \A i \in 1..a : log[i].createdAt < p[1]
      /\ \A i \in (a + 1)..(a + m) : p[1] <= log[i].createdAt /\ log[i].createdAt <= p[2]
  BY <1>4 DEF Cut
<1>6. /\ lo \in Nat /\ hi \in Nat /\ lo <= hi /\ hi <= n
      /\ \A i \in 1..n : log[i].createdAt < p[1] <=> i <= lo
      /\ \A i \in 1..n : log[i].createdAt <= p[2] <=> i <= hi
  BY <1>1
<1> HIDE DEF m, n, p, h
<1>7. m # 0 => a = lo /\ a + m <= hi
  <2> SUFFICES ASSUME m # 0 PROVE a = lo /\ a + m <= hi
    OBVIOUS
  <2>1. a + 1 \in (a + 1)..(a + m) /\ a + m \in (a + 1)..(a + m) /\ a + 1 \in 1..n /\ a + m \in 1..n
    BY <1>1, <1>3, <1>5
  <2>2. p[1] <= log[a + 1].createdAt /\ log[a + m].createdAt <= p[2]
    BY <1>5, <2>1
  <2>3. ~(a + 1 <= lo) /\ a + m <= hi
    <3>1. log[a + 1].createdAt \in Nat
      BY <1>1, <2>1
    <3>2. ~(log[a + 1].createdAt < p[1])
      BY <1>3, <2>2, <3>1
    <3> QED BY <1>6, <2>1, <2>2, <3>2
  <2>4. a <= lo
    <3>1. CASE a = 0
      BY <1>6, <3>1
    <3>2. CASE a # 0
      <4>1. a \in 1..a /\ a \in 1..n
        BY <1>1, <3>2
      <4> QED BY <1>5, <1>6, <4>1
    <3> QED BY <3>1, <3>2
  <2> QED BY <1>1, <1>6, <2>3, <2>4
<1>8. m \in 0..(hi - lo)
  BY <1>3, <1>6, <1>7
<1> DEFINE b == lo + m
<1>9. lo \in 0..Len(log) /\ b \in lo..Len(log) /\ b - lo = m
  BY <1>3, <1>6, <1>8 DEF n
<1> HIDE DEF b
<1>10. /\ SubSeq(log, lo + 1, b) \in Seq(AuditRow) /\ Len(SubSeq(log, lo + 1, b)) = m
       /\ \A i \in 1..m : SubSeq(log, lo + 1, b)[i] = log[lo + i]
  BY <1>1, <1>9, Stretch
<1>11. \A i \in 1..m : h.rows[i] = log[lo + i]
  BY <1>3, <1>5, <1>7
<1>12. h.rows = SubSeq(log, lo + 1, b)
  <2> DEFINE s == SubSeq(log, lo + 1, b)
  <2>1. Len(h.rows) = Len(s) /\ \A i \in 1..Len(h.rows) : h.rows[i] = s[i]
    BY <1>10, <1>11 DEF m
  <2>2. s \in Seq(AuditRow)
    BY <1>10
  <2> HIDE DEF s
  <2>3. h.rows = s
    BY <1>3, <2>1, <2>2, SeqEqual
  <2> QED BY <2>3 DEF s
<1> QED BY <1>8, <1>12 DEF b, m, h

\* An export reads on from its last row, to the end of its period.
LEMMA ExportRead ==
    ASSUME AuditInv, NEW w \in Workers, ExportPage(w)
    PROVE  AuditInv'
<1> DEFINE h == req[w]
           n == Len(log)
           m == Len(h.rows)
           take == Take(MaxRows - Len(h.rows))
           cursor == IF h.rows = <<>> THEN 0 ELSE Last(h.rows).createdAt
           page == Page(Within(Chain, h.period), cursor, take)
           rows == h.rows \o page
<1>1. /\ log \in Seq(AuditRow) /\ n \in Nat
      /\ \A i \in 1..n : log[i] \in AuditRow /\ log[i].createdAt \in Nat /\ log[i].createdAt > 0
      /\ \A i, j \in 1..n : i < j => log[i].createdAt < log[j].createdAt
  BY ChainRows DEF AuditInv
<1>2. /\ h \in Exporting /\ h.at = "export" /\ h.period[1] <= h.period[2]
      /\ h.began <= n /\ m <= MaxRows
  BY AuditRequest DEF ExportPage, At, Follows
<1>3. h.rows \in Seq(AuditRow) /\ m \in Nat /\ h.period \in Nat \X Nat /\ h.began \in Nat
  <2>1. /\ h.rows \in Seq(AuditRow) /\ h.period \in Clock \X Clock /\ Clock \subseteq Nat
        /\ h.began \in Nat
    BY <1>2, AuditAssumption DEF Exporting
  <2>2. m \in Nat
    BY <2>1, LenProperties
  <2> HIDE DEF m, h
  <2> QED BY <2>1, <2>2
<1>4. Chain = SubSeq(log, 1, n)
  BY <1>1, OrderedAsCommitted DEF Chain, AuditInv
<1>0. PICK lo \in 0..n : \E hi \in lo..n :
         /\ Within(SubSeq(log, 1, n), h.period) = SubSeq(log, lo + 1, hi)
         /\ \A i \in 1..n : /\ log[i].createdAt < h.period[1] <=> i <= lo
                            /\ log[i].createdAt <= h.period[2] <=> i <= hi
  <2>1. n \in 0..Len(log) /\ Chained
    BY <1>1 DEF AuditInv
  <2> HIDE DEF n, h
  <2> QED BY <1>2, <1>3, <2>1, WithinOf
<1>5. PICK hi \in lo..n :
         /\ Within(SubSeq(log, 1, n), h.period) = SubSeq(log, lo + 1, hi)
         /\ \A i \in 1..n : /\ log[i].createdAt < h.period[1] <=> i <= lo
                            /\ log[i].createdAt <= h.period[2] <=> i <= hi
  BY <1>0
<1>6. m \in 0..(hi - lo) /\ h.rows = SubSeq(log, lo + 1, lo + m)
  BY <1>5, ExportStands DEF ExportPage
<1>7. /\ lo \in Nat /\ hi \in Nat /\ lo <= hi /\ hi <= n
      /\ \A i \in 1..n : log[i].createdAt < h.period[1] <=> i <= lo
      /\ \A i \in 1..n : log[i].createdAt <= h.period[2] <=> i <= hi
  BY <1>1, <1>5
<1>b. /\ n \in Nat /\ lo \in Nat /\ hi \in Nat /\ m \in Nat /\ lo + m <= hi /\ hi <= n
      /\ n = Len(log)
  BY <1>1, <1>3, <1>6, <1>7
<1>8. take \in Nat /\ take >= 1
  <2>1. MaxRows - m \in Nat
    BY <1>2, <1>3, AuditAssumption
  <2> DEFINE more == MaxRows - Len(h.rows)
  <2>2. more \in Nat
    BY <2>1
  <2> HIDE DEF more
  <2>3. Take(more) \in Nat /\ Take(more) >= 1
    BY <2>2, AuditAssumption DEF Take
  <2> QED BY <2>3 DEF more
<1>9. /\ cursor \in Nat
      /\ \A i \in 1..(hi - lo) : log[lo + i].createdAt <= cursor <=> i <= m
  <2>1. CASE m = 0
    <3>1. h.rows = <<>>
      BY <1>3, <2>1
    <3>2. ASSUME NEW i \in 1..(hi - lo) PROVE log[lo + i].createdAt \in Nat /\ log[lo + i].createdAt > 0
      <4>1. lo + i \in 1..n
        BY <1>1, <1>7
      <4> QED BY <1>1, <4>1
    <3>3. cursor = 0
      BY <3>1
    <3> HIDE DEF cursor
    <3> QED BY <2>1, <3>2, <3>3
  <2>2. CASE m # 0
    <3> DEFINE k == lo + m
    <3>1. k \in 1..n /\ h.rows # <<>> /\ Last(h.rows) = log[k]
      <4>1. k \in 0..Len(log) /\ k \in lo..Len(log) /\ lo \in 0..Len(log) /\ k - lo = m /\ k \in 1..n
        BY <1>b, <2>2
      <4> DEFINE s == SubSeq(log, lo + 1, k)
      <4>2. h.rows = s
        BY <1>6
      <4> HIDE DEF k
      <4>3. /\ s \in Seq(AuditRow) /\ Len(s) = k - lo
            /\ \A i \in 1..(k - lo) : s[i] = log[lo + i]
        BY <1>1, <4>1, Stretch
      <4>4. m \in 1..(k - lo) /\ lo + m = k
        BY <1>3, <2>2, <4>1 DEF k
      <4> HIDE DEF s
      <4>5. s[m] = log[k]
        BY <4>3, <4>4
      <4>6. h.rows # <<>>
        BY <1>3, <2>2
      <4>7. Last(h.rows) = s[m]
        BY <4>2 DEF Last
      <4> QED BY <4>1, <4>5, <4>6, <4>7
    <3>2. cursor = log[k].createdAt /\ log[k].createdAt \in Nat
      BY <1>1, <3>1
    <3> HIDE DEF cursor
    <3>3. ASSUME NEW i \in 1..(hi - lo)
          PROVE  log[lo + i].createdAt <= log[k].createdAt <=> i <= m
      <4> DEFINE j == lo + i
      <4> HIDE DEF m
      <4>1. j \in 1..n /\ (j < k <=> i < m) /\ (j = k <=> i = m) /\ (k < j <=> m < i)
        BY <1>1, <1>3, <1>7
      <4>2. i < m \/ i = m \/ m < i
        BY <1>3
      <4>3. i <= m <=> i < m \/ i = m
        BY <1>3
      <4> HIDE DEF k, j
      <4>4. /\ log[j].createdAt \in Nat /\ log[k].createdAt \in Nat
            /\ j < k => log[j].createdAt < log[k].createdAt
            /\ k < j => log[k].createdAt < log[j].createdAt
        BY <1>1, <3>1, <4>1
      <4>5. log[j].createdAt <= log[k].createdAt <=> i <= m
        BY <4>1, <4>2, <4>3, <4>4
      <4> QED BY <4>5 DEF j
    <3> QED BY <3>2, <3>3
  <2> QED BY <2>1, <2>2
<1> DEFINE last == IF m + take < hi - lo THEN m + take ELSE hi - lo
<1>10. page = SubSeq(log, lo + m + 1, lo + last)
  <2>1. lo \in 0..Len(log) /\ hi \in lo..Len(log)
    BY <1>5
  <2>2. Within(Chain, h.period) = SubSeq(log, lo + 1, hi)
    BY <1>4, <1>5
  <2> HIDE DEF cursor, take, m
  <2>3. Page(SubSeq(log, lo + 1, hi), cursor, take) = SubSeq(log, lo + m + 1, lo + last)
    BY <1>6, <1>8, <1>9, <2>1, PageOf DEF AuditInv
  <2> QED BY <2>2, <2>3
<1>11. last \in m..(hi - lo) /\ (last - m < take => last = hi - lo)
  <2> HIDE DEF take, m, n
  <2> QED BY <1>b, <1>8
<1> HIDE DEF page, last, take, cursor, m, n
<1>12. rows = SubSeq(log, lo + 1, lo + last)
  <2> DEFINE b == lo + m
             c == lo + last
  <2>1. lo \in 0..Len(log) /\ b \in lo..Len(log) /\ c \in b..Len(log)
    BY <1>1, <1>3, <1>6, <1>7, <1>11 DEF n
  <2> HIDE DEF b, c
  <2>2. SubSeq(log, lo + 1, b) \o SubSeq(log, b + 1, c) = SubSeq(log, lo + 1, c)
    BY <1>1, <2>1, StretchesMeet
  <2>3. h.rows = SubSeq(log, lo + 1, b) /\ page = SubSeq(log, b + 1, c)
    BY <1>6, <1>10 DEF b, c
  <2> QED BY <2>2, <2>3 DEF c
<1>13. /\ rows \in Seq(AuditRow) /\ Len(rows) = last
       /\ \A i \in 1..last : rows[i] = log[lo + i]
  <2> DEFINE c == lo + last
  <2>1. lo \in 0..Len(log) /\ c \in lo..Len(log) /\ c - lo = last
    BY <1>1, <1>3, <1>6, <1>7, <1>11 DEF n
  <2>2. rows = SubSeq(log, lo + 1, c)
    BY <1>12
  <2> HIDE DEF c, rows
  <2>3. /\ SubSeq(log, lo + 1, c) \in Seq(AuditRow) /\ Len(SubSeq(log, lo + 1, c)) = c - lo
        /\ \A i \in 1..(c - lo) : SubSeq(log, lo + 1, c)[i] = log[lo + i]
    BY <1>1, <2>1, Stretch
  <2> QED BY <2>1, <2>2, <2>3
<1>14. Len(page) = last - m
  <2> DEFINE b == lo + m
             c == lo + last
  <2>1. b \in 0..Len(log) /\ c \in b..Len(log) /\ c - b = last - m
    BY <1>1, <1>3, <1>6, <1>7, <1>11 DEF n
  <2>2. page = SubSeq(log, b + 1, c)
    BY <1>10
  <2> HIDE DEF b, c
  <2>3. Len(SubSeq(log, b + 1, c)) = c - b
    BY <1>1, <2>1, Stretch
  <2> QED BY <2>1, <2>2, <2>3
<1> HIDE DEF rows
<1>15. /\ \A i \in 1..lo : log[i].createdAt < h.period[1]
       /\ \A i \in (lo + 1)..(lo + last) : h.period[1] <= log[i].createdAt /\ log[i].createdAt <= h.period[2]
       /\ last = hi - lo => \A i \in (lo + last + 1)..h.began : log[i].createdAt > h.period[2]
       /\ lo + last <= n
  <2> HIDE DEF h
  <2>1. lo + last <= hi /\ last \in Nat
    BY <1>b, <1>11
  <2>2. \A i \in 1..lo : i \in 1..n /\ i <= lo
    BY <1>1, <1>7
  <2>3. \A i \in (lo + 1)..(lo + last) : i \in 1..n /\ ~(i <= lo) /\ i <= hi
    BY <1>1, <1>7, <2>1
  <2>4. last = hi - lo => \A i \in (lo + last + 1)..h.began : i \in 1..n /\ ~(i <= hi)
    BY <1>1, <1>2, <1>3, <1>7, <2>1
  <2>5. h.period[1] \in Nat /\ h.period[2] \in Nat
    BY <1>3
  <2>6. \A i \in 1..lo : log[i].createdAt < h.period[1]
    BY <1>7, <2>2
  <2>7. \A i \in (lo + 1)..(lo + last) : h.period[1] <= log[i].createdAt /\ log[i].createdAt <= h.period[2]
    BY <1>1, <1>7, <2>3, <2>5
  <2>8. last = hi - lo => \A i \in (lo + last + 1)..h.began : log[i].createdAt > h.period[2]
    BY <1>1, <1>7, <2>4, <2>5
  <2>9. lo + last <= n
    BY <1>1, <1>7, <2>1
  <2> QED BY <2>6, <2>7, <2>8, <2>9
<1>16. CASE Len(rows) > MaxRows
  <2>1. Done(w)
    BY <1>16 DEF ExportPage, rows, page, cursor, take
  <2> QED BY <2>1, IdleAudits, AuditGoes DEF Done, ExportPage
<1>17. ASSUME ~(Len(rows) > MaxRows), NEW r,
              \/ r = [h EXCEPT !.rows = rows]
              \/ r = [h EXCEPT !.rows = rows, !.at = "exported"] /\ last = hi - lo
       PROVE  r \in AuditHeld /\ Follows(r, log)
  <2>1. /\ r \in Exporting /\ r.rows = rows /\ r.period = h.period /\ r.began = h.began
        /\ r.at = "exported" => last = hi - lo
    <3>1. CASE r = [h EXCEPT !.rows = rows]
      BY <1>2, <1>13, <3>1 DEF Exporting
    <3>2. CASE r = [h EXCEPT !.rows = rows, !.at = "exported"] /\ last = hi - lo
      BY <1>2, <1>13, <3>2 DEF Exporting
    <3> QED BY <1>17, <3>1, <3>2
  <2>2. Cut(r, log, lo)
    BY <1>13, <1>15, <2>1 DEF Cut, n
  <2>3. Len(r.rows) <= MaxRows
    <3>1. last \in Nat
      BY <1>3, <1>6, <1>7, <1>11
    <3> QED BY <1>13, <1>17, <2>1, <3>1, AuditAssumption
  <2>4. lo \in 0..Len(log)
    BY <1>5 DEF n
  <2>5. r.period[1] <= r.period[2] /\ r.began <= Len(log)
    BY <1>2, <2>1 DEF n
  <2>6. r.at \in {"export", "exported"}
    BY <2>1 DEF Exporting
  <2> QED BY <2>1, <2>2, <2>3, <2>4, <2>5, <2>6 DEF AuditHeld, Follows
<1>18. CASE ~(Len(rows) > MaxRows)
  <2>1. CASE page # <<>> /\ Len(page) >= take
    <3> DEFINE r == [h EXCEPT !.rows = rows]
    <3>1. Goto(w, r)
      BY <1>18, <2>1 DEF ExportPage, rows, page, cursor, take
    <3>2. r \in AuditHeld /\ Follows(r, log)
      BY <1>17, <1>18
    <3> HIDE DEF r
    <3> QED BY <3>1, <3>2, AuditGoes DEF ExportPage
  <2>2. CASE ~(page # <<>> /\ Len(page) >= take)
    <3> DEFINE r == [h EXCEPT !.rows = rows, !.at = "exported"]
    <3>1. Goto(w, r)
      BY <1>18, <2>2 DEF ExportPage, rows, page, cursor, take
    <3>2. last = hi - lo
      <4>1. page = <<>> => Len(page) = 0
        OBVIOUS
      <4> QED BY <1>3, <1>6, <1>7, <1>8, <1>11, <1>14, <2>2, <4>1
    <3>3. r \in AuditHeld /\ Follows(r, log)
      BY <1>17, <1>18, <3>2
    <3> HIDE DEF r
    <3> QED BY <3>1, <3>3, AuditGoes DEF ExportPage
  <2> QED BY <2>1, <2>2
<1> QED BY <1>16, <1>18

LEMMA AuditStep == AuditInv /\ [AuditNext]_<<shared, log>> => AuditInv'
<1> SUFFICES ASSUME AuditInv, [AuditNext]_<<shared, log>> PROVE AuditInv'
  OBVIOUS
<1>1. ASSUME NEW w \in Workers, BeginEntry(w) \/ RetryEntry(w) \/ CountEntries(w) PROVE AuditInv'
  BY <1>1, AppendSteps
<1>2. ASSUME NEW w \in Workers, CreateEntry(w) PROVE AuditInv'
  BY <1>2, EntryCreated
<1>3. ASSUME NEW w \in Workers, VerifyPage(w) PROVE AuditInv'
  BY <1>3, PageVerified
<1>4. ASSUME NEW w \in Workers, StartExport(w) PROVE AuditInv'
  BY <1>4, ExportStarts
<1>5. ASSUME NEW w \in Workers, ExportPage(w) PROVE AuditInv'
  BY <1>5, ExportRead
<1>6. ASSUME NEW w \in Workers, AnswerAudit(w) \/ (Fail(w) /\ UNCHANGED log) PROVE AuditInv'
  BY <1>6, IdleAudits, AuditGoes DEF AnswerAudit, Fail, Done
<1>7. CASE UNCHANGED <<shared, log>>
  BY <1>7 DEF shared, AuditInv, AtRest, Chained, Increasing
<1> QED BY <1>1, <1>2, <1>3, <1>4, <1>5, <1>6, <1>7 DEF AuditNext

\* What an export delivers starts with all its period held when it began.
LEMMA DeliveredComplete ==
    ASSUME AuditInv, NEW w \in Workers, At(w, "exported")
    PROVE  /\ Len(req[w].rows) <= MaxRows
           /\ IsPrefix(Within(Ordered(req[w].began), req[w].period), req[w].rows)
           /\ \A i \in 2..Len(req[w].rows) : req[w].rows[i].previous = req[w].rows[i - 1].hash
<1> DEFINE h == req[w]
           n == Len(log)
           m == Len(h.rows)
           p == h.period
           b == h.began
<1>1. /\ log \in Seq(AuditRow) /\ n \in Nat
      /\ \A i \in 1..n : /\ log[i] \in AuditRow /\ log[i].hash = i /\ log[i].previous = i - 1
                         /\ log[i].createdAt \in Nat
  BY ChainRows DEF AuditInv
<1>2. /\ h \in Exporting /\ h.at = "exported" /\ p[1] <= p[2] /\ b <= n /\ m <= MaxRows
      /\ \E a \in 0..n : Cut(h, log, a)
  BY AuditRequest DEF At, Follows
<1>3. h.rows \in Seq(AuditRow) /\ m \in Nat /\ p \in Nat \X Nat /\ p[1] \in Nat /\ p[2] \in Nat /\ b \in Nat
  <2>1. h.rows \in Seq(AuditRow) /\ p \in Clock \X Clock /\ Clock \subseteq Nat /\ b \in Nat
    BY <1>2, AuditAssumption DEF Exporting
  <2>2. m \in Nat
    BY <2>1, LenProperties
  <2> HIDE DEF p, m, h, b
  <2> QED BY <2>1, <2>2
<1>4. PICK a \in 0..n : Cut(h, log, a)
  BY <1>2
<1>5. /\ a + m <= n /\ \A k \in 1..m : h.rows[k] = log[a + k]
      /\ \A i \in 1..a : log[i].createdAt < p[1]
      /\ \A i \in (a + 1)..(a + m) : p[1] <= log[i].createdAt /\ log[i].createdAt <= p[2]
      /\ \A i \in (a + m + 1)..b : log[i].createdAt > p[2]
  BY <1>2, <1>4 DEF Cut
<1>6. Ordered(b) = SubSeq(log, 1, b)
  <2>1. b \in 0..Len(log) /\ Chained
    BY <1>1, <1>2, <1>3 DEF AuditInv
  <2> HIDE DEF b
  <2> QED BY <2>1, OrderedAsCommitted
<1>7. PICK lo \in 0..b : \E hi \in lo..b :
         /\ Within(SubSeq(log, 1, b), p) = SubSeq(log, lo + 1, hi)
         /\ \A i \in 1..b : /\ log[i].createdAt < p[1] <=> i <= lo
                            /\ log[i].createdAt <= p[2] <=> i <= hi
  <2>1. b \in 0..Len(log) /\ Chained
    BY <1>1, <1>2, <1>3 DEF AuditInv
  <2> HIDE DEF b, p
  <2> QED BY <1>2, <1>3, <2>1, WithinOf
<1>8. PICK hi \in lo..b :
         /\ Within(SubSeq(log, 1, b), p) = SubSeq(log, lo + 1, hi)
         /\ \A i \in 1..b : /\ log[i].createdAt < p[1] <=> i <= lo
                            /\ log[i].createdAt <= p[2] <=> i <= hi
  BY <1>7
<1> HIDE DEF n, m, p, b, h
<1>9. lo \in Nat /\ hi \in Nat /\ lo <= hi /\ hi <= b /\ a \in Nat
  BY <1>1, <1>3
<1>10. hi = lo \/ (lo = a /\ hi - lo <= m)
  <2> SUFFICES ASSUME hi # lo PROVE lo = a /\ hi - lo <= m
    OBVIOUS
  <2>1. lo + 1 \in 1..b /\ hi \in 1..b
    BY <1>3, <1>9
  <2>2. p[1] <= log[lo + 1].createdAt /\ log[hi].createdAt <= p[2]
    <3>1. log[lo + 1].createdAt \in Nat
      BY <1>1, <1>2, <1>3, <2>1
    <3>2. ~(log[lo + 1].createdAt < p[1])
      BY <1>8, <1>9, <2>1
    <3>3. log[hi].createdAt <= p[2]
      BY <1>8, <1>9, <2>1
    <3> QED BY <1>3, <3>1, <3>2, <3>3
  <2>3. hi <= a + m
    <3> SUFFICES ASSUME hi > a + m PROVE FALSE
      BY <1>3, <1>9
    <3>1. hi \in (a + m + 1)..b
      BY <1>3, <1>9
    <3>2. log[hi].createdAt > p[2] /\ log[hi].createdAt \in Nat
      BY <1>1, <1>2, <1>3, <1>5, <2>1, <3>1
    <3> QED BY <1>3, <2>2, <3>2
  <2>4. a <= lo
    <3> SUFFICES ASSUME a > lo PROVE FALSE
      BY <1>9
    <3>1. lo + 1 \in 1..a /\ lo + 1 \in 1..b
      BY <1>9, <2>1
    <3>2. log[lo + 1].createdAt < p[1]
      BY <1>5, <3>1
    <3>3. log[lo + 1].createdAt \in Nat
      BY <1>1, <1>2, <1>3, <2>1
    <3> QED BY <1>3, <2>2, <3>2, <3>3
  <2>5. lo <= a
    <3> SUFFICES ASSUME lo > a PROVE FALSE
      BY <1>9
    <3>1. lo \in (a + 1)..(a + m) /\ lo \in 1..b /\ lo <= lo
      BY <1>3, <1>9, <2>3
    <3>2. log[lo].createdAt \in Nat /\ p[1] <= log[lo].createdAt
      BY <1>1, <1>2, <1>3, <1>5, <3>1
    <3>3. log[lo].createdAt < p[1]
      BY <1>8, <3>1
    <3> QED BY <1>3, <3>2, <3>3
  <2> QED BY <1>3, <1>9, <2>3, <2>4, <2>5
<1> DEFINE held == Within(Ordered(b), p)
<1>11. held = SubSeq(log, lo + 1, hi)
  BY <1>6, <1>8
<1>12. /\ held \in Seq(AuditRow) /\ Len(held) = hi - lo
       /\ \A i \in 1..(hi - lo) : held[i] = log[lo + i]
  <2>1. lo \in 0..Len(log) /\ hi \in lo..Len(log)
    BY <1>1, <1>2, <1>3, <1>9 DEF n
  <2> HIDE DEF held
  <2> QED BY <1>1, <1>11, <2>1, Stretch
<1> HIDE DEF held
<1>13. IsPrefix(held, h.rows)
  <2>1. CASE hi = lo
    <3>1. Len(held) = 0
      BY <1>9, <1>12, <2>1
    <3>2. held = <<>>
      BY <1>12, <3>1, EmptySeq
    <3>3. SubSeq(held, 1, Len(held)) = <<>> /\ SubSeq(h.rows, 1, Len(held)) = <<>>
      BY <3>1, SubSeqEmpty
    <3>4. Len(held) <= Len(h.rows)
      BY <1>3, <3>1 DEF m
    <3> QED BY <3>3, <3>4 DEF IsPrefix
  <2>2. CASE lo = a /\ hi - lo <= m
    <3> DEFINE l == hi - lo
               s == SubSeq(h.rows, 1, l)
    <3>1. l \in Nat /\ l <= m /\ Len(held) = l
      BY <1>9, <1>12, <2>2
    <3> HIDE DEF l
    <3>2. \A i \in 1..l : i \in 1..Len(h.rows) /\ h.rows[i] \in AuditRow
      <4>1. \A i \in 1..l : i \in 1..Len(h.rows)
        BY <1>3, <3>1 DEF m
      <4> QED BY <1>3, <4>1, ElementOfSeq
    <3>3. s \in Seq(AuditRow) /\ Len(s) = l /\ \A i \in 1..l : s[i] = h.rows[i]
      BY <3>1, <3>2, SubSeqProperties
    <3>4. \A i \in 1..l : held[i] = h.rows[i]
      <4> TAKE i \in 1..l
      <4>1. i \in 1..(hi - lo) /\ i \in 1..m
        BY <1>3, <3>1 DEF l
      <4> QED BY <1>5, <1>12, <2>2, <4>1
    <3> HIDE DEF s
    <3>5. held = s
      BY <1>12, <3>1, <3>3, <3>4, SeqEqual
    <3>6. SubSeq(held, 1, Len(held)) = held
      BY <1>12, SubSeqFull
    <3>7. SubSeq(h.rows, 1, Len(held)) = s
      BY <3>1 DEF s
    <3> QED BY <1>3, <3>1, <3>5, <3>6, <3>7 DEF IsPrefix, m
  <2> QED BY <1>10, <2>1, <2>2
<1>14. ASSUME NEW i \in 2..m PROVE h.rows[i].previous = h.rows[i - 1].hash
  <2>1. i \in 1..m /\ i - 1 \in 1..m
    BY <1>3
  <2> DEFINE k == a + i
             j == a + (i - 1)
  <2>2. k \in 1..n /\ j \in 1..n /\ j = k - 1
    BY <1>1, <1>3, <1>5, <1>9, <2>1
  <2>3. h.rows[i] = log[k] /\ h.rows[i - 1] = log[j]
    BY <1>5, <2>1
  <2> HIDE DEF k, j
  <2>4. log[k].previous = k - 1 /\ log[j].hash = j
    BY <1>1, <2>2
  <2> QED BY <2>2, <2>3, <2>4
<1>15. m <= MaxRows
  BY <1>2
<1> QED BY <1>13, <1>14, <1>15 DEF held, m, p, b, h

LEMMA AuditProves == AuditInv => AuditHolds
<1> SUFFICES ASSUME AuditInv PROVE AuditHolds
  OBVIOUS
<1>1. /\ log \in Seq(AuditRow) /\ Len(log) \in Nat
      /\ \A i \in 1..Len(log) : log[i].hash = i /\ log[i].previous = i - 1
      /\ \A i, j \in 1..Len(log) : i < j => log[i].createdAt < log[j].createdAt
  BY ChainRows DEF AuditInv
<1>2. Chain = log
  <2>1. SubSeq(log, 1, Len(log)) = log
    BY <1>1, SubSeqFull
  <2>2. Len(log) \in 0..Len(log)
    BY <1>1
  <2> QED BY <2>1, <2>2, OrderedAsCommitted DEF Chain, AuditInv
<1>3. Linked(log, GENESIS_HASH)
  <2> SUFFICES ASSUME NEW i \in 1..Len(log)
               PROVE  log[i].previous = IF i = 1 THEN GENESIS_HASH ELSE log[i - 1].hash
    BY DEF Linked
  <2>1. CASE i = 1
    BY <1>1, <2>1 DEF GENESIS_HASH
  <2>2. CASE i # 1
    <3>1. i - 1 \in 1..Len(log)
      BY <1>1, <2>2
    <3> QED BY <1>1, <2>2, <3>1
  <2> QED BY <2>1, <2>2
<1>4. \A w \in Workers : At(w, "verified") => req[w].intact
  BY AuditRequest DEF At, Follows
<1>5. AuditChainIntact
  BY <1>1, <1>2, <1>3, <1>4 DEF AuditChainIntact
<1>6. ExportComplete
  BY DeliveredComplete DEF ExportComplete
<1> QED BY <1>5, <1>6 DEF AuditHolds

----------------------------------------------------------------------------
(***************************************************************************)
(* Sign-in and sessions (routes/auth.ts, middleware/auth.ts, rbac.ts).     *)
(* What a request has seen of the standing of its wallet includes the one  *)
(* it was let in by.                                                       *)
(***************************************************************************)
SigningIn == [at : {"sign in", "consume challenge"}, challenge : SignIns, role : Roles,
              seen : SUBSET Standings]
BeingAdmitted == [at : {"authenticate", "authorize"} \cup Handlers, role : Roles,
                  seen : SUBSET Standings]
SessionHeld == {Idle} \cup SigningIn \cup BeingAdmitted

SessionTypes == req \in [Workers -> SessionHeld] /\ SessionTypeOK /\ AtRest

SessionsUseUp == \A k \in DOMAIN sessions : issued[sessions[k].challenge] = "used"

\* What is in a request's memory of standings.
Vouch(r) == \E s \in r.seen : s.active /\ (r.role = "SUPER_ADMIN" => s.admin)
Stands(r, now) ==
    /\ r # Idle => now \in r.seen
    /\ r.at \in {"authorize"} \cup Handlers => Vouch(r)
    /\ r.at \in {"admin handler", "cross-tenant handler"} => r.role = "SUPER_ADMIN"

SessionInv ==
    /\ SessionTypes /\ SessionsUseUp /\ OneSessionPerChallenge
    /\ \A w \in Workers : Stands(req[w], standing)

LEMMA SessionStart == RequestsInit /\ SessionInit => SessionInv
<1> SUFFICES ASSUME RequestsInit, SessionInit PROVE SessionInv
  OBVIOUS
<1>1. SessionTypes
  BY DEF RequestsInit, SessionInit, SessionTypes, SessionHeld, SessionTypeOK, AtRest, Standings
<1>2. SessionsUseUp /\ OneSessionPerChallenge
  BY DEF SessionInit, SessionsUseUp, OneSessionPerChallenge
<1>3. \A w \in Workers : Stands(req[w], standing)
  BY DEF RequestsInit, Stands, Idle, Handlers
<1> QED BY <1>1, <1>2, <1>3 DEF SessionInv

LEMMA SigningInShape ==
    ASSUME NEW r \in SessionHeld, r.at \in {"sign in", "consume challenge"}
    PROVE  r = [at |-> r.at, challenge |-> r.challenge, role |-> r.role, seen |-> r.seen]
           /\ r.challenge \in SignIns /\ r.role \in Roles /\ r.seen \in SUBSET Standings
<1>1. r \in SigningIn
  <2>1. r # Idle
    BY IdleRests DEF Handlers
  <2>2. /\ r \in SigningIn => r.at \in {"sign in", "consume challenge"}
        /\ r \in BeingAdmitted => r.at \in {"authenticate", "authorize"} \cup Handlers
    BY DEF SigningIn, BeingAdmitted
  <2> QED BY <2>1, <2>2 DEF SessionHeld, Handlers
<1> QED BY <1>1 DEF SigningIn

LEMMA BeingAdmittedShape ==
    ASSUME NEW r \in SessionHeld, r.at \in {"authenticate", "authorize"} \cup Handlers
    PROVE  r = [at |-> r.at, role |-> r.role, seen |-> r.seen]
           /\ r.role \in Roles /\ r.seen \in SUBSET Standings
<1>1. r \in BeingAdmitted
  <2>1. r # Idle
    BY IdleRests DEF Handlers
  <2>2. /\ r \in SigningIn => r.at \in {"sign in", "consume challenge"}
        /\ r \in BeingAdmitted => r.at \in {"authenticate", "authorize"} \cup Handlers
    BY DEF SigningIn, BeingAdmitted
  <2> QED BY <2>1, <2>2 DEF SessionHeld, Handlers
<1> QED BY <1>1 DEF BeingAdmitted

\* A request goes to a step it may stand at; no session is touched.
LEMMA SessionGoes ==
    ASSUME SessionInv, NEW w \in Workers, NEW r \in SessionHeld, Stands(r, standing), Goto(w, r),
           UNCHANGED <<mined, deep, trail, sessionVars>>
    PROVE  SessionInv'
<1>1. req' \in [Workers -> SessionHeld] /\ \A v \in Workers : req'[v] \in {r, req[v]}
  BY OneGoes DEF SessionInv, SessionTypes
<1>2. SessionTypes' /\ SessionsUseUp' /\ OneSessionPerChallenge'
  BY <1>1 DEF SessionInv, SessionTypes, SessionTypeOK, AtRest, sessionVars, SessionsUseUp,
        OneSessionPerChallenge
<1>3. standing' = standing
  BY DEF sessionVars
<1>4. \A v \in Workers : Stands(req'[v], standing') 
  BY <1>1, <1>3 DEF SessionInv, Stands, Vouch
<1> QED BY <1>2, <1>4 DEF SessionInv

\* The registry changes what it says: every request under way has met it.
LEMMA StandingMoves ==
    ASSUME SessionInv, StandingChanges
    PROVE  SessionInv'
<1> DEFINE Saw(r) == IF r = Idle THEN Idle ELSE [r EXCEPT !.seen = @ \cup {standing'}]
<1>1. /\ standing' \in Standings /\ req' = [w \in Workers |-> Saw(req[w])]
      /\ UNCHANGED <<mined, deep, trail, issued, sessions, apiKey>>
  BY DEF StandingChanges
<1>2. ASSUME NEW r \in SessionHeld, Stands(r, standing)
      PROVE  Saw(r) \in SessionHeld /\ Stands(Saw(r), standing')
  <2>2. CASE r = Idle
    BY <2>2, IdleRests DEF SessionHeld, Stands, Handlers
  <2>3. CASE r \in SigningIn
    <3> DEFINE same == [at |-> r.at, challenge |-> r.challenge, role |-> r.role, seen |-> r.seen]
               m == [at |-> r.at, challenge |-> r.challenge, role |-> r.role,
                     seen |-> r.seen \cup {standing'}]
    <3>1. r.at \in {"sign in", "consume challenge"} /\ r # Idle
      BY <2>3, IdleRests DEF SigningIn
    <3>2. /\ r = same /\ r.challenge \in SignIns /\ r.role \in Roles /\ r.seen \in SUBSET Standings
      BY <3>1, SigningInShape
    <3>3. [same EXCEPT !.seen = @ \cup {standing'}] = m
      OBVIOUS
    <3>4. m \in SigningIn /\ m.at = r.at /\ m.seen = r.seen \cup {standing'}
      BY <1>1, <3>1, <3>2 DEF SigningIn
    <3> HIDE DEF m, same
    <3>5. Stands(m, standing')
      BY <3>1, <3>4 DEF Stands, Handlers
    <3>6. Saw(r) = m
      BY <3>1, <3>2, <3>3, Zenon
    <3> QED BY <3>4, <3>5, <3>6 DEF SessionHeld
  <2>4. CASE r \in BeingAdmitted
    <3> DEFINE same == [at |-> r.at, role |-> r.role, seen |-> r.seen]
               m == [at |-> r.at, role |-> r.role, seen |-> r.seen \cup {standing'}]
    <3>1. r.at \in {"authenticate", "authorize"} \cup Handlers /\ r # Idle
      BY <2>4, IdleRests DEF BeingAdmitted, Handlers
    <3>2. r = same /\ r.role \in Roles /\ r.seen \in SUBSET Standings
      BY <3>1, BeingAdmittedShape
    <3>3. [same EXCEPT !.seen = @ \cup {standing'}] = m
      OBVIOUS
    <3>4. m \in BeingAdmitted /\ m.at = r.at /\ m.role = r.role
          /\ m.seen = r.seen \cup {standing'}
      BY <1>1, <3>1, <3>2 DEF BeingAdmitted
    <3> HIDE DEF m, same
    <3>5. Stands(m, standing')
      BY <1>2, <3>1, <3>4 DEF Stands, Vouch
    <3>6. Saw(r) = m
      BY <3>1, <3>2, <3>3, Zenon
    <3> QED BY <3>4, <3>5, <3>6 DEF SessionHeld
  <2> QED BY <2>2, <2>3, <2>4 DEF SessionHeld
<1> HIDE DEF Saw
<1>3. \A w \in Workers : req'[w] \in SessionHeld /\ Stands(req'[w], standing')
  BY <1>1, <1>2 DEF SessionInv, SessionTypes
<1>7. SessionTypes'
  BY <1>1, <1>3 DEF SessionInv, SessionTypes, SessionTypeOK, AtRest
<1>4. SessionsUseUp' /\ OneSessionPerChallenge'
  BY <1>1 DEF SessionInv, SessionsUseUp, OneSessionPerChallenge
<1> QED BY <1>3, <1>4, <1>7 DEF SessionInv

\* Challenges, sessions and keys come and go while no request moves.
LEMMA SessionsMove ==
    ASSUME SessionInv, UNCHANGED <<req, mined, deep, trail, standing>>,
           SessionTypeOK', SessionsUseUp', OneSessionPerChallenge'
    PROVE  SessionInv'
BY DEF SessionInv, SessionTypes, AtRest, Stands, Vouch

LEMMA ChallengeMoves ==
    ASSUME SessionInv, NEW c \in SignIns, ChallengeExpires(c) \/ IssueChallenge(c)
    PROVE  SessionInv'
<1>1. /\ issued[c] # "used" /\ \E s \in {"open", "expired"} : issued' = [issued EXCEPT ![c] = s]
      /\ UNCHANGED <<req, mined, deep, trail, standing, sessions, apiKey>>
  BY DEF ChallengeExpires, IssueChallenge, shared
<1>2. SessionTypeOK' /\ \A d \in SignIns : issued[d] = "used" => issued'[d] = "used"
  BY <1>1 DEF SessionInv, SessionTypes, SessionTypeOK
<1>3. SessionsUseUp' /\ OneSessionPerChallenge'
  BY <1>1, <1>2 DEF SessionInv, SessionTypes, SessionTypeOK, SessionsUseUp, OneSessionPerChallenge
<1> QED BY <1>1, <1>2, <1>3, SessionsMove

LEMMA SessionEnds ==
    ASSUME SessionInv, SessionExpires
    PROVE  SessionInv'
<1>1. PICK k \in DOMAIN sessions : sessions' = RemoveAt(sessions, k)
  BY DEF SessionExpires
<1>2. UNCHANGED <<req, mined, deep, trail, standing, issued, apiKey>>
  BY DEF SessionExpires, shared
<1> DEFINE Kept(i) == IF i < k THEN i ELSE i + 1
<1>3. sessions \in Seq([challenge : SignIns, role : Roles]) /\ k \in 1..Len(sessions)
  BY DEF SessionInv, SessionTypes, SessionTypeOK
<1>4. /\ sessions' \in Seq([challenge : SignIns, role : Roles])
      /\ DOMAIN sessions = 1..Len(sessions) /\ DOMAIN sessions' = 1..(Len(sessions) - 1)
      /\ \A i \in DOMAIN sessions' : Kept(i) \in DOMAIN sessions /\ sessions'[i] = sessions[Kept(i)]
  <2> DEFINE T == [challenge : SignIns, role : Roles]
  <2> HIDE DEF T
  <2>1. sessions \in Seq(T)
    BY <1>3 DEF T
  <2>2. /\ sessions' \in Seq(T) /\ Len(sessions') = Len(sessions) - 1
        /\ \A i \in 1..(Len(sessions) - 1) : sessions'[i] = sessions[Kept(i)]
    BY <1>1, <1>3, <2>1, OneRemoved
  <2>3. DOMAIN sessions = 1..Len(sessions) /\ DOMAIN sessions' = 1..Len(sessions')
    BY <2>1, <2>2
  <2>4. Len(sessions) \in Nat
    BY <2>1, LenProperties
  <2>5. \A i \in 1..(Len(sessions) - 1) : Kept(i) \in 1..Len(sessions)
    BY <1>3, <2>4
  <2> QED BY <2>2, <2>3, <2>5 DEF T
<1>5. SessionTypeOK'
  BY <1>2, <1>4 DEF SessionInv, SessionTypes, SessionTypeOK
<1>6. SessionsUseUp'
  BY <1>2, <1>4 DEF SessionInv, SessionsUseUp
<1>7. OneSessionPerChallenge'
  <2> SUFFICES ASSUME NEW i \in DOMAIN sessions', NEW j \in DOMAIN sessions',
                      sessions'[i].challenge = sessions'[j].challenge
               PROVE  i = j
    BY DEF OneSessionPerChallenge
  <2>1. Kept(i) = Kept(j)
    BY <1>4 DEF SessionInv, OneSessionPerChallenge
  <2> QED BY <1>3, <1>4, <2>1
<1> QED BY <1>2, <1>5, <1>6, <1>7, SessionsMove

LEMMA SessionOpens ==
    ASSUME SessionInv, NEW w \in Workers, ConsumeChallenge(w)
    PROVE  SessionInv'
<1> DEFINE r == req[w]  c == r.challenge  new == [challenge |-> c, role |-> r.role]
<1>1. r \in SessionHeld /\ r.at = "consume challenge"
  BY DEF SessionInv, SessionTypes, ConsumeChallenge, At
<1>2. c \in SignIns /\ r.role \in Roles
  BY <1>1, SigningInShape
<1>3. /\ issued[c] = "open" /\ issued' = [issued EXCEPT ![c] = "used"]
      /\ sessions' = Append(sessions, new) /\ Goto(w, Idle)
      /\ UNCHANGED <<mined, deep, trail, standing, apiKey>>
  BY DEF ConsumeChallenge, Consumable, Done
<1>4. /\ sessions \in Seq([challenge : SignIns, role : Roles])
      /\ issued \in [SignIns -> {"none", "open", "used", "expired"}]
  BY DEF SessionInv, SessionTypes, SessionTypeOK
<1>5. /\ sessions' \in Seq([challenge : SignIns, role : Roles])
      /\ DOMAIN sessions' = 1..(Len(sessions) + 1) /\ DOMAIN sessions = 1..Len(sessions)
      /\ \A k \in 1..Len(sessions) : sessions'[k] = sessions[k]
      /\ sessions'[Len(sessions) + 1] = new
  BY <1>2, <1>3, <1>4, AppendProperties
<1>0. Idle \in SessionHeld
  BY DEF SessionHeld
<1>6. req' \in [Workers -> SessionHeld] /\ \A v \in Workers : req'[v] \in {Idle, req[v]}
  BY <1>0, <1>3, OneGoes DEF SessionInv, SessionTypes
<1>7. SessionTypes'
  <2>1. issued' \in [SignIns -> {"none", "open", "used", "expired"}]
    BY <1>3, <1>4
  <2> QED BY <2>1, <1>3, <1>5, <1>6 DEF SessionInv, SessionTypes, SessionTypeOK, AtRest
<1>8. SessionsUseUp'
  BY <1>2, <1>3, <1>4, <1>5 DEF SessionInv, SessionsUseUp
<1>9. OneSessionPerChallenge'
  <2>1. \A k \in 1..Len(sessions) : sessions[k].challenge # c
    BY <1>3, <1>5 DEF SessionInv, SessionsUseUp
  <2>2. Len(sessions) \in Nat
    BY <1>4, LenProperties
  <2> QED BY <1>5, <2>1, <2>2 DEF SessionInv, OneSessionPerChallenge
<1>10. \A v \in Workers : Stands(req'[v], standing')
  BY <1>3, <1>6, IdleRests DEF SessionInv, Stands, Vouch, Handlers
<1> QED BY <1>7, <1>8, <1>9, <1>10 DEF SessionInv

\* The request of worker w, and where it may stand.
LEMMA SessionRequest ==
    ASSUME SessionInv, NEW w \in Workers
    PROVE  req[w] \in SessionHeld /\ Stands(req[w], standing) /\ standing \in Standings
BY DEF SessionInv, SessionTypes, SessionTypeOK

LEMMA IdleStands == Idle \in SessionHeld /\ \A now : Stands(Idle, now)
BY IdleRests DEF SessionHeld, Stands, Handlers

LEMMA SigningInFields ==
    ASSUME NEW r, NEW step, NEW role,
           r = [at |-> r.at, challenge |-> r.challenge, role |-> r.role, seen |-> r.seen]
    PROVE  [r EXCEPT !.at = step, !.role = role]
               = [at |-> step, challenge |-> r.challenge, role |-> role, seen |-> r.seen]
<1> DEFINE a == r.at  c == r.challenge  o == r.role  s == r.seen
<1> HIDE DEF a, c, o, s
<1>1. r = [at |-> a, challenge |-> c, role |-> o, seen |-> s]
  BY DEF a, c, o, s
<1>2. [r EXCEPT !.at = step] = [at |-> step, challenge |-> c, role |-> o, seen |-> s]
  BY <1>1
<1>3. [[at |-> step, challenge |-> c, role |-> o, seen |-> s] EXCEPT !.role = role]
          = [at |-> step, challenge |-> c, role |-> role, seen |-> s]
  OBVIOUS
<1> QED BY <1>2, <1>3, Zenon DEF c, s

LEMMA SignInSteps ==
    ASSUME SessionInv, NEW w \in Workers,
           (\E c \in SignIns : VerifyChallenge(w, c)) \/ SignInStanding(w)
    PROVE  SessionInv'
<1>1. CASE \E c \in SignIns : VerifyChallenge(w, c)
  <2>1. PICK c \in SignIns : VerifyChallenge(w, c)
    BY <1>1
  <2> DEFINE m == [at |-> "sign in", challenge |-> c, role |-> "ADMIN", seen |-> {standing}]
  <2>2. m \in SessionHeld /\ m.at = "sign in" /\ m.seen = {standing}
    BY SessionRequest DEF SessionHeld, SigningIn, Roles
  <2>3. Goto(w, m) /\ UNCHANGED <<mined, deep, trail, sessionVars>>
    BY <2>1 DEF VerifyChallenge
  <2> HIDE DEF m
  <2>4. Stands(m, standing)
    BY <2>2 DEF Stands, Handlers
  <2> QED BY <2>2, <2>3, <2>4, SessionGoes
<1>2. CASE SignInStanding(w)
  <2> DEFINE r == req[w]
  <2>1. r.at = "sign in" /\ r \in SessionHeld /\ Stands(r, standing)
    BY <1>2, SessionRequest DEF SignInStanding, At
  <2> DEFINE same == [at |-> r.at, challenge |-> r.challenge, role |-> r.role, seen |-> r.seen]
             m == [at |-> "consume challenge", challenge |-> r.challenge,
                   role |-> RoleIn(standing), seen |-> r.seen]
  <2>2. r = same /\ r.challenge \in SignIns /\ r.seen \in SUBSET Standings
    BY <2>1, SigningInShape
  <2>3. [r EXCEPT !.at = "consume challenge", !.role = RoleIn(standing)] = m
    BY <2>2, SigningInFields, Zenon
  <2>4. m \in SessionHeld /\ m.at = "consume challenge" /\ m.seen = r.seen
    BY <2>2 DEF SessionHeld, SigningIn, Roles, RoleIn
  <2>5. /\ Goto(w, [req[w] EXCEPT !.at = "consume challenge", !.role = RoleIn(standing)])
        /\ UNCHANGED <<mined, deep, trail, sessionVars>>
    BY <1>2 DEF SignInStanding
  <2> HIDE DEF m, same
  <2>6. Goto(w, m)
    BY <2>3, <2>5, Zenon
  <2>7. Stands(m, standing)
    <3>1. standing \in r.seen
      BY <2>1, IdleRests DEF Stands
    <3> QED BY <2>4, <3>1 DEF Stands, Handlers
  <2> QED BY <2>4, <2>5, <2>6, <2>7, SessionGoes
<1> QED BY <1>1, <1>2

\* A request that is being admitted goes on with the role it then has.
LEMMA AdmissionGoes ==
    ASSUME SessionInv, NEW w \in Workers, NEW step \in {"authenticate", "authorize"} \cup Handlers,
           NEW role \in Roles,
           req[w].at \in {"authenticate", "authorize"} \cup Handlers,
           Goto(w, [at |-> step, role |-> role, seen |-> req[w].seen]),
           step \in {"authorize"} \cup Handlers =>
              \E s \in req[w].seen : s.active /\ (role = "SUPER_ADMIN" => s.admin),
           step \in {"admin handler", "cross-tenant handler"} => role = "SUPER_ADMIN",
           UNCHANGED <<mined, deep, trail, sessionVars>>
    PROVE  SessionInv'
<1> DEFINE m == [at |-> step, role |-> role, seen |-> req[w].seen]
<1>1. req[w] \in SessionHeld /\ Stands(req[w], standing)
  BY SessionRequest
<1>2. req[w].seen \in SUBSET Standings
  BY <1>1, BeingAdmittedShape
<1>3. m \in SessionHeld /\ m.at = step /\ m.role = role /\ m.seen = req[w].seen
  BY <1>2 DEF SessionHeld, BeingAdmitted
<1>4. Goto(w, m)
  OBVIOUS
<1> HIDE DEF m
<1>5. standing \in req[w].seen
  BY <1>1, IdleRests DEF Stands, Handlers
<1>6. Stands(m, standing)
  BY <1>3, <1>5 DEF Stands, Vouch
<1> QED BY <1>3, <1>4, <1>6, SessionGoes

LEMMA AdmissionSteps ==
    ASSUME SessionInv, NEW w \in Workers,
           \/ Arrive(w) \/ Authenticate(w) \/ AdmitTenant(w)
           \/ AdmitPlatformAdmin(w) \/ AdmitOwnerOrAdmin(w) \/ Logout(w)
    PROVE  SessionInv'
<1> DEFINE r == req[w]  same == [at |-> r.at, role |-> r.role, seen |-> r.seen]
<1>1. r \in SessionHeld /\ Stands(r, standing) /\ standing \in Standings
  BY SessionRequest
<1>2. r.at \in {"authenticate", "authorize"} \cup Handlers =>
          r = same /\ r.role \in Roles /\ r.seen \in SUBSET Standings
  BY <1>1, BeingAdmittedShape
<1>3. CASE Arrive(w)
  <2>1. PICK role \in {sessions[k].role : k \in DOMAIN sessions} \cup IF apiKey THEN {"ADMIN"} ELSE {} :
            Goto(w, [at |-> "authenticate", role |-> role, seen |-> {standing}])
    BY <1>3 DEF Arrive
  <2> DEFINE m == [at |-> "authenticate", role |-> role, seen |-> {standing}]
  <2>2. \A k \in DOMAIN sessions : sessions[k].role \in Roles
    <3> DEFINE T == [challenge : SignIns, role : Roles]
    <3>1. sessions \in Seq(T) /\ \A t \in T : t.role \in Roles
      BY DEF SessionInv, SessionTypes, SessionTypeOK
    <3> HIDE DEF T
    <3>2. \A k \in DOMAIN sessions : sessions[k] \in T
      BY <3>1
    <3> QED BY <3>1, <3>2
  <2>3. role \in Roles
    BY <2>2 DEF Roles
  <2>4. m \in SessionHeld /\ m.at = "authenticate" /\ m.seen = {standing}
    BY <1>1, <2>3 DEF SessionHeld, BeingAdmitted
  <2>5. Goto(w, m) /\ UNCHANGED <<mined, deep, trail, sessionVars>>
    BY <1>3, <2>1 DEF Arrive
  <2> HIDE DEF m
  <2>6. Stands(m, standing)
    BY <2>4 DEF Stands, Handlers
  <2> QED BY <2>4, <2>5, <2>6, SessionGoes
<1>4. CASE Authenticate(w)
  <2>1. /\ r.at = "authenticate" /\ standing.active
        /\ Goto(w, [r EXCEPT !.at = "authorize", !.role = RoleIn(standing)])
        /\ UNCHANGED <<mined, deep, trail, sessionVars>>
    BY <1>4 DEF Authenticate, At, RoleAdmitted
  <2> DEFINE here == [at |-> "authorize", role |-> r.role, seen |-> r.seen]
  <2>a. [same EXCEPT !.at = "authorize"] = here
    OBVIOUS
  <2>b. [here EXCEPT !.role = RoleIn(standing)]
            = [at |-> "authorize", role |-> RoleIn(standing), seen |-> r.seen]
    OBVIOUS
  <2>3. RoleIn(standing) \in Roles /\ (RoleIn(standing) = "SUPER_ADMIN" => standing.admin)
    BY <1>1 DEF RoleIn, Roles, Standings
  <2>4. standing \in r.seen
    BY <1>1, <2>1, IdleRests DEF Stands
  <2> HIDE DEF same, r, here
  <2>5. Goto(w, [at |-> "authorize", role |-> RoleIn(standing), seen |-> r.seen])
    BY <1>2, <2>1, <2>a, <2>b, Zenon
  <2> DEFINE role == RoleIn(standing)  step == "authorize"
  <2>6. /\ Goto(w, [at |-> step, role |-> role, seen |-> r.seen])
        /\ step \in {"authenticate", "authorize"} \cup Handlers /\ role \in Roles
        /\ r.at \in {"authenticate", "authorize"} \cup Handlers
        /\ \E s \in r.seen : s.active /\ (role = "SUPER_ADMIN" => s.admin)
        /\ step \notin {"admin handler", "cross-tenant handler"}
    BY <2>1, <2>3, <2>4, <2>5
  <2> HIDE DEF role, step
  <2> QED BY <2>1, <2>6, AdmissionGoes DEF r
<1>5. ASSUME NEW step \in Handlers, r.at = "authorize", Continue(w, step),
             step \in {"admin handler", "cross-tenant handler"} => r.role = "SUPER_ADMIN"
      PROVE  SessionInv'
  <2>1. Goto(w, [r EXCEPT !.at = step]) /\ UNCHANGED <<mined, deep, trail, sessionVars>>
    BY <1>5 DEF Continue
  <2>2. [same EXCEPT !.at = step] = [at |-> step, role |-> r.role, seen |-> r.seen]
    OBVIOUS
  <2>3. Vouch(r)
    BY <1>1, <1>5 DEF Stands
  <2> HIDE DEF same, r
  <2>4. Goto(w, [at |-> step, role |-> r.role, seen |-> r.seen])
    BY <1>2, <1>5, <2>1, <2>2, Zenon
  <2>5. r.role \in Roles
    BY <1>2, <1>5
  <2> QED BY <1>5, <2>1, <2>3, <2>4, <2>5, AdmissionGoes DEF Handlers, Vouch, r
<1>6. CASE AdmitTenant(w)
  BY <1>5, <1>6 DEF AdmitTenant, At, Handlers
<1>7. CASE AdmitPlatformAdmin(w)
  BY <1>5, <1>7 DEF AdmitPlatformAdmin, At, Handlers
<1>8. CASE AdmitOwnerOrAdmin(w)
  BY <1>5, <1>8 DEF AdmitOwnerOrAdmin, At, Handlers
<1>9. CASE Logout(w)
  BY <1>9, IdleStands, SessionGoes DEF Logout, Done
<1> QED BY <1>3, <1>4, <1>6, <1>7, <1>8, <1>9

LEMMA SessionStep == SessionInv /\ [SessionNext]_<<shared, sessionVars>> => SessionInv'
<1> SUFFICES ASSUME SessionInv, [SessionNext]_<<shared, sessionVars>> PROVE SessionInv'
  OBVIOUS
<1>1. CASE StandingChanges
  BY <1>1, StandingMoves
<1>2. CASE SessionExpires
  BY <1>2, SessionEnds
<1>3. CASE KeyRevoked
  <2>1. apiKey' = FALSE /\ UNCHANGED <<req, mined, deep, trail, standing, issued, sessions>>
    BY <1>3 DEF KeyRevoked, shared
  <2>2. SessionTypeOK' /\ SessionsUseUp' /\ OneSessionPerChallenge'
    BY <2>1 DEF SessionInv, SessionTypes, SessionTypeOK, SessionsUseUp, OneSessionPerChallenge
  <2> QED BY <2>1, <2>2, SessionsMove
<1>4. CASE \E c \in SignIns : ChallengeExpires(c) \/ IssueChallenge(c)
  BY <1>4, ChallengeMoves
<1>5. CASE \E w \in Workers : (\E c \in SignIns : VerifyChallenge(w, c)) \/ SignInStanding(w)
  BY <1>5, SignInSteps
<1>6. CASE \E w \in Workers : ConsumeChallenge(w)
  BY <1>6, SessionOpens
<1>7. CASE \E w \in Workers : \/ Arrive(w) \/ Authenticate(w) \/ AdmitTenant(w)
                               \/ AdmitPlatformAdmin(w) \/ AdmitOwnerOrAdmin(w) \/ Logout(w)
  BY <1>7, AdmissionSteps
<1>8. CASE RequestStep /\ UNCHANGED sessionVars
  <2>1. \A w \in Workers : ~At(w, "audit")
    BY SessionRequest, IdleRests DEF At, SessionHeld, SigningIn, BeingAdmitted, Handlers
  <2>2. PICK w \in Workers : Goto(w, Idle) /\ UNCHANGED <<mined, deep, trail>>
    BY <1>8, <2>1, IdleStands, OneFails DEF SessionInv, SessionTypes
  <2> QED BY <1>8, <2>2, IdleStands, SessionGoes
<1>9. CASE UNCHANGED <<shared, sessionVars>>
  BY <1>9 DEF shared, sessionVars, SessionInv, SessionTypes, SessionTypeOK, AtRest,
        SessionsUseUp, OneSessionPerChallenge, Stands, Vouch
<1> QED BY <1>1, <1>2, <1>3, <1>4, <1>5, <1>6, <1>7, <1>8, <1>9 DEF SessionNext

LEMMA SessionProves == SessionInv => OneSessionPerChallenge /\ AdmittedInStanding
<1> SUFFICES ASSUME SessionInv, NEW w \in Workers, req[w].at \in Handlers
             PROVE  \E s \in req[w].seen : s.active /\ (req[w].at # "tenant handler" => s.admin)
  BY DEF SessionInv, AdmittedInStanding
<1> QED BY SessionRequest DEF Stands, Vouch, Handlers

----------------------------------------------------------------------------
(***************************************************************************)
(* Rate limits (middleware/auth.ts).  A row counts at least the requests   *)
(* let through in its window, and is deleted only when no request counts   *)
(* in it any more.                                                         *)
(***************************************************************************)
LimitHeld == {Idle} \cup [at : {"delete expired", "count"}, window : Windows]

LimitTypes ==
    /\ req \in [Workers -> LimitHeld] /\ LimitTypeOK /\ AtRest
    /\ \A k \in DOMAIN counts : counts[k] \in Nat

\* A request counts in the window of its instance's clock, now or the last one.
InTime(w) == req[w] # Idle => req[w].window \in {window, window - 1}

\* No more are let through than are counted; and where nothing is counted any
\* more, none was let through or none can be.
Counted(k) ==
    /\ admitted[k] <= Limit
    /\ k \in DOMAIN counts => admitted[k] <= counts[k]
    /\ k \notin DOMAIN counts => admitted[k] = 0 \/ k + 1 < window

LimitInv ==
    /\ LimitTypes
    /\ \A w \in Workers : InTime(w)
    /\ \A k \in Windows : Counted(k)

LEMMA LimitStart == RequestsInit /\ LimitInit => LimitInv
<1> SUFFICES ASSUME RequestsInit, LimitInit PROVE LimitInv
  OBVIOUS
<1>1. LimitTypes
  BY LimitAssumption DEF RequestsInit, LimitInit, LimitTypes, LimitTypeOK, LimitHeld, AtRest, Windows
<1>2. \A w \in Workers : InTime(w)
  BY DEF RequestsInit, InTime
<1>3. \A k \in Windows : Counted(k)
  BY LimitAssumption DEF LimitInit, Counted
<1> QED BY <1>1, <1>2, <1>3 DEF LimitInv

LEMMA LimitRequest ==
    ASSUME LimitInv, NEW w \in Workers, req[w].at \in {"delete expired", "count"}
    PROVE  /\ req[w] \in [at : {"delete expired", "count"}, window : Windows]
           /\ req[w] # Idle /\ req[w].window \in {window, window - 1}
<1>1. req[w] # Idle
  BY IdleRests
<1> QED BY <1>1 DEF LimitInv, LimitTypes, LimitHeld, InTime

\* A request goes on; no row is touched.
LEMMA LimitGoes ==
    ASSUME LimitInv, NEW w \in Workers, NEW r \in LimitHeld, Goto(w, r),
           r # Idle => r.window \in {window, window - 1},
           UNCHANGED <<mined, deep, trail, limitVars>>
    PROVE  LimitInv'
<1>1. req' \in [Workers -> LimitHeld] /\ \A v \in Workers : req'[v] \in {r, req[v]}
  BY OneGoes DEF LimitInv, LimitTypes
<1>2. LimitTypes' /\ \A v \in Workers : InTime(v)'
  BY <1>1 DEF LimitInv, LimitTypes, LimitTypeOK, AtRest, limitVars, InTime
<1>3. \A k \in Windows : Counted(k)'
  BY DEF LimitInv, Counted, limitVars
<1> QED BY <1>2, <1>3 DEF LimitInv

LEMMA ClockTicks ==
    ASSUME LimitInv, TickClock
    PROVE  LimitInv'
<1>1. /\ window \in Windows /\ window < LastWindow /\ window' = window + 1
      /\ UNCHANGED <<shared, counts, admitted>>
  BY DEF TickClock, LimitInv, LimitTypes, LimitTypeOK
<1>2. LimitTypes'
  BY <1>1, LimitAssumption DEF LimitInv, LimitTypes, LimitTypeOK, AtRest, Windows, shared
<1>3. \A w \in Workers : InTime(w)'
  <2> SUFFICES ASSUME NEW w \in Workers, req[w] # Idle PROVE req[w].window \in {window', window' - 1}
    BY <1>1 DEF InTime, shared
  <2> QED BY <1>1 DEF TickClock, LimitInv, InTime, Windows
<1>4. \A k \in Windows : Counted(k)'
  BY <1>1 DEF LimitInv, Counted, Windows
<1> QED BY <1>2, <1>3, <1>4 DEF LimitInv

LEMMA RowsDeleted ==
    ASSUME LimitInv, NEW w \in Workers, DeleteExpired(w)
    PROVE  LimitInv'
<1> DEFINE r == [req[w] EXCEPT !.at = "count"]
<1>1. /\ req[w] \in [at : {"delete expired", "count"}, window : Windows]
      /\ req[w] # Idle /\ req[w].window \in {window, window - 1}
  BY LimitRequest DEF DeleteExpired, At
<1>2. r \in [at : {"delete expired", "count"}, window : Windows] /\ r.window = req[w].window
  BY <1>1
<1>3. /\ counts' = [k \in {k \in DOMAIN counts : ~Expired(k, w)} |-> counts[k]]
      /\ Goto(w, r) /\ UNCHANGED <<mined, deep, trail, window, admitted>>
  BY DEF DeleteExpired
<1> HIDE DEF r
<1>4. r \in LimitHeld
  BY <1>2 DEF LimitHeld
<1>5. req' \in [Workers -> LimitHeld] /\ \A v \in Workers : req'[v] \in {r, req[v]}
  BY <1>3, <1>4, OneGoes DEF LimitInv, LimitTypes
<1>6. /\ DOMAIN counts' = {k \in DOMAIN counts : ~Expired(k, w)}
      /\ \A k \in DOMAIN counts' : k \in DOMAIN counts /\ counts'[k] = counts[k]
  BY <1>3
<1>7. LimitTypes'
  BY <1>3, <1>5, <1>6 DEF LimitInv, LimitTypes, LimitTypeOK, AtRest
<1>8. \A v \in Workers : InTime(v)'
  BY <1>1, <1>2, <1>3, <1>5 DEF LimitInv, InTime
<1>9. \A k \in Windows : Counted(k)'
  <2> SUFFICES ASSUME NEW k \in Windows PROVE Counted(k)'
    OBVIOUS
  <2>1. Counted(k)
    BY DEF LimitInv
  <2>2. k \in DOMAIN counts /\ k \notin DOMAIN counts' => k + 1 < window
    <3>1. SUFFICES ASSUME k \in DOMAIN counts, k \notin DOMAIN counts' PROVE k + 1 < window
      OBVIOUS
    <3>2. k + 1 < req[w].window
      BY <1>6, <3>1 DEF Expired
    <3>3. k \in Int /\ window \in Int
      BY DEF LimitInv, LimitTypes, LimitTypeOK, Windows
    <3>4. req[w].window = window \/ req[w].window = window - 1
      BY <1>1
    <3> QED BY <3>2, <3>3, <3>4
  <2> QED BY <1>3, <1>6, <2>1, <2>2 DEF Counted
<1> QED BY <1>7, <1>8, <1>9 DEF LimitInv

LEMMA OneConsumed ==
    ASSUME LimitInv, NEW w \in Workers, Consume(w)
    PROVE  LimitInv'
<1> DEFINE k == req[w].window
           count == IF k \in DOMAIN counts THEN counts[k] + 1 ELSE 1
<1>1. k \in Windows /\ k \in {window, window - 1}
  BY LimitRequest DEF Consume, At
<1>2. /\ counts' = [j \in DOMAIN counts \cup {k} |-> IF j = k THEN count ELSE counts[j]]
      /\ admitted' = IF count > Limit THEN admitted ELSE [admitted EXCEPT ![k] = @ + 1]
      /\ Goto(w, Idle) /\ UNCHANGED <<mined, deep, trail, window>>
  BY DEF Consume, Refused, Done
<1>3. /\ admitted \in [Windows -> Nat] /\ window \in Windows
      /\ \A j \in DOMAIN counts : j \in Windows /\ counts[j] \in Nat
      /\ \A j \in Windows : Counted(j)
  BY DEF LimitInv, LimitTypes, LimitTypeOK
<1>4. Idle \in LimitHeld
  BY DEF LimitHeld
<1>5. req' \in [Workers -> LimitHeld] /\ \A v \in Workers : req'[v] \in {Idle, req[v]}
  BY <1>2, <1>4, OneGoes DEF LimitInv, LimitTypes
<1>6. /\ DOMAIN counts' = DOMAIN counts \cup {k} /\ counts'[k] = count
      /\ \A j \in DOMAIN counts \ {k} : counts'[j] = counts[j]
  BY <1>2
<1>7. count \in Nat /\ admitted[k] + 1 <= count
  <2>1. admitted[k] \in Nat /\ Counted(k) /\ k \in Nat /\ window \in Nat
    BY <1>1, <1>3, LimitAssumption DEF Windows
  <2>2. CASE k \in DOMAIN counts
    <3>1. counts[k] \in Nat /\ admitted[k] <= counts[k] /\ count = counts[k] + 1
      BY <1>3, <2>1, <2>2 DEF Counted
    <3> QED BY <2>1, <3>1
  <2>3. CASE k \notin DOMAIN counts
    <3>1. admitted[k] = 0 /\ count = 1
      BY <1>1, <2>1, <2>3 DEF Counted
    <3> QED BY <3>1
  <2> QED BY <2>2, <2>3
<1> HIDE DEF count
<1>8. LimitTypes'
  <2>1. admitted' \in [Windows -> Nat]
    BY <1>1, <1>2, <1>3
  <2> QED BY <1>1, <1>2, <1>3, <1>5, <1>6, <1>7, <2>1 DEF LimitInv, LimitTypes, LimitTypeOK, AtRest
<1>9. \A v \in Workers : InTime(v)'
  BY <1>2, <1>5 DEF LimitInv, InTime
<1>10. \A j \in Windows : Counted(j)'
  <2> SUFFICES ASSUME NEW j \in Windows PROVE Counted(j)'
    OBVIOUS
  <2>1. Counted(j) /\ admitted[j] \in Nat
    BY <1>3
  <2>2. CASE j # k
    BY <1>2, <1>3, <1>6, <2>1, <2>2 DEF Counted
  <2>3. CASE j = k
    <3>1. admitted'[k] = IF count > Limit THEN admitted[k] ELSE admitted[k] + 1
      BY <1>1, <1>2, <1>3
    <3>2. admitted'[k] <= Limit /\ admitted'[k] <= count
      BY <1>7, <2>1, <2>3, <3>1, LimitAssumption DEF Counted
    <3> QED BY <1>6, <2>3, <3>2 DEF Counted
  <2> QED BY <2>2, <2>3
<1> QED BY <1>8, <1>9, <1>10 DEF LimitInv

LEMMA LimitStep == LimitInv /\ [LimitNext]_<<shared, limitVars>> => LimitInv'
<1> SUFFICES ASSUME LimitInv, [LimitNext]_<<shared, limitVars>> PROVE LimitInv'
  OBVIOUS
<1>1. CASE TickClock
  BY <1>1, ClockTicks
<1>2. ASSUME NEW w \in Workers, OpenWindow(w) PROVE LimitInv'
  <2>1. PICK k \in {k \in Windows : window \in {k, k + 1}} : Goto(w, [at |-> "delete expired", window |-> k])
    BY <1>2 DEF OpenWindow
  <2> DEFINE r == [at |-> "delete expired", window |-> k]
  <2>2. r \in LimitHeld /\ r.window = k
    BY DEF LimitHeld
  <2>3. k \in {window, window - 1}
    BY DEF LimitInv, LimitTypes, LimitTypeOK, Windows
  <2>4. Goto(w, r) /\ UNCHANGED <<mined, deep, trail, limitVars>>
    BY <1>2, <2>1 DEF OpenWindow
  <2> HIDE DEF r
  <2> QED BY <2>2, <2>3, <2>4, LimitGoes
<1>3. ASSUME NEW w \in Workers, DeleteExpired(w) PROVE LimitInv'
  BY <1>3, RowsDeleted
<1>4. ASSUME NEW w \in Workers, Consume(w) PROVE LimitInv'
  BY <1>4, OneConsumed
<1>5. CASE RequestStep /\ UNCHANGED limitVars
  <2>1. \A w \in Workers : ~At(w, "audit")
    BY IdleRests DEF At, LimitInv, LimitTypes, LimitHeld
  <2>2. Idle \in LimitHeld
    BY DEF LimitHeld
  <2>3. PICK w \in Workers : Goto(w, Idle) /\ UNCHANGED <<mined, deep, trail>>
    BY <1>5, <2>1, <2>2, OneFails DEF LimitInv, LimitTypes
  <2> QED BY <1>5, <2>2, <2>3, LimitGoes
<1>6. CASE UNCHANGED <<shared, limitVars>>
  BY <1>6 DEF shared, limitVars, LimitInv, LimitTypes, LimitTypeOK, AtRest, InTime, Counted
<1> QED BY <1>1, <1>2, <1>3, <1>4, <1>5, <1>6 DEF LimitNext

LEMMA LimitProves == LimitInv => WithinLimit
BY DEF LimitInv, Counted, WithinLimit

----------------------------------------------------------------------------
(***************************************************************************)
(* The WebSocket server (services/websocket.ts).  A tenant's standing read *)
(* before an event is sent is one it had since the event was published.    *)
(***************************************************************************)
SocketRow == [wire : {"none", "open", "closed"}, listed : BOOLEAN,
              business : Tenants \cup {Anonymous}, subscribed : BOOLEAN]
Visiting == [at : {"connect", "check", "sign in", "delivered"}, connection : Connections,
             tenant : Tenants \cup {Anonymous}, job : Jobs \cup {"join"},
             answer : {"none", "active", "inactive"}, stood : SUBSET Tenants]
SocketHeld == {Idle} \cup Visiting

SocketTypes == req \in [Workers -> SocketHeld] /\ SocketTypeOK /\ AtRest

\* A connection is looked at while its session runs; so a business found active
\* since, or not suspended yet, was in standing then. Suspensions are final.
InStanding(r, gone) ==
    /\ r.at = "check" /\ r.tenant # Anonymous =>
          /\ r.answer = "active" => r.tenant \in r.stood
          /\ r.tenant \notin gone => r.tenant \in r.stood
    /\ r.at = "delivered" => r.job \in r.stood

SocketInv == SocketTypes /\ \A w \in Workers : InStanding(req[w], suspended)

LEMMA SocketStart == RequestsInit /\ SocketInit => SocketInv
<1> SUFFICES ASSUME RequestsInit, SocketInit PROVE SocketInv
  OBVIOUS
<1>1. SocketTypes
  BY DEF RequestsInit, SocketInit, SocketTypes, SocketTypeOK, SocketHeld, AtRest, Unborn
<1>2. \A w \in Workers : InStanding(req[w], suspended)
  BY IdleRests DEF RequestsInit, InStanding
<1> QED BY <1>1, <1>2 DEF SocketInv

LEMMA IdleVisits == Idle \in SocketHeld /\ \A gone : InStanding(Idle, gone)
BY IdleRests DEF SocketHeld, InStanding

LEMMA SocketRequest ==
    ASSUME SocketInv, NEW w \in Workers
    PROVE  /\ InStanding(req[w], suspended)
           /\ req[w] # Idle => req[w] \in Visiting
           /\ req[w].at \in {"connect", "check", "sign in", "delivered"} => req[w] \in Visiting
BY IdleRests DEF SocketInv, SocketTypes, SocketHeld

LEMMA RowTypes ==
    ASSUME SocketInv, NEW c \in Connections
    PROVE  sockets[c] \in SocketRow /\ Dropped(sockets[c]) \in SocketRow
           /\ SignedOut(sockets[c]) \in SocketRow
<1> DEFINE s == sockets[c]
<1>1. s \in SocketRow
  BY DEF SocketInv, SocketTypes, SocketTypeOK, SocketRow
<1> HIDE DEF s
<1>2. \A t \in SocketRow : SignedOut(t) \in SocketRow
  BY DEF SocketRow, SignedOut
<1>3. \A t \in SocketRow : [t EXCEPT !.listed = FALSE] \in SocketRow
  BY DEF SocketRow
<1>4. CleanedUp(s) \in SocketRow
  BY <1>1, <1>2, <1>3 DEF CleanedUp
<1>5. \A t \in SocketRow : [t EXCEPT !.wire = "closed"] \in SocketRow
  BY DEF SocketRow
<1>6. Dropped(s) \in SocketRow
  BY <1>4, <1>5 DEF Dropped
<1> QED BY <1>1, <1>2, <1>6 DEF s

\* A request goes on, and a connection's row is, or is not, written with it.
LEMMA VisitGoes ==
    ASSUME SocketInv, NEW w \in Workers, NEW r \in SocketHeld, InStanding(r, suspended), Goto(w, r),
           UNCHANGED <<mined, deep, trail, suspended, lapsed>>,
           \/ UNCHANGED sockets
           \/ \E c \in Connections, s \in SocketRow : sockets' = [sockets EXCEPT ![c] = s]
    PROVE  SocketInv'
<1>1. req' \in [Workers -> SocketHeld] /\ \A v \in Workers : req'[v] \in {r, req[v]}
  BY OneGoes DEF SocketInv, SocketTypes
<1>2. sockets \in [Connections -> SocketRow]
  BY DEF SocketInv, SocketTypes, SocketTypeOK, SocketRow
<1>3. sockets' \in [Connections -> SocketRow]
  BY <1>2
<1>4. SocketTypeOK'
  BY <1>3 DEF SocketInv, SocketTypes, SocketTypeOK, SocketRow
<1>5. SocketTypes'
  BY <1>1, <1>4 DEF SocketInv, SocketTypes, AtRest
<1>6. \A v \in Workers : InStanding(req'[v], suspended')
  BY <1>1 DEF SocketInv
<1> QED BY <1>5, <1>6 DEF SocketInv

\* Rows change while no request moves.
LEMMA SocketsMove ==
    ASSUME SocketInv, UNCHANGED <<shared, suspended, lapsed>>,
           sockets' \in [Connections -> SocketRow]
    PROVE  SocketInv'
BY DEF SocketInv, SocketTypes, SocketTypeOK, SocketRow, AtRest, shared

LEMMA Asked ==
    ASSUME SocketInv, NEW w \in Workers, NEW step \in {"connect", "check", "sign in"},
           NEW c \in Connections, NEW b \in Tenants \cup {Anonymous}, NEW job \in Jobs \cup {"join"},
           Ask(w, step, c, b, job), b \in lapsed => step # "check"
    PROVE  \E r \in SocketHeld : InStanding(r, suspended) /\ Goto(w, r)
<1> DEFINE now == {t \in Tenants : t \notin suspended \cup lapsed}
           r == [at |-> step, connection |-> c, tenant |-> b, job |-> job, answer |-> "none",
                 stood |-> now]
<1>1. Goto(w, r)
  BY DEF Ask
<1>2. /\ r \in SocketHeld /\ r.at = step /\ r.tenant = b /\ r.answer = "none" /\ r.stood = now
  BY DEF SocketHeld, Visiting
<1> HIDE DEF r
<1>3. InStanding(r, suspended)
  BY <1>2 DEF InStanding
<1> QED BY <1>1, <1>2, <1>3

LEMMA StandingLost ==
    ASSUME SocketInv, NEW b \in Tenants, Suspend(b) \/ Lapse(b)
    PROVE  SocketInv'
<1>1. /\ UNCHANGED <<shared, sockets>> /\ suspended \subseteq suspended'
      /\ suspended' \subseteq Tenants /\ lapsed' \subseteq Tenants
  BY DEF Suspend, Lapse, SocketInv, SocketTypes, SocketTypeOK
<1>2. SocketTypes'
  BY <1>1 DEF SocketInv, SocketTypes, SocketTypeOK, AtRest, shared
<1>3. \A w \in Workers : InStanding(req'[w], suspended')
  BY <1>1 DEF SocketInv, InStanding, shared
<1> QED BY <1>2, <1>3 DEF SocketInv

LEMMA ConnectSteps ==
    ASSUME SocketInv, NEW w \in Workers, (\E c \in Connections : Connect(w, c)) \/ Connected(w)
    PROVE  SocketInv'
<1>1. CASE \E c \in Connections : Connect(w, c)
  <2>1. PICK c \in Connections : Connect(w, c)
    BY <1>1
  <2>2. sockets[c] \in SocketRow
    BY RowTypes
  <2>3. /\ [sockets[c] EXCEPT !.wire = "open", !.listed = TRUE] \in SocketRow
        /\ [sockets[c] EXCEPT !.wire = "open"] \in SocketRow
    BY <2>2 DEF SocketRow
  <2>4. CASE Done(w) /\ Set(c, [sockets[c] EXCEPT !.wire = "open", !.listed = TRUE])
    BY <2>3, <2>4, IdleVisits, VisitGoes DEF Done, Set
  <2>5. CASE /\ \E b \in Tenants \ lapsed : Ask(w, "connect", c, b, "join")
             /\ Set(c, [sockets[c] EXCEPT !.wire = "open"])
    <3>1. PICK r \in SocketHeld : InStanding(r, suspended) /\ Goto(w, r)
      BY <2>5, Asked
    <3> QED BY <2>3, <2>5, <3>1, VisitGoes DEF Set
  <2> QED BY <2>1, <2>4, <2>5 DEF Connect
<1>2. CASE Connected(w)
  <2> DEFINE c == req[w].connection
  <2>1. req[w] \in Visiting
    BY <1>2, SocketRequest DEF Connected, Answered, At
  <2>2. c \in Connections /\ req[w].tenant \in Tenants \cup {Anonymous}
    BY <2>1 DEF Visiting
  <2> DEFINE b == IF req[w].answer = "active" THEN req[w].tenant ELSE Here(w).business
             t == [Here(w) EXCEPT !.listed = TRUE, !.business = b]
  <2>3. Set(c, t) /\ Done(w)
    BY <1>2 DEF Connected
  <2> HIDE DEF b
  <2>4. Here(w) = sockets[c]
    BY DEF Here
  <2> HIDE DEF c, t
  <2>5. Here(w) \in SocketRow
    BY <2>2, <2>4, RowTypes
  <2>6. b \in Tenants \cup {Anonymous}
    BY <2>2, <2>5 DEF SocketRow, b
  <2>7. t \in SocketRow
    BY <2>5, <2>6 DEF SocketRow, t
  <2> QED BY <2>2, <2>3, <2>7, IdleVisits, VisitGoes DEF Done, Set
<1> QED BY <1>1, <1>2

LEMMA RowMoves ==
    ASSUME SocketInv, (\E c \in Connections : WireCloses(c)) \/ ShutDown
    PROVE  SocketInv'
<1>0. sockets \in [Connections -> SocketRow]
  BY DEF SocketInv, SocketTypes, SocketTypeOK, SocketRow
<1>1. CASE \E c \in Connections : WireCloses(c)
  <2>1. PICK c \in Connections : WireCloses(c)
    BY <1>1
  <2>2. sockets' = [sockets EXCEPT ![c] = Dropped(sockets[c])]
        /\ UNCHANGED <<shared, suspended, lapsed>>
    BY <2>1 DEF WireCloses, Set, shared
  <2> QED BY <1>0, <2>2, RowTypes, SocketsMove
<1>2. CASE ShutDown
  <2>1. /\ sockets' = [c \in Connections |->
                         IF sockets[c].listed THEN Dropped(sockets[c]) ELSE sockets[c]]
        /\ UNCHANGED <<shared, suspended, lapsed>>
    BY <1>2 DEF ShutDown
  <2> QED BY <1>0, <2>1, RowTypes, SocketsMove
<1> QED BY <1>1, <1>2

LEMMA VisitSteps ==
    ASSUME SocketInv, NEW w \in Workers, NEW c \in Connections, NEW job \in Jobs, Visit(w, c, job)
    PROVE  SocketInv'
<1>0. sockets[c] \in SocketRow /\ Dropped(sockets[c]) \in SocketRow
      /\ sockets \in [Connections -> SocketRow]
  BY RowTypes DEF SocketInv, SocketTypes, SocketTypeOK, SocketRow
<1>1. CASE SessionOver(sockets[c])
  <2>1. sockets' = [sockets EXCEPT ![c] = Dropped(sockets[c])]
        /\ UNCHANGED <<shared, suspended, lapsed>>
    BY <1>1 DEF Visit, Set, shared
  <2> QED BY <1>0, <2>1, SocketsMove
<1>2. CASE ~SessionOver(sockets[c])
  <2> DEFINE b == sockets[c].business
  <2>1. b \in Tenants \cup {Anonymous} /\ b \notin lapsed
    BY <1>0, <1>2 DEF SocketRow, SessionOver
  <2>2. Ask(w, "check", c, b, job) /\ UNCHANGED <<mined, deep, trail, sockets, suspended, lapsed>>
    BY <1>2 DEF Visit, socketVars
  <2> HIDE DEF b
  <2>3. PICK r \in SocketHeld : InStanding(r, suspended) /\ Goto(w, r)
    BY <2>1, <2>2, Asked
  <2> QED BY <2>2, <2>3, VisitGoes
<1> QED BY <1>1, <1>2

LEMMA AnswerSteps ==
    ASSUME SocketInv, NEW w \in Workers, RegistryAnswers(w)
    PROVE  SocketInv'
<1>1. req[w] \in Visiting /\ InStanding(req[w], suspended)
  BY SocketRequest DEF RegistryAnswers
<1>2. PICK a \in {"inactive", "active"} :
          /\ a = "active" => req[w].tenant \notin suspended
          /\ Goto(w, [req[w] EXCEPT !.answer = a])
  BY DEF RegistryAnswers
<1>3. req[w].at # "delivered" /\ UNCHANGED <<mined, deep, trail, sockets, suspended, lapsed>>
  BY DEF RegistryAnswers, socketVars
<1> DEFINE r == [req[w] EXCEPT !.answer = a]
<1>4. /\ r \in Visiting /\ r.at = req[w].at /\ r.tenant = req[w].tenant
      /\ r.answer = a /\ r.stood = req[w].stood
  BY <1>1 DEF Visiting
<1>5. Goto(w, r)
  BY <1>2
<1> HIDE DEF r
<1>6. InStanding(r, suspended)
  BY <1>1, <1>2, <1>3, <1>4 DEF InStanding
<1>7. r \in SocketHeld
  BY <1>4 DEF SocketHeld
<1> QED BY <1>3, <1>5, <1>6, <1>7, VisitGoes

LEMMA CheckedSteps ==
    ASSUME SocketInv, NEW w \in Workers,
           \/ CheckFails(w) \/ Subscribe(w) \/ SignedIn(w) \/ Nothing(w) \/ TimedOut(w)
    PROVE  SocketInv'
<1> DEFINE c == req[w].connection
<1>1. req[w] \in Visiting
  BY SocketRequest DEF CheckFails, Subscribe, SignedIn, Nothing, TimedOut, Checked, Answered, At
<1>2. c \in Connections /\ req[w].tenant \in Tenants \cup {Anonymous} /\ Here(w) = sockets[c]
  BY <1>1 DEF Visiting, Here
<1>3. Here(w) \in SocketRow /\ Dropped(Here(w)) \in SocketRow /\ SignedOut(Here(w)) \in SocketRow
  BY <1>2, RowTypes
<1>4. \A b \in Tenants \cup {Anonymous} : [Here(w) EXCEPT !.business = b] \in SocketRow
  BY <1>3 DEF SocketRow
<1>5. \A wanted \in BOOLEAN : [Here(w) EXCEPT !.subscribed = wanted] \in SocketRow
  BY <1>3 DEF SocketRow
<1>6. ASSUME NEW s \in SocketRow, Set(c, s), Done(w) PROVE SocketInv'
  <2>1. Goto(w, Idle) /\ sockets' = [sockets EXCEPT ![c] = s]
        /\ UNCHANGED <<mined, deep, trail, suspended, lapsed>>
    BY <1>6 DEF Done, Set
  <2> HIDE DEF c
  <2> QED BY <1>2, <2>1, IdleVisits, VisitGoes
<1>7. CASE CheckFails(w)
  BY <1>3, <1>6, <1>7 DEF CheckFails
<1>8. CASE Subscribe(w)
  <2>1. PICK wanted \in BOOLEAN :
            Set(c, [Here(w) EXCEPT !.subscribed = wanted /\ Here(w).business # Anonymous])
    BY <1>8 DEF Subscribe
  <2> DEFINE wants == wanted /\ Here(w).business # Anonymous
             s == [Here(w) EXCEPT !.subscribed = wants]
  <2>2. wants \in BOOLEAN
    OBVIOUS
  <2>3. Set(c, s) /\ Done(w)
    BY <1>8, <2>1 DEF Subscribe
  <2> HIDE DEF wants
  <2>4. s \in SocketRow
    BY <1>5, <2>2
  <2> HIDE DEF s
  <2> QED BY <1>6, <2>3, <2>4
<1>9. CASE SignedIn(w)
  BY <1>2, <1>3, <1>4, <1>6, <1>9 DEF SignedIn
<1>10. CASE Nothing(w)
  BY <1>10, IdleVisits, VisitGoes DEF Nothing, Done, socketVars
<1>11. CASE TimedOut(w)
  BY <1>3, <1>6, <1>11 DEF TimedOut
<1> QED BY <1>7, <1>8, <1>9, <1>10, <1>11

LEMMA SignInAsks ==
    ASSUME SocketInv, NEW w \in Workers, SignIn(w)
    PROVE  SocketInv'
<1> DEFINE c == req[w].connection
<1>1. req[w] \in Visiting
  BY SocketRequest DEF SignIn, Checked, At
<1>2. c \in Connections /\ Here(w) = sockets[c]
  BY <1>1 DEF Visiting, Here
<1>3. SignedOut(Here(w)) \in SocketRow
  BY <1>2, RowTypes
<1>4. PICK b \in Tenants :
          \/ Set(c, SignedOut(Here(w))) /\ Done(w)
          \/ /\ Ask(w, "sign in", c, b, "join")
             /\ UNCHANGED <<mined, deep, trail, sockets, suspended, lapsed>>
  BY DEF SignIn, socketVars
<1> HIDE DEF c
<1>5. CASE Set(c, SignedOut(Here(w))) /\ Done(w)
  BY <1>2, <1>3, <1>5, IdleVisits, VisitGoes DEF Done, Set
<1>6. CASE /\ Ask(w, "sign in", c, b, "join")
           /\ UNCHANGED <<mined, deep, trail, sockets, suspended, lapsed>>
  <2>1. PICK r \in SocketHeld : InStanding(r, suspended) /\ Goto(w, r)
    BY <1>2, <1>6, Asked
  <2> QED BY <1>6, <2>1, VisitGoes
<1> QED BY <1>4, <1>5, <1>6

\* The event goes out only with the business's answer for this very visit.
LEMMA EventGoes ==
    ASSUME SocketInv, NEW w \in Workers, Deliver(w)
    PROVE  SocketInv'
<1>1. req[w] \in Visiting /\ InStanding(req[w], suspended) /\ req[w].at = "check"
  BY SocketRequest DEF Deliver, Checked, At
<1>2. UNCHANGED <<mined, deep, trail, sockets, suspended, lapsed>>
  BY DEF Deliver, socketVars
<1>3. CASE Here(w).subscribed /\ Here(w).wire = "open" /\ Here(w).business = req[w].job
  <2>1. req[w].job \in Tenants /\ req[w].tenant # Anonymous /\ Vouched(w)
    BY <1>3, SocketAssumption DEF Deliver, Checked
  <2>2. req[w].job \in req[w].stood
    BY <1>1, <1>3, <2>1 DEF Vouched, InStanding
  <2> DEFINE r == [req[w] EXCEPT !.at = "delivered"]
  <2>3. r \in Visiting /\ r.at = "delivered" /\ r.job = req[w].job /\ r.stood = req[w].stood
    BY <1>1 DEF Visiting
  <2>4. Goto(w, r)
    BY <1>3 DEF Deliver
  <2> HIDE DEF r
  <2>5. InStanding(r, suspended) /\ r \in SocketHeld
    BY <2>2, <2>3 DEF InStanding, SocketHeld
  <2> QED BY <1>2, <2>4, <2>5, VisitGoes
<1>4. CASE Done(w)
  BY <1>2, <1>4, IdleVisits, VisitGoes DEF Done
<1> QED BY <1>3, <1>4 DEF Deliver

LEMMA SocketStep == SocketInv /\ [SocketNext]_<<shared, socketVars>> => SocketInv'
<1> SUFFICES ASSUME SocketInv, [SocketNext]_<<shared, socketVars>> PROVE SocketInv'
  OBVIOUS
<1>1. CASE \E b \in Tenants : Suspend(b) \/ Lapse(b)
  BY <1>1, StandingLost
<1>2. CASE (\E c \in Connections : WireCloses(c)) \/ ShutDown
  BY <1>2, RowMoves
<1>3. CASE \E w \in Workers : (\E c \in Connections : Connect(w, c)) \/ Connected(w)
  BY <1>3, ConnectSteps
<1>4. CASE \E w \in Workers, c \in Connections, job \in Jobs : Visit(w, c, job)
  BY <1>4, VisitSteps
<1>5. CASE \E w \in Workers : RegistryAnswers(w)
  BY <1>5, AnswerSteps
<1>6. CASE \E w \in Workers :
              \/ CheckFails(w) \/ Subscribe(w) \/ SignedIn(w) \/ Nothing(w) \/ TimedOut(w)
  BY <1>6, CheckedSteps
<1>7. CASE \E w \in Workers : SignIn(w) \/ Deliver(w)
  BY <1>7, SignInAsks, EventGoes
<1>8. CASE RequestStep /\ UNCHANGED socketVars
  <2>1. \A w \in Workers : ~At(w, "audit")
    BY IdleRests DEF At, SocketInv, SocketTypes, SocketHeld, Visiting
  <2>2. PICK w \in Workers : Goto(w, Idle) /\ UNCHANGED <<mined, deep, trail>>
    BY <1>8, <2>1, IdleVisits, OneFails DEF SocketInv, SocketTypes
  <2> QED BY <1>8, <2>2, IdleVisits, VisitGoes DEF socketVars
<1>9. CASE UNCHANGED <<shared, socketVars>>
  BY <1>9 DEF shared, socketVars, SocketInv, SocketTypes, SocketTypeOK, AtRest
<1> QED BY <1>1, <1>2, <1>3, <1>4, <1>5, <1>6, <1>7, <1>8, <1>9 DEF SocketNext

LEMMA SocketProves == SocketInv => DeliveredInStanding
BY DEF SocketInv, InStanding, DeliveredInStanding, At

----------------------------------------------------------------------------
(***************************************************************************)
(* Travel-rule data (services/travel-rule.ts).  Every transmission is of   *)
(* the record as it stands, and has an attempt on record.                  *)
(***************************************************************************)
FormRow == [state : {"open", "used", "expired"}, data : TravelData]
RecordRow == [data : TravelData, form : Forms, attempts : 0..MaxAttempts,
              destination : Services \cup {"none"}, shared : BOOLEAN]
Envelope == [data : TravelData, to : Services \cup {"none"}]

Authorizing == [at : {"check wallet", "bind data"}, form : Forms, open : BOOLEAN,
                found : {NoRecord} \cup RecordRow]
Loading == [at : {"load data"}, recover : BOOLEAN]
Loaded == [at : {"record attempt", "commit"}, data : TravelData]
Sending == [at : {"send"}, data : TravelData, to : Services \cup {"none"}]
Answering == [at : {"await answer", "commit"}]
TravelHeld == {Idle} \cup Authorizing \cup Loading \cup Loaded \cup Sending \cup Answering

TravelTypes ==
    /\ req \in [Workers -> TravelHeld] /\ AtRest
    /\ payment \in {"PENDING", "DECIDED", "CANCELLED"}
    /\ forms \in [Forms -> {NoForm} \cup FormRow]
    /\ record \in {NoRecord} \cup RecordRow
    /\ evidence \in BOOLEAN /\ service \in Services
    /\ sent \in Seq(Envelope)

\* What a request carries is what the record says, and its attempt is counted;
\* what it has an answer to has been sent.
InFlight(r, rec, out) ==
    /\ r.at = "load data" /\ r.recover = TRUE => out # <<>>
    /\ r.at \in {"record attempt", "send"} => rec \in RecordRow /\ r.data = rec.data
    /\ r.at = "send" => rec.attempts > 0 /\ r.to = rec.destination
    /\ r.at \in {"await answer", "commit"} => rec \in RecordRow /\ out # <<>>

Leaving == {w \in Workers : req[w].at = "send"}
LeavingCounted ==
    /\ IsFiniteSet(Leaving)
    /\ Len(sent) + Cardinality(Leaving) <= record.attempts

SentOnRecord ==
    \A k \in 1..Len(sent) : sent[k] = [data |-> record.data, to |-> record.destination]

TravelInv ==
    /\ TravelTypes /\ LeavingCounted /\ SentOnRecord
    /\ evidence => sent # <<>>
    /\ payment = "DECIDED" => record \in RecordRow /\ record.shared /\ sent # <<>>
    /\ \A w \in Workers : InFlight(req[w], record, sent)

LEMMA TravelStart == RequestsInit /\ TravelInit => TravelInv
<1> SUFFICES ASSUME RequestsInit, TravelInit PROVE TravelInv
  OBVIOUS
<1>1. service \in Services
  <2>1. (CHOOSE s \in Services : TRUE) \in Services
    BY TravelAssumption
  <2> QED BY <2>1 DEF TravelInit
<1>2. TravelTypes
  <2>1. req \in [Workers -> TravelHeld] /\ AtRest
    BY DEF RequestsInit, TravelHeld, AtRest
  <2>2. forms \in [Forms -> {NoForm} \cup FormRow] /\ sent \in Seq(Envelope)
    BY DEF TravelInit
  <2> QED BY <1>1, <2>1, <2>2 DEF TravelInit, TravelTypes
<1>3. Leaving = {}
  BY IdleRests DEF RequestsInit, Leaving
<1>4. Len(sent) = 0 /\ record.attempts = 0
  BY DEF TravelInit, NoRecord
<1>5. LeavingCounted
  BY <1>3, <1>4, FS_EmptySet DEF LeavingCounted
<1>6. \A w \in Workers : InFlight(req[w], record, sent)
  BY IdleRests DEF RequestsInit, InFlight
<1> QED BY <1>2, <1>4, <1>5, <1>6 DEF TravelInv, SentOnRecord, TravelInit

LEMMA NoRecordEmpty == NoRecord \notin RecordRow /\ NoRecord.attempts = 0
BY DEF NoRecord, RecordRow

LEMMA IdleTravels ==
    Idle \in TravelHeld /\ Idle.at # "send" /\ \A rec, out : InFlight(Idle, rec, out)
BY IdleRests DEF TravelHeld, InFlight

LEMMA TravelRequest ==
    ASSUME TravelInv, NEW w \in Workers
    PROVE  /\ InFlight(req[w], record, sent)
           /\ req[w].at \in {"check wallet", "bind data"} => req[w] \in Authorizing
           /\ req[w].at = "load data" => req[w] \in Loading
           /\ req[w].at = "record attempt" => req[w] \in Loaded
           /\ req[w].at = "send" => req[w] \in Sending
           /\ req[w].at = "await answer" => req[w] \in Answering
BY IdleRests DEF TravelInv, TravelTypes, TravelHeld, Authorizing, Loading, Loaded, Sending, Answering

\* A request goes on; it was not sending, and does not send yet.
LEMMA LeavingSame ==
    ASSUME TravelInv, NEW w \in Workers, NEW r \in TravelHeld, Goto(w, r), r.at # "send"
    PROVE  /\ req' \in [Workers -> TravelHeld] /\ \A v \in Workers : req'[v] \in {r, req[v]}
           /\ Leaving' = Leaving \ {w}
           /\ IsFiniteSet(Leaving') /\ Cardinality(Leaving') \in Nat
           /\ Cardinality(Leaving') <= Cardinality(Leaving)
           /\ w \in Leaving => Cardinality(Leaving') = Cardinality(Leaving) - 1
<1>1. /\ req' \in [Workers -> TravelHeld] /\ req'[w] = r
      /\ \A v \in Workers \ {w} : req'[v] = req[v]
  BY OneGoes DEF TravelInv, TravelTypes
<1>2. Leaving' = Leaving \ {w}
  BY <1>1 DEF Leaving
<1>3. IsFiniteSet(Leaving) /\ Cardinality(Leaving) \in Nat
  BY FS_CardinalityType DEF TravelInv, LeavingCounted
<1>4. IsFiniteSet(Leaving \ {w})
      /\ Cardinality(Leaving \ {w}) = IF w \in Leaving THEN Cardinality(Leaving) - 1
                                      ELSE Cardinality(Leaving)
  BY <1>3, FS_RemoveElement
<1>5. Cardinality(Leaving \ {w}) \in Nat
  BY <1>4, FS_CardinalityType
<1> HIDE DEF Leaving
<1> QED BY <1>1, <1>2, <1>3, <1>4, <1>5

\* A request goes on, and no more than forms, evidence and decisions change.
LEMMA TravelGoes ==
    ASSUME TravelInv, NEW w \in Workers, NEW r \in TravelHeld, InFlight(r, record, sent),
           Goto(w, r), r.at # "send",
           UNCHANGED <<mined, deep, trail, record, sent>>,
           payment' \in {payment, "CANCELLED"}, service' = service,
           forms' \in [Forms -> {NoForm} \cup FormRow],
           evidence' \in BOOLEAN, evidence' => sent # <<>>
    PROVE  TravelInv'
<1>1. /\ req' \in [Workers -> TravelHeld] /\ \A v \in Workers : req'[v] \in {r, req[v]}
      /\ IsFiniteSet(Leaving') /\ Cardinality(Leaving') \in Nat
      /\ Cardinality(Leaving') <= Cardinality(Leaving) /\ Cardinality(Leaving) \in Nat
  BY LeavingSame, FS_CardinalityType DEF TravelInv, LeavingCounted
<1>2. TravelTypes'
  BY <1>1 DEF TravelInv, TravelTypes, AtRest
<1>3. Len(sent) \in Nat /\ record.attempts \in Nat
  BY NoRecordEmpty, TravelAssumption DEF TravelInv, TravelTypes, RecordRow
<1> HIDE DEF Leaving
<1>4. LeavingCounted'
  BY <1>1, <1>3 DEF TravelInv, LeavingCounted
<1>5. \A v \in Workers : InFlight(req'[v], record', sent')
  BY <1>1 DEF TravelInv
<1> QED BY <1>2, <1>4, <1>5 DEF TravelInv, SentOnRecord

\* No request moves.
LEMMA TravelMoves ==
    ASSUME TravelInv, UNCHANGED <<shared, record, sent, evidence>>,
           payment' \in {payment, "CANCELLED"}, service' \in Services,
           forms' \in [Forms -> {NoForm} \cup FormRow]
    PROVE  TravelInv'
<1>1. UNCHANGED <<req, mined, deep, trail>>
  BY DEF shared
<1>2. TravelTypes'
  BY <1>1 DEF TravelInv, TravelTypes, AtRest
<1>3. LeavingCounted'
  BY <1>1 DEF TravelInv, LeavingCounted, Leaving
<1>4. \A v \in Workers : InFlight(req'[v], record', sent')
  BY <1>1 DEF TravelInv
<1> QED BY <1>2, <1>3, <1>4 DEF TravelInv, SentOnRecord

LEMMA MeanwhileSteps ==
    ASSUME TravelInv,
           \/ ServiceMoves \/ WalletRotates \/ CancelMirrored
           \/ \E c \in Forms : FormExpires(c) \/ \E d \in TravelData : CreateChallenge(c, d)
    PROVE  TravelInv'
<1>0. forms \in [Forms -> {NoForm} \cup FormRow] /\ service \in Services
  BY DEF TravelInv, TravelTypes
<1>1. CASE ServiceMoves \/ WalletRotates \/ CancelMirrored
  BY <1>0, <1>1, TravelMoves DEF ServiceMoves, WalletRotates, CancelMirrored
<1>2. ASSUME NEW c \in Forms, FormExpires(c) PROVE TravelInv'
  <2>1. forms[c] \in FormRow
    BY <1>0, <1>2 DEF FormExpires, NoForm
  <2>2. [forms[c] EXCEPT !.state = "expired"] \in FormRow
    BY <2>1 DEF FormRow
  <2>3. forms' = [forms EXCEPT ![c] = [forms[c] EXCEPT !.state = "expired"]]
    BY <1>2 DEF FormExpires
  <2>4. forms' \in [Forms -> {NoForm} \cup FormRow]
    BY <1>0, <2>2, <2>3
  <2> QED BY <1>0, <1>2, <2>4, TravelMoves DEF FormExpires
<1>3. ASSUME NEW c \in Forms, NEW d \in TravelData, CreateChallenge(c, d) PROVE TravelInv'
  <2>1. [state |-> "open", data |-> d] \in FormRow
    BY DEF FormRow
  <2>2. forms' \in [Forms -> {NoForm} \cup FormRow]
    BY <1>0, <1>3, <2>1 DEF CreateChallenge
  <2> QED BY <1>0, <1>3, <2>2, TravelMoves DEF CreateChallenge
<1> QED BY <1>1, <1>2, <1>3

LEMMA AuthorizeSteps ==
    ASSUME TravelInv, NEW w \in Workers, (\E c \in Forms : Authorize(w, c)) \/ CheckWallet(w)
    PROVE  TravelInv'
<1>0. /\ record \in {NoRecord} \cup RecordRow /\ forms \in [Forms -> {NoForm} \cup FormRow]
      /\ evidence \in BOOLEAN /\ (evidence => sent # <<>>)
  BY DEF TravelInv, TravelTypes
<1>1. ASSUME NEW c \in Forms, Authorize(w, c) PROVE TravelInv'
  <2> DEFINE open == forms[c].state = "open"
             r == [at |-> "check wallet", form |-> c, open |-> open, found |-> record]
  <2>1. Goto(w, r) /\ UNCHANGED <<mined, deep, trail, travelVars>>
    BY <1>1 DEF Authorize
  <2>2. open \in BOOLEAN
    OBVIOUS
  <2> HIDE DEF open
  <2>3. r \in Authorizing /\ r.at = "check wallet"
    BY <1>0, <2>2 DEF Authorizing
  <2> HIDE DEF r
  <2>4. r \in TravelHeld /\ InFlight(r, record, sent)
    BY <2>3 DEF TravelHeld, InFlight
  <2> QED BY <1>0, <2>1, <2>3, <2>4, TravelGoes DEF travelVars
<1>2. CASE CheckWallet(w)
  <2> DEFINE r == [req[w] EXCEPT !.at = "bind data"]
  <2>1. req[w] \in Authorizing
    BY <1>2, TravelRequest DEF CheckWallet, At
  <2>2. r \in Authorizing /\ r.at = "bind data"
    BY <2>1 DEF Authorizing
  <2>3. (Goto(w, r) \/ Done(w)) /\ UNCHANGED <<mined, deep, trail, travelVars>>
    BY <1>2 DEF CheckWallet
  <2> HIDE DEF r
  <2>4. r \in TravelHeld /\ InFlight(r, record, sent)
    BY <2>2 DEF TravelHeld, InFlight
  <2>5. CASE Goto(w, r)
    BY <1>0, <2>2, <2>3, <2>4, <2>5, TravelGoes DEF travelVars
  <2>6. CASE Done(w)
    BY <1>0, <2>3, <2>6, IdleTravels, TravelGoes DEF Done, travelVars
  <2> QED BY <2>3, <2>5, <2>6
<1> QED BY <1>1, <1>2

\* The data is bound once; then the record names it for good.
LEMMA BindSteps ==
    ASSUME TravelInv, NEW w \in Workers, BindData(w)
    PROVE  TravelInv'
<1> DEFINE c == req[w].form
<1>0. /\ record \in {NoRecord} \cup RecordRow /\ forms \in [Forms -> {NoForm} \cup FormRow]
      /\ evidence \in BOOLEAN /\ (evidence => sent # <<>>)
  BY DEF TravelInv, TravelTypes
<1>1. c \in Forms
  BY TravelRequest DEF BindData, At, Authorizing
<1>2. Goto(w, Idle) /\ UNCHANGED <<mined, deep, trail, payment, evidence, service, signable, sent>>
  BY DEF BindData, Done
<1>3. CASE record # NoRecord
  <2>1. UNCHANGED <<forms, record>>
    BY <1>3 DEF BindData
  <2> QED BY <1>0, <1>2, <2>1, IdleTravels, TravelGoes
<1>4. CASE record = NoRecord
  <2>1. /\ forms[c].state = "open" /\ record' = RecordOf(c)
        /\ forms' = [forms EXCEPT ![c] = [forms[c] EXCEPT !.state = "used"]]
    BY <1>4 DEF BindData
  <2> HIDE DEF c
  <2>2. forms[c] \in FormRow
    BY <1>0, <1>1, <2>1 DEF NoForm
  <2>3. [forms[c] EXCEPT !.state = "used"] \in FormRow /\ forms[c].data \in TravelData
    BY <2>2 DEF FormRow
  <2>4. forms' \in [Forms -> {NoForm} \cup FormRow]
    BY <1>0, <2>1, <2>3
  <2>5. record' \in RecordRow /\ record'.attempts = 0
    BY <1>1, <2>1, <2>3, TravelAssumption DEF RecordRow, RecordOf
  <2>6. /\ req' \in [Workers -> TravelHeld] /\ \A v \in Workers : req'[v] \in {Idle, req[v]}
        /\ IsFiniteSet(Leaving') /\ Cardinality(Leaving') \in Nat
        /\ Cardinality(Leaving') <= Cardinality(Leaving) /\ Cardinality(Leaving) \in Nat
    BY <1>2, IdleTravels, LeavingSame, FS_CardinalityType DEF TravelInv, LeavingCounted
  <2>7. Len(sent) = 0 /\ sent = <<>> /\ Len(sent) \in Nat /\ Cardinality(Leaving) = 0
    <3>1. Len(sent) \in Nat
      BY DEF TravelInv, TravelTypes
    <3>2. record.attempts = 0
      BY <1>4, NoRecordEmpty
    <3>3. Len(sent) = 0 /\ Cardinality(Leaving) = 0
      BY <2>6, <3>1, <3>2 DEF TravelInv, LeavingCounted
    <3> QED BY <3>1, <3>3, EmptySeq DEF TravelInv, TravelTypes
  <2>8. TravelTypes'
    BY <1>2, <2>4, <2>5, <2>6 DEF TravelInv, TravelTypes, AtRest
  <2> HIDE DEF Leaving
  <2>9. LeavingCounted'
    <3>1. Cardinality(Leaving') = 0 /\ Len(sent') = 0 /\ record'.attempts = 0
      BY <1>2, <2>5, <2>6, <2>7
    <3> QED BY <2>6, <3>1 DEF LeavingCounted
  <2>10. \A v \in Workers : InFlight(req'[v], record', sent')
    <3>1. \A v \in Workers : InFlight(req[v], record', sent)
      BY <1>4, <2>7, NoRecordEmpty DEF TravelInv, InFlight
    <3> QED BY <1>2, <2>6, <3>1, IdleTravels
  <2>11. SentOnRecord'
    BY <1>2, <2>7 DEF SentOnRecord
  <2> QED BY <1>2, <1>4, <2>8, <2>9, <2>10, <2>11, NoRecordEmpty DEF TravelInv
<1> QED BY <1>3, <1>4

LEMMA LoadSteps ==
    ASSUME TravelInv, NEW w \in Workers, Screen(w) \/ LoadAuthorizedPayload(w)
    PROVE  TravelInv'
<1>0. /\ record \in {NoRecord} \cup RecordRow /\ forms \in [Forms -> {NoForm} \cup FormRow]
      /\ evidence \in BOOLEAN /\ (evidence => sent # <<>>)
      /\ UNCHANGED <<mined, deep, trail, travelVars>>
  BY DEF TravelInv, TravelTypes, Screen, LoadAuthorizedPayload
<1>1. CASE Screen(w)
  <2> DEFINE r == [at |-> "load data", recover |-> evidence]
  <2>1. Goto(w, r)
    BY <1>1 DEF Screen
  <2>2. r \in Loading /\ r.at = "load data" /\ r.recover = evidence
    BY <1>0 DEF Loading
  <2> HIDE DEF r
  <2>3. r \in TravelHeld /\ InFlight(r, record, sent)
    BY <1>0, <2>2 DEF TravelHeld, InFlight
  <2> QED BY <1>0, <2>1, <2>2, <2>3, TravelGoes DEF travelVars
<1>2. CASE LoadAuthorizedPayload(w)
  <2>1. req[w] \in Loading /\ InFlight(req[w], record, sent) /\ req[w].at = "load data"
    BY <1>2, TravelRequest DEF LoadAuthorizedPayload, At
  <2> DEFINE step == IF req[w].recover THEN "commit" ELSE "record attempt"
             r == [at |-> step, data |-> record.data]
  <2>2. Goto(w, r)
    BY <1>2 DEF LoadAuthorizedPayload
  <2>3. record \in RecordRow /\ record.data \in TravelData
    BY <1>0, <1>2 DEF LoadAuthorizedPayload, RecordRow
  <2>4. step \in {"commit", "record attempt"} /\ (step = "commit" => req[w].recover)
    OBVIOUS
  <2> HIDE DEF step
  <2>5. r \in Loaded /\ r.at = step /\ r.data = record.data
    BY <2>3, <2>4 DEF Loaded
  <2> HIDE DEF r
  <2>6. r \in TravelHeld
    BY <2>5 DEF TravelHeld
  <2>7. InFlight(r, record, sent)
    BY <2>1, <2>3, <2>4, <2>5 DEF InFlight
  <2> QED BY <1>0, <2>2, <2>4, <2>5, <2>6, <2>7, TravelGoes DEF travelVars
<1> QED BY <1>1, <1>2

\* An attempt is counted before it leaves, and goes where the earlier ones went.
LEMMA AttemptCounted ==
    ASSUME TravelInv, NEW w \in Workers, RecordOutboundAttempt(w)
    PROVE  TravelInv'
<1> DEFINE r == [at |-> "send", data |-> req[w].data, to |-> service]
<1>1. /\ req[w] \in Loaded /\ req[w].at = "record attempt" /\ record \in RecordRow
      /\ req[w].data = record.data
  BY TravelRequest DEF RecordOutboundAttempt, At, InFlight
<1>2. /\ record.attempts > 0 => record.destination = service
      /\ record.attempts < MaxAttempts /\ Goto(w, r)
      /\ UNCHANGED <<mined, deep, trail, payment, forms, evidence, service, signable, sent>>
  BY DEF RecordOutboundAttempt, SameDestination
<1>3. service \in Services /\ Len(sent) \in Nat /\ sent \in Seq(Envelope)
  BY DEF TravelInv, TravelTypes
<1>4. r \in Sending /\ r.at = "send" /\ r.data = record.data /\ r.to = service
  BY <1>1, <1>3 DEF Loaded, Sending
<1> HIDE DEF r
<1>5. r \in TravelHeld
  BY <1>4 DEF TravelHeld
<1>6. /\ record' \in RecordRow /\ record'.attempts = record.attempts + 1
      /\ record'.destination = service /\ record'.data = record.data
      /\ record'.shared = record.shared /\ record.attempts \in Nat
  <2> DEFINE n == record.attempts + 1
  <2>1. record' = [record EXCEPT !.attempts = n, !.destination = service]
    BY DEF RecordOutboundAttempt
  <2>2. record.attempts \in Nat /\ n \in 0..MaxAttempts
    <3>1. record.attempts \in 0..MaxAttempts
      BY <1>1 DEF RecordRow
    <3> QED BY <1>2, <3>1, TravelAssumption
  <2> HIDE DEF n
  <2>3. /\ record' \in RecordRow /\ record'.attempts = n
        /\ record'.destination = service /\ record'.data = record.data
        /\ record'.shared = record.shared
    BY <1>1, <1>3, <2>1, <2>2 DEF RecordRow
  <2> QED BY <2>2, <2>3 DEF n
<1>7. /\ req' \in [Workers -> TravelHeld] /\ req'[w] = r
      /\ \A v \in Workers \ {w} : req'[v] = req[v]
  BY <1>2, <1>5, OneGoes DEF TravelInv, TravelTypes
<1>8. TravelTypes'
  BY <1>2, <1>6, <1>7 DEF TravelInv, TravelTypes, AtRest
<1>9. Leaving' = Leaving \cup {w} /\ w \notin Leaving
  BY <1>1, <1>4, <1>7 DEF Leaving
<1>10. IsFiniteSet(Leaving) /\ Cardinality(Leaving) \in Nat
       /\ Len(sent) + Cardinality(Leaving) <= record.attempts
  BY FS_CardinalityType DEF TravelInv, LeavingCounted
<1>11. IsFiniteSet(Leaving \cup {w})
       /\ Cardinality(Leaving \cup {w}) = Cardinality(Leaving) + 1
  BY <1>9, <1>10, FS_AddElement
<1> HIDE DEF Leaving
<1>12. LeavingCounted'
  BY <1>2, <1>3, <1>6, <1>9, <1>10, <1>11 DEF LeavingCounted
<1>13. SentOnRecord'
  <2>1. Len(sent) > 0 => record.destination = service
    BY <1>2, <1>3, <1>6, <1>10
  <2> QED BY <1>2, <1>3, <1>6, <2>1 DEF TravelInv, SentOnRecord
<1> HIDE DEF TravelInv
<1>14. ASSUME NEW v \in Workers PROVE InFlight(req'[v], record', sent')
  <2>1. CASE v = w
    <3>1. record'.attempts > 0 /\ record' \in RecordRow
      BY <1>6
    <3> QED BY <1>4, <1>6, <1>7, <2>1, <3>1 DEF InFlight
  <2>2. CASE v # w
    <3>1. InFlight(req[v], record, sent)
      BY DEF TravelInv
    <3>2. record'.attempts > 0 /\ sent' = sent
      BY <1>2, <1>6
    <3>3. record.attempts > 0 => record'.destination = record.destination
      BY <1>2, <1>6
    <3>4. req'[v] = req[v]
      BY <1>7, <2>2
    <3> QED BY <1>6, <3>1, <3>2, <3>3, <3>4, Zenon DEF InFlight
  <2> QED BY <2>1, <2>2
<1> QED BY <1>1, <1>2, <1>6, <1>8, <1>12, <1>13, <1>14 DEF TravelInv

LEMMA DataSent ==
    ASSUME TravelInv, NEW w \in Workers, Send(w)
    PROVE  TravelInv'
<1> DEFINE r == [at |-> "await answer"]
           e == [data |-> req[w].data, to |-> req[w].to]
<1>1. /\ req[w] \in Sending /\ req[w].at = "send" /\ record \in RecordRow
      /\ req[w].data = record.data /\ req[w].to = record.destination
  BY TravelRequest DEF Send, At, InFlight
<1>2. /\ sent' = Append(sent, e) /\ Goto(w, r)
      /\ UNCHANGED <<mined, deep, trail, payment, forms, record, evidence, service, signable>>
  BY DEF Send
<1>3. r \in Answering /\ r.at = "await answer"
  BY DEF Answering
<1>4. e \in Envelope /\ e = [data |-> record.data, to |-> record.destination]
  BY <1>1 DEF Sending, Envelope
<1> HIDE DEF r, e
<1>5. r \in TravelHeld
  BY <1>3 DEF TravelHeld
<1>6. /\ sent \in Seq(Envelope) /\ Len(sent) \in Nat
      /\ record.attempts \in Nat
  BY <1>1, TravelAssumption DEF TravelInv, TravelTypes, RecordRow
<1>7. /\ sent' \in Seq(Envelope) /\ Len(sent') = Len(sent) + 1 /\ sent' # <<>>
      /\ \A k \in 1..Len(sent) : sent'[k] = sent[k]
      /\ sent'[Len(sent) + 1] = e
  BY <1>2, <1>4, <1>6, AppendProperties, EmptySeq
<1>8. /\ req' \in [Workers -> TravelHeld] /\ \A v \in Workers : req'[v] \in {r, req[v]}
      /\ IsFiniteSet(Leaving') /\ Cardinality(Leaving') = Cardinality(Leaving) - 1
      /\ Cardinality(Leaving) \in Nat
  <2>1. w \in Leaving
    BY <1>1 DEF Leaving
  <2> QED BY <1>2, <1>3, <1>5, <2>1, LeavingSame, FS_CardinalityType DEF TravelInv, LeavingCounted
<1>9. TravelTypes'
  BY <1>2, <1>7, <1>8 DEF TravelInv, TravelTypes, AtRest
<1> HIDE DEF Leaving
<1>10. LeavingCounted'
  BY <1>2, <1>6, <1>7, <1>8 DEF TravelInv, LeavingCounted
<1>11. SentOnRecord'
  <2> SUFFICES ASSUME NEW k \in 1..(Len(sent) + 1)
               PROVE  sent'[k] = [data |-> record.data, to |-> record.destination]
    BY <1>2, <1>7 DEF SentOnRecord
  <2>1. CASE k = Len(sent) + 1
    BY <1>4, <1>7, <2>1
  <2>2. CASE k # Len(sent) + 1
    <3>1. k \in 1..Len(sent)
      BY <1>6, <2>2
    <3> QED BY <1>7, <3>1 DEF TravelInv, SentOnRecord
  <2> QED BY <2>1, <2>2
<1>12. \A v \in Workers : InFlight(req'[v], record', sent')
  <2>1. \A v \in Workers : InFlight(req[v], record, sent')
    BY <1>7 DEF TravelInv, InFlight
  <2>2. InFlight(r, record, sent')
    BY <1>1, <1>3, <1>7 DEF InFlight
  <2> QED BY <1>2, <1>8, <2>1, <2>2
<1> QED BY <1>2, <1>7, <1>9, <1>10, <1>11, <1>12 DEF TravelInv

LEMMA AnswerStored ==
    ASSUME TravelInv, NEW w \in Workers, StoreAnswer(w)
    PROVE  TravelInv'
<1> DEFINE r == [at |-> "commit"]
<1>1. record \in RecordRow /\ sent # <<>>
  BY TravelRequest DEF StoreAnswer, At, InFlight
<1>2. /\ Goto(w, r) /\ evidence' = TRUE
      /\ UNCHANGED <<mined, deep, trail, payment, forms, record, service, signable, sent>>
  BY DEF StoreAnswer
<1>3. r \in Answering /\ r.at = "commit"
  BY DEF Answering
<1> HIDE DEF r
<1>4. r \in TravelHeld /\ InFlight(r, record, sent)
  BY <1>1, <1>3 DEF TravelHeld, InFlight
<1>5. forms \in [Forms -> {NoForm} \cup FormRow]
  BY DEF TravelInv, TravelTypes
<1> QED BY <1>1, <1>2, <1>3, <1>4, <1>5, TravelGoes

LEMMA ScreeningCommitted ==
    ASSUME TravelInv, NEW w \in Workers, CommitScreening(w)
    PROVE  TravelInv'
<1>1. record \in RecordRow /\ sent # <<>>
  BY TravelRequest DEF CommitScreening, At, InFlight
<1>2. Goto(w, Idle) /\ UNCHANGED <<mined, deep, trail, forms, evidence, service, signable, sent>>
  BY DEF CommitScreening, Done
<1>3. CASE UNCHANGED <<payment, record>>
  BY <1>2, <1>3, IdleTravels, TravelGoes DEF TravelInv, TravelTypes
<1>4. CASE payment' = "DECIDED" /\ record' = [record EXCEPT !.shared = TRUE]
  <2>1. /\ record' \in RecordRow /\ record'.shared /\ record'.attempts = record.attempts
        /\ record'.data = record.data /\ record'.destination = record.destination
    BY <1>1, <1>4 DEF RecordRow
  <2>2. /\ req' \in [Workers -> TravelHeld] /\ \A v \in Workers : req'[v] \in {Idle, req[v]}
        /\ IsFiniteSet(Leaving') /\ Cardinality(Leaving') \in Nat
        /\ Cardinality(Leaving') <= Cardinality(Leaving) /\ Cardinality(Leaving) \in Nat
    BY <1>2, IdleTravels, LeavingSame, FS_CardinalityType DEF TravelInv, LeavingCounted
  <2>3. TravelTypes'
    BY <1>2, <1>4, <2>1, <2>2 DEF TravelInv, TravelTypes, AtRest
  <2>4. Len(sent) \in Nat /\ record.attempts \in Nat
    BY <1>1, TravelAssumption DEF TravelInv, TravelTypes, RecordRow
  <2> HIDE DEF Leaving
  <2>5. LeavingCounted'
    BY <1>2, <2>1, <2>2, <2>4 DEF TravelInv, LeavingCounted
  <2>6. SentOnRecord'
    BY <1>2, <2>1 DEF TravelInv, SentOnRecord
  <2>7. \A v \in Workers : InFlight(req'[v], record', sent')
    <3>1. \A v \in Workers : InFlight(req[v], record', sent)
      BY <2>1 DEF TravelInv, InFlight
    <3> QED BY <1>2, <2>2, <3>1, IdleTravels
  <2> QED BY <1>1, <1>2, <2>1, <2>3, <2>5, <2>6, <2>7 DEF TravelInv
<1> QED BY <1>3, <1>4 DEF CommitScreening

LEMMA TravelStep == TravelInv /\ [TravelNext]_<<shared, travelVars>> => TravelInv'
<1> SUFFICES ASSUME TravelInv, [TravelNext]_<<shared, travelVars>> PROVE TravelInv'
  OBVIOUS
<1>0. /\ forms \in [Forms -> {NoForm} \cup FormRow] /\ evidence \in BOOLEAN
      /\ (evidence => sent # <<>>) /\ service \in Services
  BY DEF TravelInv, TravelTypes
<1>1. CASE \/ ServiceMoves \/ WalletRotates \/ CancelMirrored
           \/ \E c \in Forms : FormExpires(c) \/ \E d \in TravelData : CreateChallenge(c, d)
  BY <1>1, MeanwhileSteps
<1>2. CASE \E w \in Workers : (\E c \in Forms : Authorize(w, c)) \/ CheckWallet(w)
  BY <1>2, AuthorizeSteps
<1>3. CASE \E w \in Workers : BindData(w)
  BY <1>3, BindSteps
<1>4. CASE \E w \in Workers : Screen(w) \/ LoadAuthorizedPayload(w)
  BY <1>4, LoadSteps
<1>5. CASE \E w \in Workers : RecordOutboundAttempt(w) \/ Send(w)
  BY <1>5, AttemptCounted, DataSent
<1>6. CASE \E w \in Workers : StoreAnswer(w) \/ CommitScreening(w)
  BY <1>6, AnswerStored, ScreeningCommitted
<1>7. CASE RequestStep /\ UNCHANGED travelVars
  <2>1. \A w \in Workers : ~At(w, "audit")
    BY IdleRests DEF At, TravelInv, TravelTypes, TravelHeld, Authorizing, Loading, Loaded,
                       Sending, Answering
  <2>2. PICK w \in Workers : Goto(w, Idle) /\ UNCHANGED <<mined, deep, trail>>
    BY <1>7, <2>1, IdleTravels, OneFails DEF TravelInv, TravelTypes
  <2> QED BY <1>0, <1>7, <2>2, IdleTravels, TravelGoes DEF travelVars
<1>8. CASE UNCHANGED <<shared, travelVars>>
  BY <1>0, <1>8, TravelMoves DEF travelVars
<1> QED BY <1>1, <1>2, <1>3, <1>4, <1>5, <1>6, <1>7, <1>8 DEF TravelNext

LEMMA TravelProves == TravelInv => TravelDataAccounted
<1> SUFFICES ASSUME TravelInv PROVE TravelDataAccounted
  OBVIOUS
<1>1. Len(sent) \in Nat /\ Cardinality(Leaving) \in Nat /\ DOMAIN sent = 1..Len(sent)
  BY FS_CardinalityType DEF TravelInv, TravelTypes, LeavingCounted
<1>2. record.attempts \in Nat
  BY NoRecordEmpty, TravelAssumption DEF TravelInv, TravelTypes, RecordRow
<1> HIDE DEF Leaving
<1>3. Len(sent) <= record.attempts
  BY <1>1, <1>2 DEF TravelInv, LeavingCounted
<1> QED BY <1>1, <1>3 DEF TravelInv, SentOnRecord, TravelDataAccounted

----------------------------------------------------------------------------
(***************************************************************************)
(* Regulatory reports (services/reporting.ts).  The gateway keeps one      *)
(* filing for a report's key, and a report's row says no more than its     *)
(* filing.                                                                 *)
(***************************************************************************)
PaymentStates == {"PENDING", "FLAGGED", "APPROVED", "REJECTED"}
FilingStates == {"SUBMITTED", "ACKNOWLEDGED"}
Totals == {Cardinality(S) : S \in SUBSET Period} \cup {0}
PaymentRow == [status : PaymentStates, screenings : SUBSET Outcomes]
ReportRow == [status : {"NONE", "GENERATED"} \cup FilingStates, listed : SUBSET Period,
              flagged : Totals, ref : References \cup {"none"}]
FilingRow == [report : ReportIds, key : ReportIds, status : FilingStates]

Reading == [at : {"read screenings"}, report : ReportIds, status : [Period -> PaymentStates],
            due : SUBSET Period]
Storing == [at : {"store report", "stored"}, report : ReportIds, due : SUBSET Period,
            listed : SUBSET Period, flagged : Totals]
Filing == [at : {"file"}, report : ReportIds]
Receiving == [at : {"store receipt"}, report : ReportIds, ref : References, status : FilingStates]
ReportHeld == {Idle} \cup Reading \cup Storing \cup Filing \cup Receiving

ReportTypes ==
    /\ req \in [Workers -> ReportHeld] /\ mined = <<>> /\ deep = 0
    /\ payments \in [Period -> PaymentRow] /\ reports \in [ReportIds -> ReportRow]
    /\ DOMAIN filings \subseteq References
    /\ \A ref \in DOMAIN filings : filings[ref] \in FilingRow
    /\ \A e \in trail : e.event \in {"generated", "submitted"}

\* One request makes a report, and nothing else is done about it meanwhile.
Making(r) == r.at \in {"read screenings", "store report"}
Apart(r, s) == Making(r) /\ s # Idle => r.report # s.report

\* What a request knows of the payments, the reports and the filings.
Knows(r, pays, rows, held) ==
    /\ r.at = "read screenings" =>
          \A p \in r.due : r.status[p] \in {"FLAGGED", "REJECTED"} \/ FailedScreening(pays[p])
    /\ r.at \in {"store report", "stored"} =>
          r.due \subseteq r.listed /\ r.flagged = Cardinality(r.listed)
    /\ Making(r) => rows[r.report].status = "NONE"
    /\ r.at = "stored" => rows[r.report].listed = r.listed
    /\ r.at = "store receipt" => r.ref \in DOMAIN held /\ held[r.ref].report = r.report

\* The gateway's keys are the reports.
OneFilingEach ==
    /\ \A ref \in DOMAIN filings : filings[ref].key = filings[ref].report
    /\ \A a, b \in DOMAIN filings : filings[a].report = filings[b].report => a = b

Entries(r) == {e \in trail : e.event = "submitted" /\ e.report = r}
Filed(r) ==
    LET ref == reports[r].ref IN
    IF reports[r].status \in {"NONE", "GENERATED"} THEN Entries(r) = {}
    ELSE /\ ref \in DOMAIN filings /\ filings[ref].report = r
         /\ Entries(r) = {[event |-> "submitted", report |-> r, ref |-> ref,
                           status |-> reports[r].status]}

ReportInv ==
    /\ ReportTypes /\ OneFilingEach
    /\ \A r \in ReportIds : Filed(r)
    /\ \A v, w \in Workers : v # w => Apart(req[v], req[w])
    /\ \A w \in Workers : Knows(req[w], payments, reports, filings)

LEMMA IdleReports ==
    /\ Idle \in ReportHeld /\ ~Making(Idle)
    /\ \A pays, rows, held : Knows(Idle, pays, rows, held)
    /\ \A r : Apart(r, Idle) /\ Apart(Idle, r)
BY IdleRests DEF ReportHeld, Making, Knows, Apart

LEMMA ReportStart == RequestsInit /\ ReportInit => ReportInv
<1> SUFFICES ASSUME RequestsInit, ReportInit PROVE ReportInv
  OBVIOUS
<1>1. NoReport \in ReportRow /\ NoReport.status = "NONE"
  BY DEF NoReport, ReportRow, Totals
<1>2. [status |-> "PENDING", screenings |-> {}] \in PaymentRow
  BY DEF PaymentRow, PaymentStates
<1>3. DOMAIN filings = {}
  BY DEF ReportInit
<1>4. ReportTypes
  BY <1>1, <1>2, <1>3, IdleReports DEF RequestsInit, ReportInit, ReportTypes
<1>5. OneFilingEach /\ \A r \in ReportIds : Filed(r)
  BY <1>1, <1>3 DEF RequestsInit, ReportInit, OneFilingEach, Filed, Entries
<1>6. \A w \in Workers : req[w] = Idle
  BY DEF RequestsInit
<1> QED BY <1>4, <1>5, <1>6, IdleReports DEF ReportInv

LEMMA ReportRequest ==
    ASSUME ReportInv, NEW w \in Workers
    PROVE  /\ Knows(req[w], payments, reports, filings)
           /\ \A v \in Workers \ {w} : Apart(req[v], req[w]) /\ Apart(req[w], req[v])
           /\ req[w].at # "idle" => req[w] # Idle
           /\ req[w].at = "read screenings" => req[w] \in Reading
           /\ req[w].at \in {"store report", "stored"} => req[w] \in Storing
           /\ req[w].at = "file" => req[w] \in Filing
           /\ req[w].at = "store receipt" => req[w] \in Receiving
BY IdleRests DEF ReportInv, ReportTypes, ReportHeld, Reading, Storing, Filing, Receiving

\* A request goes on, and the rest stays.
LEMMA ReportGoes ==
    ASSUME ReportInv, NEW w \in Workers, NEW r \in ReportHeld,
           Knows(r, payments, reports, filings), Goto(w, r),
           \A v \in Workers \ {w} : Apart(req[v], r) /\ Apart(r, req[v]),
           UNCHANGED <<mined, deep, trail, payments, reports, filings>>
    PROVE  ReportInv'
<1>1. /\ req' \in [Workers -> ReportHeld] /\ req'[w] = r
      /\ \A v \in Workers \ {w} : req'[v] = req[v]
  BY OneGoes DEF ReportInv, ReportTypes
<1>2. ReportTypes' /\ OneFilingEach'
  BY <1>1 DEF ReportInv, ReportTypes, OneFilingEach
<1>3. \A q \in ReportIds : Filed(q)'
  BY DEF ReportInv, Filed, Entries
<1>4. \A v \in Workers : Knows(req'[v], payments', reports', filings')
  BY <1>1 DEF ReportInv
<1>5. \A u, v \in Workers : u # v => Apart(req'[u], req'[v])
  BY <1>1 DEF ReportInv
<1> QED BY <1>2, <1>3, <1>4, <1>5 DEF ReportInv

\* It goes on about the same report.
LEMMA SameReport ==
    ASSUME ReportInv, NEW w \in Workers, NEW r, req[w] # Idle, r # Idle,
           r.report = req[w].report, Making(r) => Making(req[w])
    PROVE  \A v \in Workers \ {w} : Apart(req[v], r) /\ Apart(r, req[v])
BY ReportRequest DEF Apart

\* No request moves, and what the requests and the rows know stays so.
LEMMA ReportMoves ==
    ASSUME ReportInv, UNCHANGED <<shared, reports>>,
           payments' \in [Period -> PaymentRow],
           \A p \in Period : FailedScreening(payments[p]) => FailedScreening(payments'[p]),
           DOMAIN filings' \subseteq References, DOMAIN filings \subseteq DOMAIN filings',
           \A ref \in DOMAIN filings' : filings'[ref] \in FilingRow,
           \A ref \in DOMAIN filings : filings'[ref].report = filings[ref].report,
           OneFilingEach'
    PROVE  ReportInv'
<1>1. UNCHANGED <<req, mined, deep, trail, reports>>
  BY DEF shared
<1>2. ReportTypes'
  BY <1>1 DEF ReportInv, ReportTypes
<1>3. ASSUME NEW q \in ReportIds PROVE Filed(q)'
  BY <1>1 DEF ReportInv, Filed, Entries
<1>4. ASSUME NEW v \in Workers PROVE Knows(req'[v], payments', reports', filings')
  <2>1. Knows(req[v], payments, reports, filings)
    BY DEF ReportInv
  <2>2. req[v].at = "read screenings" => req[v].due \subseteq Period
    BY ReportRequest DEF Reading
  <2> QED BY <1>1, <2>1, <2>2 DEF Knows
<1>5. \A u, v \in Workers : u # v => Apart(req'[u], req'[v])
  BY <1>1 DEF ReportInv
<1> QED BY <1>2, <1>3, <1>4, <1>5 DEF ReportInv

LEMMA PaymentSteps ==
    ASSUME ReportInv, NEW p \in Period, Screened(p) \/ Mirrored(p)
    PROVE  ReportInv'
<1>0. payments \in [Period -> PaymentRow] /\ payments[p] \in PaymentRow
  BY DEF ReportInv, ReportTypes
<1>1. ASSUME NEW row \in PaymentRow, payments' = [payments EXCEPT ![p] = row],
             payments[p].screenings \subseteq row.screenings,
             UNCHANGED <<shared, reports, filings>>
      PROVE  ReportInv'
  <2>1. payments' \in [Period -> PaymentRow]
    BY <1>0, <1>1
  <2>2. \A q \in Period : FailedScreening(payments[q]) => FailedScreening(payments'[q])
    BY <1>0, <1>1 DEF FailedScreening
  <2> QED BY <1>1, <2>1, <2>2, ReportMoves DEF ReportInv, ReportTypes, OneFilingEach
<1>2. CASE Screened(p)
  <2>1. PICK o \in Outcomes : payments' = [payments EXCEPT ![p].screenings = @ \cup {o}]
    BY <1>2 DEF Screened
  <2> DEFINE both == payments[p].screenings \cup {o}
             row == [payments[p] EXCEPT !.screenings = both]
  <2>2. payments' = [payments EXCEPT ![p] = row]
    BY <2>1
  <2>3. both \in SUBSET Outcomes /\ payments[p].screenings \subseteq both
    BY <1>0 DEF PaymentRow
  <2> HIDE DEF both
  <2>4. row \in PaymentRow /\ row.screenings = both
    BY <1>0, <2>3 DEF PaymentRow
  <2> HIDE DEF row
  <2> QED BY <1>1, <1>2, <2>2, <2>3, <2>4 DEF Screened
<1>3. CASE Mirrored(p)
  <2>1. PICK next \in PaymentStates : payments' = [payments EXCEPT ![p].status = next]
    BY <1>3 DEF Mirrored, PaymentStates
  <2> DEFINE row == [payments[p] EXCEPT !.status = next]
  <2>2. payments' = [payments EXCEPT ![p] = row]
    BY <2>1
  <2>3. row \in PaymentRow /\ row.screenings = payments[p].screenings
    BY <1>0 DEF PaymentRow
  <2> HIDE DEF row
  <2> QED BY <1>1, <1>3, <2>2, <2>3 DEF Mirrored
<1> QED BY <1>2, <1>3

\* What is suspicious when the payments are read is so when their screenings
\* are: screenings are only added, and the statuses are those read first.
LEMMA SnapshotSteps ==
    ASSUME ReportInv, NEW w \in Workers,
           ReadScreenings(w) \/ \E r \in ReportIds : ReadPayments(w, r)
    PROVE  ReportInv'
<1>0. payments \in [Period -> PaymentRow]
  BY DEF ReportInv, ReportTypes
<1>1. ASSUME NEW r \in ReportIds, ReadPayments(w, r) PROVE ReportInv'
  <2> DEFINE read == [p \in Period |-> payments[p].status]
             due == {p \in Period : payments[p].status \in {"FLAGGED", "REJECTED"}
                                      \/ FailedScreening(payments[p])}
             m == [at |-> "read screenings", report |-> r, status |-> read, due |-> due]
  <2>1. /\ reports[r] = NoReport /\ \A v \in Workers : req[v] # Idle => req[v].report # r
        /\ Goto(w, m) /\ UNCHANGED <<mined, deep, trail, payments, reports, filings>>
    BY <1>1 DEF ReadPayments, reportVars
  <2>2. /\ read \in [Period -> PaymentStates] /\ due \in SUBSET Period
        /\ \A p \in due : read[p] \in {"FLAGGED", "REJECTED"} \/ FailedScreening(payments[p])
    BY <1>0 DEF PaymentRow
  <2> HIDE DEF read, due
  <2>3. m \in Reading /\ m.at = "read screenings" /\ m.report = r /\ m.status = read /\ m.due = due
    BY <2>2 DEF Reading
  <2> HIDE DEF m
  <2>4. m \in ReportHeld
    BY <2>3 DEF ReportHeld
  <2>5. Knows(m, payments, reports, filings)
    <3>1. reports[r].status = "NONE"
      BY <2>1 DEF NoReport
    <3> QED BY <2>2, <2>3, <3>1 DEF Knows, Making
  <2>6. \A v \in Workers : Apart(req[v], m) /\ Apart(m, req[v])
    BY <2>1, <2>3, IdleReports DEF Apart, Making
  <2> QED BY <2>1, <2>4, <2>5, <2>6, ReportGoes
<1>2. CASE ReadScreenings(w)
  <2> DEFINE snapshot == [p \in Period |-> [payments[p] EXCEPT !.status = req[w].status[p]]]
             suspicious == {p \in Period : Suspicious(snapshot[p])}
             total == Cardinality(suspicious)
             m == [at |-> "store report", report |-> req[w].report, due |-> req[w].due,
                   listed |-> suspicious, flagged |-> total]
  <2>1. /\ req[w] \in Reading /\ req[w].at = "read screenings" /\ req[w] # Idle
        /\ Knows(req[w], payments, reports, filings)
    BY <1>2, ReportRequest DEF ReadScreenings, At
  <2>2. Goto(w, m) /\ UNCHANGED <<mined, deep, trail, payments, reports, filings>>
    BY <1>2 DEF ReadScreenings, reportVars
  <2>3. ASSUME NEW p \in req[w].due PROVE p \in suspicious
    <3>1. p \in Period
      BY <2>1 DEF Reading
    <3>2. req[w].status[p] \in {"FLAGGED", "REJECTED"} \/ FailedScreening(payments[p])
      BY <2>1 DEF Knows
    <3>3. payments[p] \in PaymentRow
      BY <1>0, <3>1
    <3>4. snapshot[p] = [payments[p] EXCEPT !.status = req[w].status[p]]
      BY <3>1
    <3>5. snapshot[p].status = req[w].status[p] /\ snapshot[p].screenings = payments[p].screenings
      BY <3>3, <3>4 DEF PaymentRow
    <3> HIDE DEF snapshot
    <3>6. Suspicious(snapshot[p])
      BY <3>2, <3>5 DEF Suspicious, FailedScreening
    <3> QED BY <3>1, <3>6
  <2>4. suspicious \in SUBSET Period /\ req[w].due \subseteq suspicious
    BY <2>3
  <2> HIDE DEF suspicious
  <2>5. total \in Totals
    BY <2>4 DEF Totals
  <2> HIDE DEF total
  <2>6. /\ m \in Storing /\ m.at = "store report" /\ m.report = req[w].report
        /\ m.due = req[w].due /\ m.listed = suspicious /\ m.flagged = total
    BY <2>1, <2>4, <2>5 DEF Reading, Storing
  <2> HIDE DEF m
  <2>7. m \in ReportHeld /\ m # Idle
    BY <2>6, IdleRests DEF ReportHeld
  <2>8. Knows(m, payments, reports, filings)
    BY <2>1, <2>4, <2>6 DEF Knows, Making, total
  <2>9. \A v \in Workers \ {w} : Apart(req[v], m) /\ Apart(m, req[v])
    BY <2>1, <2>6, <2>7, SameReport DEF Making
  <2> QED BY <2>2, <2>7, <2>8, <2>9, ReportGoes
<1> QED BY <1>1, <1>2

LEMMA ReportStored ==
    ASSUME ReportInv, NEW w \in Workers, StoreReport(w)
    PROVE  ReportInv'
<1> DEFINE q == req[w].report
           row == [status |-> "GENERATED", listed |-> req[w].listed,
                   flagged |-> req[w].flagged, ref |-> "none"]
           e == [event |-> "generated", report |-> q]
           m == [req[w] EXCEPT !.at = "stored"]
<1>1. /\ req[w] \in Storing /\ req[w].at = "store report" /\ req[w] # Idle
      /\ Knows(req[w], payments, reports, filings)
  BY ReportRequest DEF StoreReport, At
<1>2. /\ reports' = [reports EXCEPT ![q] = row] /\ trail' = trail \cup {e} /\ Goto(w, m)
      /\ UNCHANGED <<mined, deep, payments, filings>>
  BY DEF StoreReport
<1>3. /\ m \in Storing /\ m.at = "stored" /\ m.report = q /\ m.listed = req[w].listed
      /\ m.due = req[w].due /\ m.flagged = req[w].flagged
  BY <1>1 DEF Storing
<1>4. /\ row \in ReportRow /\ row.status = "GENERATED" /\ row.listed = req[w].listed
  BY <1>1 DEF Storing, ReportRow
<1>5. e.event = "generated" /\ q \in ReportIds
  BY <1>1 DEF Storing
<1> HIDE DEF q, row, e, m
<1>6. m \in ReportHeld /\ m # Idle
  BY <1>3, IdleRests DEF ReportHeld
<1>7. /\ req' \in [Workers -> ReportHeld] /\ req'[w] = m
      /\ \A v \in Workers \ {w} : req'[v] = req[v]
  BY <1>2, <1>6, OneGoes DEF ReportInv, ReportTypes
<1>8. /\ reports' \in [ReportIds -> ReportRow] /\ reports'[q] = row
      /\ \A x \in ReportIds \ {q} : reports'[x] = reports[x]
  BY <1>2, <1>4, <1>5 DEF ReportInv, ReportTypes
<1>9. ReportTypes' /\ OneFilingEach'
  <2>1. \A x \in trail' : x.event \in {"generated", "submitted"}
    BY <1>2, <1>5 DEF ReportInv, ReportTypes
  <2> QED BY <1>2, <1>7, <1>8, <2>1 DEF ReportInv, ReportTypes, OneFilingEach
<1>10. ASSUME NEW x \in ReportIds PROVE Filed(x)'
  <2>1. Entries(x)' = Entries(x)
    BY <1>2, <1>5 DEF Entries
  <2>2. Filed(x) /\ (x = q => reports[x].status = "NONE")
    BY <1>1 DEF ReportInv, Knows, Making, q
  <2>3. CASE x = q
    BY <1>4, <1>8, <2>1, <2>2, <2>3 DEF Filed
  <2>4. CASE x # q
    BY <1>2, <1>8, <2>1, <2>2, <2>4 DEF Filed
  <2> QED BY <2>3, <2>4
<1>11. \A v \in Workers \ {w} : Apart(req[v], m) /\ Apart(m, req[v])
  BY <1>1, <1>3, <1>6, SameReport DEF Making, q
<1>12. \A u, v \in Workers : u # v => Apart(req'[u], req'[v])
  BY <1>7, <1>11 DEF ReportInv
<1>13. ASSUME NEW v \in Workers PROVE Knows(req'[v], payments', reports', filings')
  <2>1. CASE v = w
    BY <1>1, <1>2, <1>3, <1>4, <1>7, <1>8, <2>1 DEF Knows, Making
  <2>2. CASE v # w
    <3>1. Knows(req[v], payments, reports, filings) /\ Apart(req[w], req[v])
      BY <2>2 DEF ReportInv
    <3>2. req[v] # Idle => req[v].report # q
      BY <1>1, <3>1 DEF Apart, Making, q
    <3>3. req[v].at \in {"read screenings", "store report", "stored"} =>
              req[v] # Idle /\ req[v].report \in ReportIds
      BY ReportRequest DEF Reading, Storing
    <3>4. req[v].at \in {"read screenings", "store report", "stored"} =>
              reports'[req[v].report] = reports[req[v].report]
      BY <1>8, <3>2, <3>3
    <3> QED BY <1>2, <1>7, <2>2, <3>1, <3>4 DEF Knows, Making
  <2> QED BY <2>1, <2>2
<1> QED BY <1>9, <1>10, <1>12, <1>13 DEF ReportInv

\* The gateway holds one filing under a key.
LEMMA GatewaySteps ==
    ASSUME ReportInv, GatewayAcknowledges \/ \E w \in Workers : GatewayFiles(w)
    PROVE  ReportInv'
<1>0. /\ payments \in [Period -> PaymentRow] /\ DOMAIN filings \subseteq References
      /\ \A ref \in DOMAIN filings : filings[ref] \in FilingRow
  BY DEF ReportInv, ReportTypes
<1>1. CASE GatewayAcknowledges
  <2>1. PICK ref \in DOMAIN filings : filings' = [filings EXCEPT ![ref].status = "ACKNOWLEDGED"]
    BY <1>1 DEF GatewayAcknowledges
  <2> DEFINE row == [filings[ref] EXCEPT !.status = "ACKNOWLEDGED"]
  <2>2. filings' = [filings EXCEPT ![ref] = row]
    BY <2>1
  <2>3. row \in FilingRow /\ row.report = filings[ref].report /\ row.key = filings[ref].key
    BY <1>0 DEF FilingRow, FilingStates
  <2> HIDE DEF row
  <2>4. /\ DOMAIN filings' = DOMAIN filings
        /\ \A x \in DOMAIN filings : filings'[x] = IF x = ref THEN row ELSE filings[x]
    BY <2>2
  <2>5. \A x \in DOMAIN filings : /\ filings'[x] \in FilingRow
                                  /\ filings'[x].report = filings[x].report
                                  /\ filings'[x].key = filings[x].key
    BY <1>0, <2>3, <2>4
  <2>6. OneFilingEach'
    BY <2>4, <2>5 DEF ReportInv, OneFilingEach
  <2> QED BY <1>0, <1>1, <2>4, <2>5, <2>6, ReportMoves DEF GatewayAcknowledges
<1>2. ASSUME NEW w \in Workers, GatewayFiles(w) PROVE ReportInv'
  <2> DEFINE q == req[w].report
  <2>1. q \in ReportIds
    BY <1>2, ReportRequest DEF GatewayFiles, At, Filing
  <2>2. /\ \A x \in DOMAIN filings : filings[x].key # q
        /\ UNCHANGED <<shared, payments, reports>>
    BY <1>2 DEF GatewayFiles, IdempotencyKey
  <2>3. PICK ref \in References \ DOMAIN filings, s \in FilingStates :
            filings' = [x \in DOMAIN filings \cup {ref} |->
                          IF x = ref THEN [report |-> q, key |-> q, status |-> s] ELSE filings[x]]
    BY <1>2 DEF GatewayFiles, IdempotencyKey, FilingStates
  <2> DEFINE row == [report |-> q, key |-> q, status |-> s]
  <2>4. row \in FilingRow /\ row.report = q /\ row.key = q
    BY <2>1 DEF FilingRow
  <2>5. /\ DOMAIN filings' = DOMAIN filings \cup {ref} /\ filings'[ref] = row
        /\ \A x \in DOMAIN filings : filings'[x] = filings[x]
    BY <2>3
  <2> HIDE DEF row, q
  <2>6. OneFilingEach'
    BY <2>2, <2>4, <2>5 DEF ReportInv, OneFilingEach
  <2>7. \A x \in DOMAIN filings' : filings'[x] \in FilingRow
    BY <1>0, <2>4, <2>5
  <2> QED BY <1>0, <2>2, <2>5, <2>6, <2>7, ReportMoves
<1> QED BY <1>1, <1>2

LEMMA FilingSteps ==
    ASSUME ReportInv, NEW w \in Workers,
           GatewayAnswers(w) \/ \E r \in ReportIds : ReadReport(w, r)
    PROVE  ReportInv'
<1>1. ASSUME NEW r \in ReportIds, ReadReport(w, r) PROVE ReportInv'
  <2> DEFINE m == [at |-> "file", report |-> r]
  <2>1. /\ reports[r].status = "GENERATED" /\ Goto(w, m)
        /\ UNCHANGED <<mined, deep, trail, payments, reports, filings>>
    BY <1>1 DEF ReadReport, reportVars
  <2>2. m \in Filing /\ m.at = "file" /\ m.report = r
    BY DEF Filing
  <2> HIDE DEF m
  <2>3. m \in ReportHeld /\ Knows(m, payments, reports, filings)
    BY <2>2 DEF ReportHeld, Knows, Making
  <2>4. \A v \in Workers \ {w} : Apart(req[v], m) /\ Apart(m, req[v])
    BY <2>1, <2>2, ReportRequest DEF Apart, Making, Knows
  <2> QED BY <2>1, <2>3, <2>4, ReportGoes
<1>2. CASE GatewayAnswers(w)
  <2>1. PICK ref \in DOMAIN filings :
            /\ filings[ref].key = req[w].report
            /\ Goto(w, [at |-> "store receipt", report |-> req[w].report, ref |-> ref,
                        status |-> filings[ref].status])
    BY <1>2 DEF GatewayAnswers, IdempotencyKey
  <2>2. req[w] \in Filing /\ req[w] # Idle /\ req[w].at = "file"
    BY <1>2, ReportRequest DEF GatewayAnswers, At
  <2>3. filings[ref] \in FilingRow /\ ref \in References /\ filings[ref].report = req[w].report
    BY <2>1 DEF ReportInv, ReportTypes, OneFilingEach
  <2> DEFINE m == [at |-> "store receipt", report |-> req[w].report, ref |-> ref,
                   status |-> filings[ref].status]
  <2>4. Goto(w, m)
    BY <2>1
  <2>5. m \in Receiving /\ m.at = "store receipt" /\ m.report = req[w].report /\ m.ref = ref
    BY <2>2, <2>3 DEF Filing, FilingRow, Receiving
  <2> HIDE DEF m
  <2>6. m \in ReportHeld /\ m # Idle /\ Knows(m, payments, reports, filings)
    BY <2>3, <2>5, IdleRests DEF ReportHeld, Knows, Making
  <2>7. \A v \in Workers \ {w} : Apart(req[v], m) /\ Apart(m, req[v])
    BY <2>2, <2>5, <2>6, SameReport DEF Making
  <2>8. UNCHANGED <<mined, deep, trail, payments, reports, filings>>
    BY <1>2 DEF GatewayAnswers, reportVars
  <2> QED BY <2>4, <2>6, <2>7, <2>8, ReportGoes
<1> QED BY <1>1, <1>2

\* The first receipt stored is the only one.
LEMMA ReceiptStored ==
    ASSUME ReportInv, NEW w \in Workers, StoreReceipt(w)
    PROVE  ReportInv'
<1> DEFINE q == req[w].report
           s == req[w].status
           ref == req[w].ref
           row == [reports[q] EXCEPT !.status = s, !.ref = ref]
           e == [event |-> "submitted", report |-> q, ref |-> ref, status |-> s]
<1>1. /\ req[w] \in Receiving /\ req[w].at = "store receipt"
      /\ Knows(req[w], payments, reports, filings)
  BY ReportRequest DEF StoreReceipt, At
<1>2. /\ reports[q].status = "GENERATED" /\ trail' = trail \cup {e} /\ Goto(w, Idle)
      /\ UNCHANGED <<mined, deep, payments, filings>>
  BY DEF StoreReceipt, StillGenerated, Done
<1>3. reports' = [reports EXCEPT ![q].status = s, ![q].ref = ref]
  BY DEF StoreReceipt
<1>4. q \in ReportIds /\ s \in FilingStates /\ ref \in References
  BY <1>1 DEF Receiving
<1>5. ref \in DOMAIN filings /\ filings[ref].report = q
  BY <1>1 DEF Knows
<1> HIDE DEF q, s, ref
<1>6. e.event = "submitted" /\ e.report = q
  OBVIOUS
<1>7. reports \in [ReportIds -> ReportRow] /\ reports[q] \in ReportRow
  BY <1>4 DEF ReportInv, ReportTypes
<1>8. reports' = [reports EXCEPT ![q] = row]
  BY <1>3, <1>4, <1>7
<1>9. /\ row \in ReportRow /\ row.status = s /\ row.ref = ref /\ row.listed = reports[q].listed
  BY <1>4, <1>7 DEF ReportRow
<1> HIDE DEF row
<1>10. /\ reports' \in [ReportIds -> ReportRow] /\ reports'[q] = row
       /\ \A x \in ReportIds \ {q} : reports'[x] = reports[x]
  BY <1>4, <1>7, <1>8, <1>9
<1>11. /\ req' \in [Workers -> ReportHeld] /\ req'[w] = Idle
       /\ \A v \in Workers \ {w} : req'[v] = req[v]
  BY <1>2, IdleReports, OneGoes DEF ReportInv, ReportTypes
<1>12. ReportTypes' /\ OneFilingEach'
  BY <1>2, <1>10, <1>11 DEF ReportInv, ReportTypes, OneFilingEach
<1>13. ASSUME NEW x \in ReportIds PROVE Filed(x)'
  <2>1. Filed(x)
    BY DEF ReportInv
  <2>2. CASE x = q
    <3>1. Entries(x) = {}
      BY <1>2, <2>1, <2>2 DEF Filed
    <3>2. Entries(x)' = {e}
      BY <1>2, <1>6, <2>2, <3>1 DEF Entries
    <3>3. reports'[q].status = s /\ reports'[q].ref = ref /\ s \notin {"NONE", "GENERATED"}
      BY <1>4, <1>9, <1>10 DEF FilingStates
    <3>4. e = [event |-> "submitted", report |-> x, ref |-> reports'[x].ref,
               status |-> reports'[x].status]
      BY <2>2, <3>3
    <3>5. reports'[x].ref \in DOMAIN filings' /\ filings'[reports'[x].ref].report = x
      BY <1>2, <1>5, <2>2, <3>3
    <3>6. reports'[x].status \notin {"NONE", "GENERATED"}
      BY <2>2, <3>3
    <3> HIDE DEF e
    <3> QED BY <3>2, <3>4, <3>5, <3>6 DEF Filed
  <2>3. CASE x # q
    <3>1. Entries(x)' = Entries(x)
      BY <1>2, <1>6, <2>3 DEF Entries
    <3>2. reports'[x] = reports[x]
      BY <1>10, <2>3
    <3> QED BY <1>2, <2>1, <3>1, <3>2 DEF Filed
  <2> QED BY <2>2, <2>3
<1>14. \A u, v \in Workers : u # v => Apart(req'[u], req'[v])
  BY <1>11, IdleReports DEF ReportInv
<1>15. ASSUME NEW v \in Workers PROVE Knows(req'[v], payments', reports', filings')
  <2>1. CASE v = w
    BY <1>11, <2>1, IdleReports
  <2>2. CASE v # w
    <3>1. Knows(req[v], payments, reports, filings)
      BY DEF ReportInv
    <3>2. req[v].at \in {"read screenings", "store report", "stored"} => req[v].report \in ReportIds
      BY ReportRequest DEF Reading, Storing
    <3>3. /\ \A x \in ReportIds : reports'[x].listed = reports[x].listed
          /\ \A x \in ReportIds : reports[x].status = "NONE" => reports'[x] = reports[x]
      BY <1>2, <1>9, <1>10
    <3>4. /\ req[v].at = "stored" => reports'[req[v].report].listed = reports[req[v].report].listed
          /\ Making(req[v]) => reports'[req[v].report].status = "NONE"
      BY <3>1, <3>2, <3>3 DEF Making, Knows
    <3> QED BY <1>2, <1>11, <2>2, <3>1, <3>4 DEF Knows
  <2> QED BY <2>1, <2>2
<1> QED BY <1>12, <1>13, <1>14, <1>15 DEF ReportInv

LEMMA ReportStep == ReportInv /\ [ReportNext]_<<shared, reportVars>> => ReportInv'
<1> SUFFICES ASSUME ReportInv, [ReportNext]_<<shared, reportVars>> PROVE ReportInv'
  OBVIOUS
<1>1. CASE \E p \in Period : Screened(p) \/ Mirrored(p)
  BY <1>1, PaymentSteps
<1>2. CASE GatewayAcknowledges \/ \E w \in Workers : GatewayFiles(w)
  BY <1>2, GatewaySteps
<1>3. CASE \E w \in Workers : ReadScreenings(w) \/ \E r \in ReportIds : ReadPayments(w, r)
  BY <1>3, SnapshotSteps
<1>4. CASE \E w \in Workers : StoreReport(w)
  BY <1>4, ReportStored
<1>5. CASE \E w \in Workers : GatewayAnswers(w) \/ \E r \in ReportIds : ReadReport(w, r)
  BY <1>5, FilingSteps
<1>6. CASE \E w \in Workers : StoreReceipt(w)
  BY <1>6, ReceiptStored
<1>7. CASE RequestStep /\ UNCHANGED reportVars
  <2>1. \A w \in Workers : ~At(w, "audit")
    BY IdleRests DEF At, ReportInv, ReportTypes, ReportHeld, Reading, Storing, Filing, Receiving
  <2>2. PICK w \in Workers : Goto(w, Idle) /\ UNCHANGED <<mined, deep, trail>>
    BY <1>7, <2>1, IdleReports, OneFails DEF ReportInv, ReportTypes
  <2> QED BY <1>7, <2>2, IdleReports, ReportGoes DEF reportVars
<1>8. CASE UNCHANGED <<shared, reportVars>>
  BY <1>8, ReportMoves DEF reportVars, ReportInv, ReportTypes, OneFilingEach
<1> QED BY <1>1, <1>2, <1>3, <1>4, <1>5, <1>6, <1>7, <1>8 DEF ReportNext

LEMMA ReportProves == ReportInv => FiledOnce /\ SuspicionReported
<1> SUFFICES ASSUME ReportInv PROVE FiledOnce /\ SuspicionReported
  OBVIOUS
<1>1. ASSUME NEW r \in ReportIds
      PROVE  LET ours == {ref \in DOMAIN filings : filings[ref].report = r}
                 entries == {e \in trail : e.event = "submitted" /\ e.report = r}
             IN /\ Cardinality(ours) <= 1
                /\ IF reports[r].status \in {"NONE", "GENERATED"} THEN entries = {}
                   ELSE \E ref \in ours :
                           /\ reports[r].ref = ref
                           /\ entries = {[event |-> "submitted", report |-> r, ref |-> ref,
                                          status |-> reports[r].status]}
  <2> DEFINE ours == {ref \in DOMAIN filings : filings[ref].report = r}
  <2>1. \A a, b \in ours : a = b
    BY DEF ReportInv, OneFilingEach
  <2>2. Filed(r)
    BY DEF ReportInv
  <2>3. reports[r].status \notin {"NONE", "GENERATED"} => reports[r].ref \in ours
    BY <2>2 DEF Filed
  <2> HIDE DEF ours
  <2>4. Cardinality(ours) <= 1
    <3>1. CASE ours = {}
      BY <3>1, FS_EmptySet
    <3>2. CASE ours # {}
      <4>1. PICK x \in ours : ours = {x}
        BY <2>1, <3>2
      <4> QED BY <4>1, FS_Singleton
    <3> QED BY <3>1, <3>2
  <2> QED BY <2>2, <2>3, <2>4 DEF Filed, Entries, ours
<1>2. SuspicionReported
  BY ReportRequest DEF SuspicionReported, At, Knows
<1> QED BY <1>1, <1>2 DEF FiledOnce

----------------------------------------------------------------------------
(***************************************************************************)
(* Views of the chain (lib/strict-block-rpc.ts).  As long as its block is  *)
(* canonical, what a view has read is of that block.                       *)
(***************************************************************************)
Calls == SUBSET {"details", "active", "role", "code", "isValidSignature", "tier", "volumes", "limits",
                 "signers", "thresholds", "logs", "proposals", "ids", "budgets", "fee", "pairs",
                 "rates", "portfolio", "positions", "margins"}
Viewing == [at : {"view", "shown"}, block : Nat, hash : Nat, calls : Seq(Calls),
            hashAtExit : BOOLEAN, from : SUBSET Nat, replaced : BOOLEAN]
ViewHeld == {Idle} \cup Viewing

ViewTypes ==
    /\ req \in [Workers -> ViewHeld] /\ trail = {} /\ blocks \in Nat
    /\ mined \in Seq(Nat) /\ deep \in Nat
    /\ \A n \in 1..Len(mined) : mined[n] <= blocks

\* The view's block is still that of its number.
StillThere(r, chain) == r.block \in 1..Len(chain) /\ chain[r.block] = r.hash

\* A block that was replaced never returns; so where it still stands, whatever
\* was called until now has been answered from it.
Seen(r, chain, made) ==
    /\ r \in Viewing =>
          /\ r.hash <= made /\ r.block >= 1
          /\ r.from = {} => r.at = "view" /\ r.calls # <<>>
          /\ StillThere(r, chain) => r.from \subseteq {r.hash}
          /\ ~r.replaced => StillThere(r, chain)
    /\ r.at = "shown" /\ (r.hashAtExit \/ ~r.replaced) => r.from = {r.hash}

ViewInv == ViewTypes /\ \A w \in Workers : Seen(req[w], mined, blocks)

LEMMA IdleViews == /\ Idle \in ViewHeld /\ Idle \notin Viewing
                   /\ \A chain, made : Seen(Idle, chain, made)
BY IdleRests DEF ViewHeld, Viewing, Seen

LEMMA ViewStart == RequestsInit /\ ViewInit => ViewInv
<1> SUFFICES ASSUME RequestsInit, ViewInit PROVE ViewInv
  OBVIOUS
<1>1. ViewTypes
  BY IdleViews DEF RequestsInit, ViewInit, ViewTypes
<1> QED BY <1>1, IdleViews DEF RequestsInit, ViewInv

LEMMA ViewRequest ==
    ASSUME ViewInv, NEW w \in Workers
    PROVE  /\ Seen(req[w], mined, blocks)
           /\ req[w] = Idle \/ req[w] \in Viewing
           /\ req[w].at \in {"view", "shown"} => req[w] \in Viewing
BY IdleRests DEF ViewInv, ViewTypes, ViewHeld

LEMMA ViewShapes ==
    ASSUME NEW view \in Views
    PROVE  view.calls \in Seq(Calls) /\ view.calls # <<>> /\ view.hashAtExit \in BOOLEAN
<1>1. ASSUME NEW a \in Calls, NEW b \in Calls, NEW c \in Calls, NEW exit \in BOOLEAN,
             \/ view = [calls |-> <<a>>, hashAtExit |-> exit]
             \/ view = [calls |-> <<a, b>>, hashAtExit |-> exit]
             \/ view = [calls |-> <<a, b, c>>, hashAtExit |-> exit]
      PROVE  view.calls \in Seq(Calls) /\ view.calls # <<>> /\ view.hashAtExit \in BOOLEAN
  <2>1. /\ <<a>> \in Seq(Calls) /\ <<a>> # <<>>
        /\ <<a, b>> \in Seq(Calls) /\ <<a, b>> # <<>>
        /\ <<a, b, c>> \in Seq(Calls) /\ <<a, b, c>> # <<>>
    OBVIOUS
  <2>2. view.calls \in {<<a>>, <<a, b>>, <<a, b, c>>} /\ view.hashAtExit = exit
    BY <1>1
  <2> QED BY <2>1, <2>2
<1>2. TRUE \in BOOLEAN /\ FALSE \in BOOLEAN
  OBVIOUS
<1>3. CASE view = RegistryAuthorization
  <2>1. {"details", "active", "role"} \in Calls
    BY DEF Calls
  <2> HIDE DEF Calls
  <2> QED BY <1>1, <1>2, <1>3, <2>1 DEF RegistryAuthorization
<1>4. CASE view = WalletSignature
  <2>1. {"code"} \in Calls /\ {"isValidSignature"} \in Calls
    BY DEF Calls
  <2> HIDE DEF Calls
  <2> QED BY <1>1, <1>2, <1>4, <2>1 DEF WalletSignature
<1>5. CASE view = OnChainLimits
  <2>1. {"tier"} \in Calls /\ {"volumes", "limits"} \in Calls
    BY DEF Calls
  <2> HIDE DEF Calls
  <2> QED BY <1>1, <1>2, <1>5, <2>1 DEF OnChainLimits
<1>6. CASE view = TreasuryOverview
  <2>1. {"signers", "thresholds"} \in Calls /\ {"logs"} \in Calls /\ {"proposals"} \in Calls
    BY DEF Calls
  <2> HIDE DEF Calls
  <2> QED BY <1>1, <1>2, <1>6, <2>1 DEF TreasuryOverview
<1>7. CASE view = ProposalList
  <2>1. {"logs"} \in Calls /\ {"proposals"} \in Calls
    BY DEF Calls
  <2> HIDE DEF Calls
  <2> QED BY <1>1, <1>2, <1>7, <2>1 DEF ProposalList
<1>8. CASE view = BudgetList
  <2>1. {"ids"} \in Calls /\ {"budgets"} \in Calls
    BY DEF Calls
  <2> HIDE DEF Calls
  <2> QED BY <1>1, <1>2, <1>8, <2>1 DEF BudgetList
<1>9. CASE view = FXPairs
  <2>1. {"ids", "fee"} \in Calls /\ {"pairs"} \in Calls /\ {"rates"} \in Calls
    BY DEF Calls
  <2> HIDE DEF Calls
  <2> QED BY <1>1, <1>2, <1>9, <2>1 DEF FXPairs
<1>10. CASE view = HedgerPositions
  <2>1. {"ids", "portfolio"} \in Calls /\ {"positions"} \in Calls /\ {"margins"} \in Calls
    BY DEF Calls
  <2> HIDE DEF Calls
  <2> QED BY <1>1, <1>2, <1>10, <2>1 DEF HedgerPositions
<1> QED BY <1>3, <1>4, <1>5, <1>6, <1>7, <1>8, <1>9, <1>10 DEF Views

\* A view goes on; the chain stays, or only gets confirmations.
LEMMA ViewGoes ==
    ASSUME ViewInv, NEW w \in Workers, NEW r \in ViewHeld, Seen(r, mined, blocks), Goto(w, r),
           UNCHANGED <<mined, deep, trail, blocks>>
    PROVE  ViewInv'
<1>1. req' \in [Workers -> ViewHeld] /\ \A v \in Workers : req'[v] \in {r, req[v]}
  BY OneGoes DEF ViewInv, ViewTypes
<1>2. ViewTypes'
  BY <1>1 DEF ViewInv, ViewTypes
<1>3. \A v \in Workers : Seen(req'[v], mined', blocks')
  BY <1>1 DEF ViewInv
<1> QED BY <1>2, <1>3 DEF ViewInv

LEMMA BlockMade ==
    ASSUME ViewInv, NewBlock
    PROVE  ViewInv'
<1>1. /\ mined' = Append(mined, blocks + 1) /\ blocks' = blocks + 1
      /\ UNCHANGED <<req, deep, trail>>
  BY DEF NewBlock, Mine
<1>2. /\ mined \in Seq(Nat) /\ blocks \in Nat /\ Len(mined) \in Nat
      /\ \A n \in 1..Len(mined) : mined[n] <= blocks /\ mined[n] \in Nat
  BY ElementOfSeq DEF ViewInv, ViewTypes
<1>3. /\ mined' \in Seq(Nat) /\ Len(mined') = Len(mined) + 1
      /\ \A n \in 1..Len(mined) : mined'[n] = mined[n]
      /\ mined'[Len(mined) + 1] = blocks + 1
  BY <1>1, <1>2, AppendProperties
<1>4. ViewTypes'
  <2>1. ASSUME NEW n \in 1..(Len(mined) + 1) PROVE mined'[n] <= blocks + 1
    <3>1. n \in 1..Len(mined) \/ n = Len(mined) + 1
      BY <1>2
    <3> QED BY <1>2, <1>3, <3>1
  <2> QED BY <1>1, <1>2, <1>3, <2>1 DEF ViewInv, ViewTypes
<1>5. ASSUME NEW w \in Workers PROVE Seen(req'[w], mined', blocks')
  <2> DEFINE r == req[w]
  <2>1. Seen(r, mined, blocks) /\ (r = Idle \/ r \in Viewing)
    BY ViewRequest
  <2>0. req'[w] = r
    BY <1>1
  <2> HIDE DEF r
  <2>2. CASE r = Idle
    BY <2>0, <2>2, IdleViews
  <2>3. CASE r \in Viewing
    <3>1. r.hash \in Nat /\ r.block \in Nat /\ r.hash <= blocks
      BY <2>1, <2>3 DEF Viewing, Seen
    <3>2. StillThere(r, mined') <=> StillThere(r, mined)
      <4>1. StillThere(r, mined) => StillThere(r, mined')
        BY <1>2, <1>3 DEF StillThere
      <4>2. StillThere(r, mined') => r.block \in 1..Len(mined)
        <5>1. SUFFICES ASSUME r.block \in 1..(Len(mined) + 1), mined'[r.block] = r.hash
                       PROVE  r.block \in 1..Len(mined)
          BY <1>3 DEF StillThere
        <5>2. r.block # Len(mined) + 1
          BY <1>2, <1>3, <3>1, <5>1
        <5> QED BY <1>2, <5>1, <5>2
      <4>3. StillThere(r, mined') => StillThere(r, mined)
        BY <1>3, <4>2 DEF StillThere
      <4> QED BY <4>1, <4>3
    <3>3. r.hash <= blocks'
      BY <1>1, <1>2, <3>1
    <3>4. Seen(r, mined', blocks')
      BY <2>1, <2>3, <3>2, <3>3 DEF Seen
    <3> QED BY <2>0, <3>4
  <2> QED BY <2>1, <2>2, <2>3
<1> QED BY <1>4, <1>5 DEF ViewInv

LEMMA BlocksReplaced ==
    ASSUME ViewInv, Replace
    PROVE  ViewInv'
<1>1. /\ req' = [w \in Workers |->
                   IF req[w] = Idle THEN Idle ELSE [req[w] EXCEPT !.replaced = TRUE]]
      /\ UNCHANGED <<deep, trail, blocks>>
  BY DEF Replace
<1>2. /\ mined \in Seq(Nat) /\ blocks \in Nat /\ Len(mined) \in Nat /\ deep \in Nat /\ trail = {}
      /\ \A n \in 1..Len(mined) : mined[n] <= blocks /\ mined[n] \in Nat
  BY ElementOfSeq DEF ViewInv, ViewTypes
<1>3. PICK keep \in deep..(Len(mined) - 1) : mined' = SubSeq(mined, 1, keep)
  BY DEF Replace, DropUnconfirmed
<1>4. /\ mined' \in Seq(Nat) /\ Len(mined') = keep /\ keep \in Nat /\ keep <= Len(mined)
      /\ \A n \in 1..keep : mined'[n] = mined[n]
  BY <1>2, <1>3, SubSeqProperties
<1>5. ASSUME NEW r \in Viewing, Seen(r, mined, blocks)
      PROVE  [r EXCEPT !.replaced = TRUE] \in Viewing
             /\ Seen([r EXCEPT !.replaced = TRUE], mined', blocks')
  <2> DEFINE m == [r EXCEPT !.replaced = TRUE]
  <2>1. /\ m \in Viewing /\ m.replaced /\ m.at = r.at /\ m.block = r.block /\ m.hash = r.hash
        /\ m.calls = r.calls /\ m.hashAtExit = r.hashAtExit /\ m.from = r.from
    BY DEF Viewing
  <2> HIDE DEF m
  <2>2. StillThere(m, mined') => StillThere(r, mined)
    BY <1>2, <1>4, <2>1 DEF StillThere
  <2>3. Seen(m, mined', blocks')
    BY <1>1, <1>5, <2>1, <2>2 DEF Seen
  <2> QED BY <2>1, <2>3 DEF m
<1>6. ASSUME NEW w \in Workers PROVE req'[w] \in ViewHeld /\ Seen(req'[w], mined', blocks')
  <2>1. CASE req[w] = Idle
    BY <1>1, <2>1, IdleViews
  <2>2. CASE req[w] # Idle
    <3>1. req[w] \in Viewing /\ Seen(req[w], mined, blocks)
      BY <2>2, ViewRequest
    <3>2. req'[w] = [req[w] EXCEPT !.replaced = TRUE]
      BY <1>1, <2>2
    <3> QED BY <1>5, <3>1, <3>2 DEF ViewHeld
  <2> QED BY <2>1, <2>2
<1>7. req' \in [Workers -> ViewHeld]
  BY <1>1, <1>6
<1>8. \A n \in 1..Len(mined') : mined'[n] <= blocks'
  BY <1>1, <1>2, <1>4
<1>9. ViewTypes'
  BY <1>1, <1>2, <1>4, <1>7, <1>8 DEF ViewTypes
<1> QED BY <1>6, <1>9 DEF ViewInv

LEMMA ViewSteps ==
    ASSUME ViewInv, NEW w \in Workers, OpenView(w) \/ Answer(w) \/ \E c \in Head(req[w].calls) : Call(w, c)
    PROVE  ViewInv'
<1>0. /\ mined \in Seq(Nat) /\ blocks \in Nat /\ Len(mined) \in Nat
      /\ \A n \in 1..Len(mined) : mined[n] <= blocks /\ mined[n] \in Nat
  BY ElementOfSeq DEF ViewInv, ViewTypes
<1>1. CASE OpenView(w)
  <2>1. PICK view \in Views :
            Goto(w, [at |-> "view", block |-> Len(mined), hash |-> Hash(Len(mined)),
                     calls |-> view.calls, hashAtExit |-> view.hashAtExit,
                     from |-> {}, replaced |-> FALSE])
    BY <1>1 DEF OpenView
  <2> DEFINE b == Len(mined)
             r == [at |-> "view", block |-> b, hash |-> mined[b], calls |-> view.calls,
                   hashAtExit |-> view.hashAtExit, from |-> {}, replaced |-> FALSE]
  <2>2. Goto(w, r) /\ UNCHANGED <<mined, deep, trail, blocks>>
    BY <1>1, <2>1 DEF OpenView, Hash
  <2>3. b \in 1..Len(mined) /\ mined[b] \in Nat /\ mined[b] <= blocks
    <3>1. b # 0
      BY <1>0, <1>1, EmptySeq DEF OpenView
    <3>2. b \in 1..Len(mined)
      BY <1>0, <3>1
    <3> QED BY <1>0, <3>2
  <2> HIDE DEF b
  <2>4. /\ r \in Viewing /\ r.at = "view" /\ r.block = b /\ r.hash = mined[b] /\ r.from = {}
        /\ r.calls # <<>>
    BY <2>3, ViewShapes DEF Viewing
  <2> HIDE DEF r
  <2>5. Seen(r, mined, blocks)
    BY <2>3, <2>4 DEF Seen, StillThere
  <2> QED BY <2>2, <2>4, <2>5, ViewGoes DEF ViewHeld
<1>2. CASE Answer(w)
  <2> DEFINE r == [req[w] EXCEPT !.at = "shown"]
  <2>1. req[w] \in Viewing /\ Seen(req[w], mined, blocks)
    BY <1>2, ViewRequest DEF Answer, At
  <2>2. /\ req[w].calls = <<>> /\ Goto(w, r) /\ UNCHANGED <<mined, deep, trail, blocks>>
        /\ req[w].hashAtExit => StillThere(req[w], mined)
    BY <1>2 DEF Answer, StillCanonical, StillThere, Receipts, Hash
  <2>3. /\ r \in Viewing /\ r.at = "shown" /\ r.block = req[w].block /\ r.hash = req[w].hash
        /\ r.calls = req[w].calls /\ r.hashAtExit = req[w].hashAtExit /\ r.from = req[w].from
        /\ r.replaced = req[w].replaced
    BY <2>1 DEF Viewing
  <2> HIDE DEF r
  <2>4. r.from # {}
    BY <2>1, <2>2, <2>3 DEF Seen
  <2>5. StillThere(r, mined) <=> StillThere(req[w], mined)
    BY <2>3 DEF StillThere
  <2>6. (r.hashAtExit \/ ~r.replaced) => r.from = {r.hash}
    <3>1. SUFFICES ASSUME r.hashAtExit \/ ~r.replaced PROVE r.from \subseteq {r.hash}
      BY <2>4
    <3>2. StillThere(req[w], mined)
      BY <2>1, <2>2, <2>3, <3>1 DEF Seen
    <3> QED BY <2>1, <2>3, <3>2 DEF Seen
  <2>7. Seen(r, mined, blocks)
    BY <2>1, <2>3, <2>4, <2>5, <2>6 DEF Seen
  <2> QED BY <2>2, <2>3, <2>7, ViewGoes DEF ViewHeld
<1>3. ASSUME NEW c \in Head(req[w].calls), Call(w, c) PROVE ViewInv'
  <2> DEFINE rest == Head(req[w].calls) \ {c}
             left == IF rest = {} THEN Tail(req[w].calls) ELSE <<rest>> \o Tail(req[w].calls)
             told == req[w].from \cup {mined[req[w].block]}
             r == [req[w] EXCEPT !.calls = left, !.from = told]
  <2>1. req[w] \in Viewing /\ Seen(req[w], mined, blocks) /\ req[w].at = "view"
    BY <1>3, ViewRequest DEF Call, At
  <2>2. /\ req[w].calls # <<>> /\ req[w].block \in 1..Len(mined) /\ Goto(w, r)
        /\ UNCHANGED <<mined, deep, trail, blocks>>
    BY <1>3 DEF Call, PinnedBlock, Hash, Receipts
  <2>3. left \in Seq(Calls)
    <3>1. req[w].calls \in Seq(Calls)
      BY <2>1 DEF Viewing
    <3>2. Head(req[w].calls) \in Calls /\ Tail(req[w].calls) \in Seq(Calls)
      BY <2>2, <3>1, HeadTailProperties
    <3>3. rest \in Calls
      BY <3>2 DEF Calls
    <3>4. <<rest>> \in Seq(Calls)
      BY <3>3
    <3>5. <<rest>> \o Tail(req[w].calls) \in Seq(Calls)
      BY <3>2, <3>4, ConcatProperties
    <3> QED BY <3>2, <3>5
  <2>4. told \in SUBSET Nat /\ told # {} /\ mined[req[w].block] \in Nat
    BY <1>0, <2>1, <2>2 DEF Viewing
  <2>5. StillThere(req[w], mined) => told \subseteq {req[w].hash}
    BY <2>1 DEF Seen, StillThere
  <2> HIDE DEF left, told
  <2>6. /\ r \in Viewing /\ r.at = "view" /\ r.block = req[w].block /\ r.hash = req[w].hash
        /\ r.hashAtExit = req[w].hashAtExit /\ r.from = told
        /\ r.replaced = req[w].replaced
    BY <2>1, <2>3, <2>4 DEF Viewing
  <2> HIDE DEF r
  <2>7. StillThere(r, mined) <=> StillThere(req[w], mined)
    BY <2>6 DEF StillThere
  <2>8. Seen(r, mined, blocks)
    BY <2>1, <2>4, <2>5, <2>6, <2>7 DEF Seen
  <2> QED BY <2>2, <2>6, <2>8, ViewGoes DEF ViewHeld
<1> QED BY <1>1, <1>2, <1>3

LEMMA ViewStep == ViewInv /\ [ViewNext]_<<shared, blocks>> => ViewInv'
<1> SUFFICES ASSUME ViewInv, [ViewNext]_<<shared, blocks>> PROVE ViewInv'
  OBVIOUS
<1>1. CASE NewBlock \/ Replace
  BY <1>1, BlockMade, BlocksReplaced
<1>2. CASE \E w \in Workers : OpenView(w) \/ Answer(w) \/ \E c \in Head(req[w].calls) : Call(w, c)
  BY <1>2, ViewSteps
<1>3. CASE RequestStep /\ UNCHANGED blocks
  <2>1. \A w \in Workers : ~At(w, "audit")
    BY IdleRests DEF At, ViewInv, ViewTypes, ViewHeld, Viewing
  <2>2. PICK w \in Workers : Goto(w, Idle) /\ UNCHANGED <<mined, deep, trail>>
    BY <1>3, <2>1, IdleViews, OneFails DEF ViewInv, ViewTypes
  <2> QED BY <1>3, <2>2, IdleViews, ViewGoes
<1>4. CASE Confirm /\ UNCHANGED blocks
  BY <1>4 DEF Confirm, ViewInv, ViewTypes
<1>5. CASE UNCHANGED <<shared, blocks>>
  BY <1>5 DEF shared, ViewInv, ViewTypes
<1> QED BY <1>1, <1>2, <1>3, <1>4, <1>5 DEF ViewNext

LEMMA ViewProves == ViewInv => OneBlockPerView
BY DEF ViewInv, Seen, OneBlockPerView, At

----------------------------------------------------------------------------
(***************************************************************************)
(* The page's socket (useWebSocket.ts).  Only the current socket may still *)
(* talk, and it has asked for what is subscribed.                          *)
(***************************************************************************)
LineStates == {"none", "connecting", "open", "closing"}

ClientTypes ==
    /\ current \in Lines \cup {NoLine}
    /\ line \in [Lines -> LineStates]
    /\ asked \in [Lines -> SUBSET Channels]
    /\ subscribers \in [Channels -> SUBSET Callbacks]

\* What a socket's page was told, and what the server was told by it.
OnlyCurrentTalks == \A s \in Lines : line[s] \in {"connecting", "open"} => s = current
AsksForSubscribed ==
    Open => asked[current] \ {"system"} = Subscribed \ {"system"} /\ Subscribed \subseteq asked[current]
ShownOpened ==
    mounted /\ shown = "connected" => current # NoLine /\ line[current] \in {"open", "closing"}

ClientInv == ClientTypes /\ OnlyCurrentTalks /\ AsksForSubscribed /\ ShownOpened

LEMMA ClientStart == ClientInit => ClientInv
BY DEF ClientInit, ClientInv, ClientTypes, OnlyCurrentTalks, AsksForSubscribed, ShownOpened,
       LineStates, Open, Subscribed

LEMMA ClientTypesHold ==
    ASSUME ClientInv
    PROVE  /\ current \in Lines \cup {NoLine} /\ line \in [Lines -> LineStates]
           /\ Closing \in [Lines -> LineStates]
           /\ \A s \in Lines : Closing[s] \notin {"connecting", "open"}
           /\ \A s \in Lines : Closing[s] = "none" => line[s] = "none"
<1>1. current \in Lines \cup {NoLine} /\ line \in [Lines -> LineStates]
  BY DEF ClientInv, ClientTypes
<1>2. CASE current = NoLine
  BY <1>1, <1>2, ClientAssumption DEF Closing, ClientInv, OnlyCurrentTalks
<1>3. CASE current # NoLine
  <2>1. current \in Lines /\ Closing = [line EXCEPT ![current] = "closing"]
    BY <1>1, <1>3 DEF Closing
  <2> QED BY <1>1, <2>1 DEF ClientInv, OnlyCurrentTalks, LineStates
<1> QED BY <1>1, <1>2, <1>3

\* A socket is opened only where none talks.
LEMMA Connects ==
    ASSUME ClientInv, UNCHANGED subscribers, NEW cur, NEW lines, NEW beat, NEW left,
           connect(cur, lines, beat, left),
           \/ cur = NoLine /\ lines = Closing
           \/ cur = current /\ lines = line /\ UNCHANGED mounted
    PROVE  ClientInv'
<1>0. /\ current \in Lines \cup {NoLine} /\ line \in [Lines -> LineStates]
      /\ lines \in [Lines -> LineStates]
  BY ClientTypesHold
<1>1. CASE Talking(cur)
  <2>1. cur = current /\ UNCHANGED mounted
    BY <1>1 DEF Talking
  <2>2. UNCHANGED <<current, line, asked, shown>>
    BY <1>1 DEF connect
  <2> QED BY <2>1, <2>2 DEF ClientInv, ClientTypes, OnlyCurrentTalks, AsksForSubscribed, ShownOpened,
                           Open, Subscribed
<1>2. CASE ~Talking(cur)
  <2>1. \A s \in Lines : lines[s] \notin {"connecting", "open"}
    <3>1. CASE cur = NoLine /\ lines = Closing
      BY <3>1, ClientTypesHold
    <3>2. CASE cur = current /\ lines = line
      BY <1>0, <1>2, <3>2, ClientAssumption DEF Talking, ClientInv, OnlyCurrentTalks
    <3> QED BY <3>1, <3>2
  <2>2. PICK s \in Lines : line' = [lines EXCEPT ![s] = "connecting"] /\ current' = s
    BY <1>2 DEF connect
  <2>3. asked' = asked /\ shown' # "connected"
    BY <1>2 DEF connect
  <2>4. /\ line' \in [Lines -> LineStates] /\ line'[s] = "connecting"
        /\ \A u \in Lines \ {s} : line'[u] = lines[u]
    BY <1>0, <2>2 DEF LineStates
  <2> QED BY <2>1, <2>2, <2>3, <2>4 DEF ClientInv, ClientTypes, OnlyCurrentTalks,
                                        AsksForSubscribed, ShownOpened, Open
<1> QED BY <1>1, <1>2

\* The socket is given up.
LEMMA Leaves ==
    ASSUME ClientInv, current' = NoLine, line' = Closing, UNCHANGED <<asked, subscribers>>,
           shown' # "connected" \/ ~mounted'
    PROVE  ClientInv'
BY ClientTypesHold DEF ClientInv, ClientTypes, OnlyCurrentTalks, AsksForSubscribed, ShownOpened, Open

LEMMA EventSteps ==
    ASSUME ClientInv, NEW s \in Lines, OnOpen(s) \/ Breaks(s) \/ OnClose(s)
    PROVE  ClientInv'
<1>0. /\ current \in Lines \cup {NoLine} /\ line \in [Lines -> LineStates]
      /\ asked \in [Lines -> SUBSET Channels] /\ subscribers' = subscribers
  BY DEF ClientInv, ClientTypes, OnOpen, Breaks, OnClose
<1>1. CASE OnOpen(s) /\ mounted /\ current = s
  <2>1. /\ line' = [line EXCEPT ![s] = "open"] /\ current' = s
        /\ asked' = [asked EXCEPT ![s] = Subscribed]
    BY <1>1 DEF OnOpen, Resubscription
  <2>2. Subscribed \in SUBSET Channels /\ Subscribed' = Subscribed
    BY <1>0 DEF Subscribed
  <2>3. /\ line' \in [Lines -> LineStates] /\ asked' \in [Lines -> SUBSET Channels]
        /\ line'[s] = "open" /\ asked'[s] = Subscribed
        /\ \A u \in Lines \ {s} : line'[u] = line[u]
    BY <1>0, <2>1, <2>2 DEF LineStates
  <2>4. s # NoLine
    BY ClientAssumption
  <2> QED BY <1>0, <1>1, <2>1, <2>2, <2>3, <2>4
          DEF ClientInv, ClientTypes, OnlyCurrentTalks, AsksForSubscribed, ShownOpened, Open
<1>2. CASE Breaks(s) \/ (OnOpen(s) /\ ~(mounted /\ current = s))
  <2>1. /\ line[s] \in {"connecting", "open"} /\ line' = [line EXCEPT ![s] = "closing"]
        /\ UNCHANGED <<mounted, current, asked, shown>>
    BY <1>2 DEF OnOpen, Breaks
  <2>2. /\ line' \in [Lines -> LineStates] /\ line'[s] = "closing"
        /\ \A u \in Lines \ {s} : line'[u] = line[u]
    BY <1>0, <2>1 DEF LineStates
  <2>3. s = current
    BY <2>1 DEF ClientInv, OnlyCurrentTalks
  <2> QED BY <1>0, <2>1, <2>2, <2>3
          DEF ClientInv, ClientTypes, OnlyCurrentTalks, AsksForSubscribed, ShownOpened, Open
<1>3. CASE OnClose(s)
  <2>1. /\ line[s] = "closing" /\ line' = [line EXCEPT ![s] = "none"]
        /\ asked' = [asked EXCEPT ![s] = {}]
        /\ current' = IF current = s THEN NoLine ELSE current
    BY <1>3 DEF OnClose
  <2>2. shown' # "connected"
    BY <1>3 DEF OnClose
  <2>3. /\ line' \in [Lines -> LineStates] /\ asked' \in [Lines -> SUBSET Channels]
        /\ line'[s] = "none" /\ \A u \in Lines \ {s} : line'[u] = line[u] /\ asked'[u] = asked[u]
    BY <1>0, <2>1 DEF LineStates
  <2>4. Open' => Open /\ current # s /\ current' = current /\ current \in Lines
    BY <1>0, <2>1, <2>3 DEF Open
  <2>5. Subscribed' = Subscribed
    BY <1>0 DEF Subscribed
  <2> QED BY <1>0, <2>1, <2>2, <2>3, <2>4, <2>5
          DEF ClientInv, ClientTypes, OnlyCurrentTalks, AsksForSubscribed, ShownOpened
<1> QED BY <1>1, <1>2, <1>3

LEMMA ChannelSteps ==
    ASSUME ClientInv, NEW c \in Channels, NEW f \in Callbacks, subscribe(c, f) \/ unsubscribe(c, f)
    PROVE  ClientInv'
<1>0. /\ current \in Lines \cup {NoLine} /\ line \in [Lines -> LineStates]
      /\ asked \in [Lines -> SUBSET Channels] /\ subscribers \in [Channels -> SUBSET Callbacks]
      /\ UNCHANGED <<mounted, current, line, shown>>
  BY DEF ClientInv, ClientTypes, subscribe, unsubscribe, Quietly
<1> DEFINE before == asked[current]
<1>1. \/ UNCHANGED asked
      \/ \E channels \in SUBSET Channels :
            asked' = IF Open THEN [asked EXCEPT ![current] = channels] ELSE asked
  <2>1. CASE UNCHANGED asked
    BY <2>1
  <2>2. CASE Asks(before \cup {c}) \/ Asks(before \ {c})
    <3>1. CASE Open
      <4>1. before \in SUBSET Channels
        BY <1>0, <3>1 DEF Open
      <4> QED BY <2>2, <3>1, <4>1 DEF Asks
    <3>2. CASE ~Open
      BY <2>2, <3>2 DEF Asks
    <3> QED BY <3>1, <3>2
  <2> QED BY <2>1, <2>2 DEF subscribe, unsubscribe
<1>2. asked' \in [Lines -> SUBSET Channels]
  BY <1>0, <1>1
<1>3. subscribers' \in [Channels -> SUBSET Callbacks]
      /\ \A d \in Channels \ {c} : subscribers'[d] = subscribers[d]
  BY <1>0 DEF subscribe, unsubscribe
<1>4. Open' = Open
  BY <1>0 DEF Open
<1>5. ASSUME Open PROVE /\ asked'[current] \ {"system"} = Subscribed' \ {"system"}
                        /\ Subscribed' \subseteq asked'[current]
  <2>0. current \in Lines /\ before \in SUBSET Channels
    BY <1>0, <1>5 DEF Open
  <2>1. before \ {"system"} = Subscribed \ {"system"} /\ Subscribed \subseteq before
    BY <1>5 DEF ClientInv, AsksForSubscribed
  <2>2. Subscribed = {d \in Channels : subscribers[d] # {}}
        /\ Subscribed' = {d \in Channels : subscribers'[d] # {}}
    BY DEF Subscribed
  <2>3. CASE subscribe(c, f)
    <3>1. subscribers'[c] = subscribers[c] \cup {f}
      BY <1>0, <2>3 DEF subscribe
    <3>2. Subscribed' = Subscribed \cup {c}
      BY <1>3, <2>2, <3>1
    <3>3. CASE subscribers[c] = {}
      <4>1. asked' = [asked EXCEPT ![current] = before \cup {c}]
        BY <1>5, <2>3, <3>3 DEF subscribe, Asks
      <4>2. asked'[current] = before \cup {c}
        BY <1>0, <2>0, <4>1
      <4> HIDE DEF before
      <4> QED BY <2>1, <3>2, <4>2
    <3>4. CASE subscribers[c] # {}
      <4>1. asked' = asked /\ c \in Subscribed
        BY <2>2, <2>3, <3>4 DEF subscribe
      <4> QED BY <2>1, <3>2, <4>1
    <3> QED BY <3>3, <3>4
  <2>4. CASE unsubscribe(c, f)
    <3>1. subscribers'[c] = subscribers[c] \ {f} /\ f \in subscribers[c]
      BY <1>0, <2>4 DEF unsubscribe
    <3>2. CASE subscribers[c] = {f}
      <4>1. Subscribed' = Subscribed \ {c}
        BY <1>3, <2>2, <3>1, <3>2
      <4>2. CASE c # "system"
        <5>1. asked' = [asked EXCEPT ![current] = before \ {c}]
          BY <1>5, <2>4, <3>2, <4>2 DEF unsubscribe, Asks
        <5>2. asked'[current] = before \ {c}
          BY <1>0, <2>0, <5>1
        <5> HIDE DEF before
        <5> QED BY <2>1, <4>1, <5>2
      <4>3. CASE c = "system"
        <5>1. asked' = asked
          BY <2>4, <4>3 DEF unsubscribe
        <5> QED BY <2>1, <4>1, <4>3, <5>1
      <4> QED BY <4>2, <4>3
    <3>3. CASE subscribers[c] # {f}
      <4>1. asked' = asked
        BY <2>4, <3>3 DEF unsubscribe
      <4>2. Subscribed' = Subscribed
        BY <1>3, <2>2, <3>1, <3>3
      <4> QED BY <2>1, <4>1, <4>2
    <3> QED BY <3>2, <3>3
  <2> QED BY <2>3, <2>4
<1>6. AsksForSubscribed'
  BY <1>0, <1>4, <1>5 DEF AsksForSubscribed
<1> QED BY <1>0, <1>2, <1>3, <1>6 DEF ClientInv, ClientTypes, OnlyCurrentTalks, ShownOpened

LEMMA ClientStep == ClientInv /\ [ClientNext]_clientVars => ClientInv'
<1> SUFFICES ASSUME ClientInv, [ClientNext]_clientVars PROVE ClientInv'
  OBVIOUS
<1>1. CASE Mount
  BY <1>1, Connects DEF Mount
<1>2. CASE TimerFires
  <2>1. CASE mounted
    BY <1>2, <2>1, Connects DEF TimerFires
  <2>2. CASE ~mounted
    <3>1. UNCHANGED <<mounted, subscribers, current, line, asked, shown>>
      BY <1>2, <2>2 DEF TimerFires
    <3> QED BY <3>1 DEF ClientInv, ClientTypes, OnlyCurrentTalks, AsksForSubscribed, ShownOpened,
                        Open, Subscribed
  <2> QED BY <2>1, <2>2
<1>3. CASE Unmount \/ disconnect \/ reconnect
  BY <1>3, Leaves DEF Unmount, disconnect, reconnect, HangUp
<1>4. CASE \E s \in Lines : OnOpen(s) \/ Breaks(s) \/ OnClose(s)
  BY <1>4, EventSteps
<1>5. CASE \E c \in Channels, f \in Callbacks : subscribe(c, f) \/ unsubscribe(c, f)
  BY <1>5, ChannelSteps
<1>6. CASE UNCHANGED clientVars
  BY <1>6 DEF clientVars, socketState, ClientInv, ClientTypes, OnlyCurrentTalks,
                AsksForSubscribed, ShownOpened, Open, Subscribed
<1> QED BY <1>1, <1>2, <1>3, <1>4, <1>5, <1>6 DEF ClientNext

LEMMA ClientProves == ClientInv => OneLiveSocket
BY DEF ClientInv, OnlyCurrentTalks, AsksForSubscribed, ShownOpened, OneLiveSocket

----------------------------------------------------------------------------
(***************************************************************************)
(* Sanctions and rate feeds (services/compliance.ts, fx.ts, readiness.ts). *)
(* What a request holds of the engine was vouched for, and is no older     *)
(* than the request says; where no two refreshes cross, the engine's cells *)
(* agree.                                                                  *)
(***************************************************************************)
Moments == [at : Nat, whole : BOOLEAN]
Cells == {"lists", "stamps", "metadata"}
ReportsAnswered == {"unavailable", "ready", Unconfigured}

Read == {"check", "lists", "stamps", "metadata", "acknowledged"}
Running == [at : Read, data : Moments]
RefreshHeld == [at : {"idle", "read", "refused"}] \cup Running

EntryRow == [event : {"SANCTIONS_UPDATED"}, asked : Nat, judged : Nat, named : Moments,
             stamps : Moments, served : Moments, crossed : BOOLEAN]
Asking == [at : {"refresh", "health", "metadata", "judge", "probed"}, for : {"update", "readiness"},
           asked : Nat, stamps : Moments, metadata : Moments, compliance : ReportsAnswered]
Reporting == [at : {"audit"}, for : {"update"}, entry : EntryRow]
Probed == [at : {"settled"}, for : {"readiness"}, compliance : ReportsAnswered, ready : BOOLEAN]
Pricing == [at : {"rates"}, for : {"rates"}, asked : Nat, rate : Nat]
Quoted == [at : {"quoted"}, for : {"rates"}, age : Int]
FeedHeld == {Idle} \cup Asking \cup Reporting \cup Probed \cup Pricing \cup Quoted

FeedTypes ==
    /\ req \in [Workers -> FeedHeld] /\ mined = <<>> /\ deep = 0
    /\ hour \in Nat /\ dataset \in Moments /\ digest \in Moments
    /\ engine \in [Cells -> Moments]
    /\ refreshes \in [Workers -> RefreshHeld]
    /\ crossed \in BOOLEAN /\ evaluating \in BOOLEAN
    /\ trail \subseteq EntryRow

Genuine(d, known) == d.whole = TRUE /\ d \in known

Sound(e, known) ==
    /\ Genuine(e.named, known)
    /\ e.judged - e.named.at <= MaxAge /\ e.judged - e.stamps.at <= MaxAge
    /\ e.crossed = TRUE \/ (e.asked <= e.named.at /\ e.named.at <= e.served.at)

\* What a request, and a refresh, may hold whatever else goes on.
QueryHolds(r, known, none) ==
    /\ r.at = "judge" => Genuine(r.metadata, known)
    /\ r.at = "audit" => Sound(r.entry, known)
    /\ r.at = "quoted" => r.age <= MaxAge
    /\ none = TRUE => r.at \notin {"refresh", "health", "metadata", "judge"}
    /\ none = TRUE /\ r.at \in {"probed", "settled"} => r.compliance # "ready"
RefreshHolds(f, known, now) ==
    /\ f.at \in Read \ {"check"} => Genuine(f.data, known)
    /\ f.at \in Read => f.data.at <= now.at
RefreshFits(r, f, now) ==
    /\ r.at = "refresh" => r.for = "update"
    /\ r.at \in {"health", "metadata", "judge", "audit"} /\ r.for = "update" => f.at = "idle"
    /\ r.at \in {"refresh", "health", "metadata", "judge"} /\ r.for = "update" => r.asked <= now.at

\* As long as no two updates crossed: how an update stands to the cells.
Busy(r, f) == f.at # "idle" \/ (r # Idle /\ r.for = "update")
Claims(r, f, cells) ==
    /\ f.at \in {"check", "lists"} => cells["lists"].at <= f.data.at
    /\ f.at \in {"stamps", "metadata", "acknowledged"} => cells["lists"] = f.data
    /\ f.at = "acknowledged" => cells["metadata"] = f.data
    /\ r.at = "refresh" /\ f.at \in Read => r.asked <= f.data.at
    /\ r.at \in {"health", "metadata"} /\ r.for = "update" => r.asked <= cells["metadata"].at
    /\ r.at = "judge" /\ r.for = "update" =>
          r.asked <= r.metadata.at /\ r.metadata.at <= cells["lists"].at

CellsHold ==
    /\ \A c \in Cells : Genuine(engine[c], vouched) /\ engine[c].at <= dataset.at
    /\ digest \in vouched

Uncrossed ==
    /\ engine["metadata"].at <= engine["lists"].at
    /\ \A v, w \in Workers : Busy(req[v], refreshes[v]) /\ Busy(req[w], refreshes[w]) => v = w
    /\ \A w \in Workers : Claims(req[w], refreshes[w], engine)

FeedInv ==
    /\ FeedTypes /\ CellsHold
    /\ \A e \in trail : Sound(e, vouched)
    /\ \A w \in Workers : /\ QueryHolds(req[w], vouched, evaluating)
                          /\ RefreshHolds(refreshes[w], vouched, dataset)
                          /\ RefreshFits(req[w], refreshes[w], dataset)
    /\ ~crossed => Uncrossed

LEMMA IdleFeeds ==
    /\ Idle \in FeedHeld /\ NoRefresh \in RefreshHeld /\ NoRefresh.at = "idle"
    /\ \A known, none : QueryHolds(Idle, known, none)
    /\ \A known, now : RefreshHolds(NoRefresh, known, now)
    /\ \A f, now : RefreshFits(Idle, f, now)
    /\ ~Busy(Idle, NoRefresh)
BY IdleRests DEF FeedHeld, RefreshHeld, NoRefresh, Read, QueryHolds, RefreshHolds, RefreshFits, Busy

LEMMA NotBusy ==
    ASSUME NEW r \in FeedHeld, NEW f \in RefreshHeld, NEW now, RefreshFits(r, f, now), ~Busy(r, f)
    PROVE  \A cells : Claims(r, f, cells)
BY IdleRests DEF RefreshFits, Busy, Claims, Read

LEMMA FeedStart == RequestsInit /\ FeedInit => FeedInv
<1> SUFFICES ASSUME RequestsInit, FeedInit PROVE FeedInv
  OBVIOUS
<1>1. First \in Moments /\ First.whole = TRUE /\ First.at = 0
  BY DEF First, Moments
<1>2. engine \in [Cells -> Moments] /\ \A c \in Cells : engine[c] = First
  BY <1>1 DEF FeedInit, Cells
<1>3. \A w \in Workers : req[w] = Idle /\ refreshes[w] = NoRefresh
  BY DEF RequestsInit, FeedInit
<1>4. FeedTypes
  BY <1>1, <1>2, IdleFeeds DEF RequestsInit, FeedInit, FeedTypes
<1>5. CellsHold
  BY <1>1, <1>2 DEF FeedInit, CellsHold, Genuine
<1>6. Uncrossed
  <2>1. \A w \in Workers : Claims(req[w], refreshes[w], engine) /\ ~Busy(req[w], refreshes[w])
    BY <1>3, IdleFeeds, NotBusy
  <2>2. engine["metadata"].at <= engine["lists"].at
    BY <1>1, <1>2 DEF Cells
  <2> QED BY <2>1, <2>2 DEF Uncrossed
<1> QED BY <1>3, <1>4, <1>5, <1>6, IdleFeeds DEF RequestsInit, FeedInv

LEMMA FeedRequest ==
    ASSUME FeedInv, NEW w \in Workers
    PROVE  /\ req[w] \in FeedHeld /\ refreshes[w] \in RefreshHeld
           /\ QueryHolds(req[w], vouched, evaluating) /\ RefreshHolds(refreshes[w], vouched, dataset)
           /\ RefreshFits(req[w], refreshes[w], dataset)
           /\ ~crossed => Claims(req[w], refreshes[w], engine)
           /\ req[w].at # "idle" => req[w] # Idle
           /\ req[w].at \in {"refresh", "health", "metadata", "judge", "probed"} => req[w] \in Asking
           /\ req[w].at = "audit" => req[w] \in Reporting
           /\ req[w].at = "rates" => req[w] \in Pricing
           /\ refreshes[w].at \in Read => refreshes[w] \in Running
BY IdleRests DEF FeedInv, Uncrossed, FeedTypes, FeedHeld, Asking, Reporting, Probed, Pricing, Quoted,
                 RefreshHeld, Running, Read

\* One worker's request and refresh go on; at most the cells change with them.
LEMMA FeedGoes ==
    ASSUME FeedInv, NEW w \in Workers, NEW r \in FeedHeld, NEW f \in RefreshHeld,
           req' = [req EXCEPT ![w] = r], refreshes' = [refreshes EXCEPT ![w] = f],
           UNCHANGED <<mined, deep, hour, dataset, digest, vouched, evaluating>>,
           trail' \subseteq EntryRow, \A e \in trail' : Sound(e, vouched),
           QueryHolds(r, vouched, evaluating), RefreshHolds(f, vouched, dataset),
           RefreshFits(r, f, dataset),
           engine' \in [Cells -> Moments],
           \A c \in Cells : Genuine(engine'[c], vouched) /\ engine'[c].at <= dataset.at,
           crossed' \in BOOLEAN, ~crossed' => ~crossed,
           ~crossed' => Claims(r, f, engine') /\ engine'["metadata"].at <= engine'["lists"].at,
           ~crossed' /\ Busy(r, f) => \A v \in Workers \ {w} : ~Busy(req[v], refreshes[v]),
           engine' = engine \/ (~crossed' => \A v \in Workers \ {w} : ~Busy(req[v], refreshes[v]))
    PROVE  FeedInv'
<1>1. /\ req' \in [Workers -> FeedHeld] /\ req'[w] = r
      /\ refreshes' \in [Workers -> RefreshHeld] /\ refreshes'[w] = f
      /\ \A v \in Workers \ {w} : req'[v] = req[v] /\ refreshes'[v] = refreshes[v]
  BY DEF FeedInv, FeedTypes
<1>2. FeedTypes'
  BY <1>1 DEF FeedInv, FeedTypes
<1>3. CellsHold'
  BY DEF FeedInv, CellsHold
<1>4. \A v \in Workers : /\ QueryHolds(req'[v], vouched', evaluating')
                         /\ RefreshHolds(refreshes'[v], vouched', dataset')
                         /\ RefreshFits(req'[v], refreshes'[v], dataset')
  BY <1>1 DEF FeedInv
<1>5. ASSUME ~crossed' PROVE Uncrossed'
  <2>1. ~crossed /\ Uncrossed
    BY <1>5 DEF FeedInv
  <2>2. \A u, v \in Workers : Busy(req'[u], refreshes'[u]) /\ Busy(req'[v], refreshes'[v]) => u = v
    BY <1>1, <1>5, <2>1 DEF Uncrossed
  <2>3. ASSUME NEW v \in Workers PROVE Claims(req'[v], refreshes'[v], engine')
    <3>1. CASE v = w
      BY <1>1, <1>5, <3>1
    <3>2. CASE v # w /\ engine' = engine
      BY <1>1, <2>1, <3>2 DEF Uncrossed
    <3>3. CASE v # w /\ ~Busy(req[v], refreshes[v])
      <4>1. req[v] \in FeedHeld /\ refreshes[v] \in RefreshHeld
            /\ RefreshFits(req[v], refreshes[v], dataset)
        BY FeedRequest
      <4>2. Claims(req[v], refreshes[v], engine')
        BY <3>3, <4>1, NotBusy
      <4> QED BY <1>1, <3>3, <4>2
    <3> QED BY <1>5, <3>1, <3>2, <3>3
  <2> QED BY <1>5, <2>2, <2>3 DEF Uncrossed
<1> QED BY <1>2, <1>3, <1>4, <1>5 DEF FeedInv

\* A request goes on, and no update begins with it.
LEMMA QueryGoes ==
    ASSUME FeedInv, NEW w \in Workers, NEW r \in FeedHeld, Goto(w, r),
           UNCHANGED <<mined, deep, trail, feedVars>>,
           QueryHolds(r, vouched, evaluating), RefreshFits(r, refreshes[w], dataset),
           Busy(r, refreshes[w]) => Busy(req[w], refreshes[w]),
           ~crossed => Claims(r, refreshes[w], engine)
    PROVE  FeedInv'
<1> DEFINE f == refreshes[w]
<1>1. /\ f \in RefreshHeld /\ refreshes' = [refreshes EXCEPT ![w] = f]
      /\ RefreshHolds(f, vouched, dataset)
  BY FeedRequest DEF FeedInv, FeedTypes, feedVars
<1>2. /\ UNCHANGED <<mined, deep, hour, dataset, digest, vouched, evaluating, engine, crossed, trail>>
      /\ req' = [req EXCEPT ![w] = r]
  BY DEF feedVars, Goto
<1>3. /\ trail \subseteq EntryRow /\ \A e \in trail : Sound(e, vouched)
      /\ engine \in [Cells -> Moments] /\ crossed \in BOOLEAN
      /\ \A c \in Cells : Genuine(engine[c], vouched) /\ engine[c].at <= dataset.at
      /\ ~crossed => engine["metadata"].at <= engine["lists"].at
  BY DEF FeedInv, FeedTypes, CellsHold, Uncrossed
<1>4. ~crossed /\ Busy(r, f) => \A v \in Workers \ {w} : ~Busy(req[v], refreshes[v])
  BY DEF FeedInv, Uncrossed
<1> HIDE DEF f
<1>5. RefreshFits(r, f, dataset) /\ (~crossed => Claims(r, f, engine))
  BY DEF f
<1> QED BY <1>1, <1>2, <1>3, <1>4, <1>5, FeedGoes

\* A refresh goes on; its worker's request stays where it is.
LEMMA RefreshGoes ==
    ASSUME FeedInv, NEW w \in Workers, NEW f \in RefreshHeld, Refresh(w, f), UNCHANGED engine,
           RefreshHolds(f, vouched, dataset), refreshes[w].at # "idle",
           ~crossed => Claims(req[w], f, engine)
    PROVE  FeedInv'
<1> DEFINE r == req[w]
<1>1. r \in FeedHeld /\ req' = [req EXCEPT ![w] = r]
      /\ QueryHolds(r, vouched, evaluating)
  BY FeedRequest DEF FeedInv, FeedTypes, Refresh, shared
<1>2. /\ UNCHANGED <<mined, deep, hour, dataset, digest, vouched, evaluating, engine, crossed, trail>>
      /\ refreshes' = [refreshes EXCEPT ![w] = f]
  BY DEF Refresh, shared
<1>3. /\ trail \subseteq EntryRow /\ \A e \in trail : Sound(e, vouched)
      /\ engine \in [Cells -> Moments] /\ crossed \in BOOLEAN
      /\ \A c \in Cells : Genuine(engine[c], vouched) /\ engine[c].at <= dataset.at
      /\ ~crossed => engine["metadata"].at <= engine["lists"].at
  BY DEF FeedInv, FeedTypes, CellsHold, Uncrossed
<1>4. ~crossed => \A v \in Workers \ {w} : ~Busy(req[v], refreshes[v])
  BY DEF FeedInv, Uncrossed, Busy
<1>5. RefreshFits(r, f, dataset) /\ (~crossed => Claims(r, f, engine))
  <2>1. RefreshFits(r, refreshes[w], dataset)
    BY FeedRequest
  <2> QED BY <2>1 DEF RefreshFits
<1> HIDE DEF r
<1> QED BY <1>1, <1>2, <1>3, <1>4, <1>5, FeedGoes

LEMMA WorldSteps ==
    ASSUME FeedInv, HourPasses \/ PublishFile \/ PublishDigest
    PROVE  FeedInv'
<1>1. UNCHANGED <<shared, engine, refreshes, crossed, evaluating>>
  BY DEF HourPasses, PublishFile, PublishDigest
<1>2. hour \in Nat /\ dataset \in Moments /\ digest \in Moments /\ digest \in vouched
  BY DEF FeedInv, FeedTypes, CellsHold
<1>3. /\ hour' \in Nat /\ dataset' \in Moments /\ dataset.at <= dataset'.at
      /\ digest' \in Moments /\ digest' \in vouched' /\ vouched \subseteq vouched'
  <2>1. CASE HourPasses
    BY <1>2, <2>1 DEF HourPasses, Moments
  <2>2. CASE PublishFile
    <3>1. PICK whole \in BOOLEAN : dataset' = [at |-> hour, whole |-> whole]
      BY <2>2 DEF PublishFile
    <3>2. dataset' \in Moments /\ dataset'.at = hour
      BY <1>2, <3>1 DEF Moments
    <3> QED BY <1>2, <2>2, <3>2 DEF PublishFile, Moments
  <2>3. CASE PublishDigest
    BY <1>2, <2>3 DEF PublishDigest, Moments
  <2> QED BY <2>1, <2>2, <2>3
<1>4. FeedTypes'
  BY <1>1, <1>3 DEF FeedInv, FeedTypes, shared
<1>5. CellsHold'
  <2> SUFFICES ASSUME NEW c \in Cells PROVE Genuine(engine[c], vouched') /\ engine[c].at <= dataset'.at
    BY <1>1, <1>3 DEF CellsHold
  <2>1. engine[c] \in Moments /\ Genuine(engine[c], vouched) /\ engine[c].at <= dataset.at
    BY DEF FeedInv, FeedTypes, CellsHold
  <2> QED BY <1>2, <1>3, <2>1 DEF Genuine, Moments
<1>6. ASSUME NEW e \in trail' PROVE Sound(e, vouched')
  BY <1>1, <1>3 DEF FeedInv, Sound, Genuine, shared
<1>7. ASSUME NEW w \in Workers
      PROVE  /\ QueryHolds(req'[w], vouched', evaluating')
             /\ RefreshHolds(refreshes'[w], vouched', dataset')
             /\ RefreshFits(req'[w], refreshes'[w], dataset')
  <2>1. /\ QueryHolds(req[w], vouched, evaluating) /\ RefreshHolds(refreshes[w], vouched, dataset)
        /\ RefreshFits(req[w], refreshes[w], dataset)
    BY FeedRequest
  <2>2. QueryHolds(req[w], vouched', evaluating)
    BY <1>3, <2>1 DEF QueryHolds, Sound, Genuine
  <2>3. RefreshHolds(refreshes[w], vouched', dataset')
    <3>1. refreshes[w].at \in Read => refreshes[w].data.at \in Nat
      BY FeedRequest DEF Running, Moments
    <3>2. dataset.at \in Nat /\ dataset'.at \in Nat
      BY <1>2, <1>3 DEF Moments
    <3>3. refreshes[w].at \in Read => refreshes[w].data.at <= dataset'.at
      BY <1>3, <2>1, <3>1, <3>2 DEF RefreshHolds
    <3> QED BY <1>3, <2>1, <3>3 DEF RefreshHolds, Genuine
  <2>4. RefreshFits(req[w], refreshes[w], dataset')
    <3>1. req[w].at \in {"refresh", "health", "metadata", "judge"} => req[w].asked \in Nat
      BY FeedRequest DEF Asking
    <3>2. dataset.at \in Nat /\ dataset'.at \in Nat
      BY <1>2, <1>3 DEF Moments
    <3>3. req[w].at \in {"refresh", "health", "metadata", "judge"} /\ req[w].for = "update" =>
              req[w].asked <= dataset'.at
      BY <1>3, <2>1, <3>1, <3>2 DEF RefreshFits
    <3> QED BY <2>1, <3>3 DEF RefreshFits
  <2> QED BY <1>1, <2>2, <2>3, <2>4 DEF shared
<1>8. ~crossed' => Uncrossed'
  BY <1>1 DEF FeedInv, Uncrossed, shared
<1> QED BY <1>4, <1>5, <1>6, <1>7, <1>8 DEF FeedInv

LEMMA ServiceRestarts ==
    ASSUME FeedInv, RestartService
    PROVE  FeedInv'
<1>1. /\ dataset = digest /\ dataset.whole /\ dataset \in Moments /\ dataset \in vouched
      /\ engine \in [Cells -> Moments]
  BY DEF RestartService, Loadable, FeedInv, FeedTypes, CellsHold
<1>2. /\ engine' = [c \in Cells |-> dataset] /\ refreshes' = [w \in Workers |-> NoRefresh]
      /\ UNCHANGED <<req, mined, deep, trail, hour, dataset, digest, vouched, crossed, evaluating>>
  <2>1. DOMAIN engine = Cells
    BY <1>1
  <2> QED BY <2>1 DEF RestartService, shared
<1>3. FeedTypes'
  BY <1>1, <1>2, IdleFeeds DEF FeedInv, FeedTypes
<1>4. dataset.whole = TRUE /\ dataset.at \in Nat /\ dataset.at <= dataset.at
  BY <1>1 DEF Moments
<1>5. CellsHold'
  BY <1>1, <1>2, <1>4 DEF FeedInv, CellsHold, Genuine
<1>6. ASSUME NEW w \in Workers
      PROVE  /\ QueryHolds(req'[w], vouched', evaluating')
             /\ RefreshHolds(refreshes'[w], vouched', dataset')
             /\ RefreshFits(req'[w], refreshes'[w], dataset')
  BY <1>2, IdleFeeds, FeedRequest DEF RefreshFits
<1>7. ASSUME ~crossed PROVE Uncrossed'
  <2>1. \A w \in Workers : Busy(req[w], NoRefresh) => Busy(req[w], refreshes[w])
    BY IdleFeeds DEF Busy
  <2>2. \A v, w \in Workers : Busy(req'[v], refreshes'[v]) /\ Busy(req'[w], refreshes'[w]) => v = w
    BY <1>2, <1>7, <2>1 DEF FeedInv, Uncrossed
  <2>3. engine'["metadata"] = dataset /\ engine'["lists"] = dataset
    BY <1>2 DEF Cells
  <2>4. ASSUME NEW w \in Workers PROVE Claims(req'[w], refreshes'[w], engine')
    <3>1. /\ RefreshFits(req[w], refreshes[w], dataset) /\ Claims(req[w], refreshes[w], engine)
          /\ req[w].at = "judge" => req[w] \in Asking
      BY <1>7, FeedRequest
    <3>2. engine["lists"].at <= dataset.at /\ engine["lists"].at \in Nat
      BY DEF FeedInv, FeedTypes, CellsHold, Cells, Moments
    <3>3. req[w].at = "judge" => req[w].metadata.at \in Nat
      BY <3>1 DEF Asking, Moments
    <3>4. req[w].at = "judge" /\ req[w].for = "update" =>
              req[w].asked <= req[w].metadata.at /\ req[w].metadata.at <= dataset.at
      BY <1>4, <3>1, <3>2, <3>3 DEF Claims
    <3> QED BY <1>2, <2>3, <3>1, <3>4, IdleFeeds DEF RefreshFits, Claims, Read
  <2>5. engine'["metadata"].at <= engine'["lists"].at
    BY <1>4, <2>3
  <2> QED BY <2>2, <2>4, <2>5 DEF Uncrossed
<1> QED BY <1>2, <1>3, <1>5, <1>6, <1>7 DEF FeedInv

LEMMA RefreshSteps ==
    ASSUME FeedInv, NEW w \in Workers, ReadDataset(w) \/ CheckDataset(w)
    PROVE  FeedInv'
<1>0. /\ dataset \in Moments /\ engine["lists"].at <= dataset.at
      /\ RefreshFits(req[w], refreshes[w], dataset) /\ RefreshHolds(refreshes[w], vouched, dataset)
      /\ ~crossed => Claims(req[w], refreshes[w], engine)
  BY FeedRequest DEF FeedInv, FeedTypes, CellsHold, Cells
<1>1. CASE ReadDataset(w)
  <2> DEFINE f == [at |-> "check", data |-> dataset]
  <2>1. refreshes[w].at = "read" /\ Refresh(w, f) /\ UNCHANGED engine
    BY <1>1 DEF ReadDataset, Lives
  <2>2. f \in Running /\ f.at = "check" /\ f.data = dataset
    BY <1>0 DEF Running, Read
  <2> HIDE DEF f
  <2>3. f \in RefreshHeld
    BY <2>2 DEF RefreshHeld
  <2>4. RefreshHolds(f, vouched, dataset)
    BY <1>0, <2>2 DEF RefreshHolds, Moments
  <2>5. ~crossed => Claims(req[w], f, engine)
    <3>1. req[w].at = "refresh" => req[w].asked <= dataset.at
      BY <1>0 DEF RefreshFits
    <3> QED BY <1>0, <2>1, <2>2, <3>1 DEF Claims
  <2> QED BY <2>1, <2>3, <2>4, <2>5, RefreshGoes
<1>2. CASE CheckDataset(w)
  <2> DEFINE f == [refreshes[w] EXCEPT !.at = "lists"]
             g == [at |-> "refused"]
  <2>1. refreshes[w] \in Running /\ refreshes[w].at = "check"
    BY <1>2, FeedRequest DEF CheckDataset, Lives, Read
  <2>2. /\ IF Loadable(refreshes[w].data) THEN Refresh(w, f) ELSE Refresh(w, g)
        /\ UNCHANGED engine
    BY <1>2 DEF CheckDataset
  <2>3. /\ f \in Running /\ f.at = "lists" /\ f.data = refreshes[w].data
        /\ g \in RefreshHeld /\ g.at = "refused"
    BY <2>1 DEF Running, Read, RefreshHeld
  <2> HIDE DEF f, g
  <2>4. CASE Loadable(refreshes[w].data)
    <3>1. Genuine(f.data, vouched)
      BY <2>1, <2>3, <2>4 DEF Loadable, Genuine, FeedInv, CellsHold, Running, Moments
    <3>2. RefreshHolds(f, vouched, dataset)
      BY <1>0, <2>1, <2>3, <3>1 DEF RefreshHolds, Read
    <3>3. ~crossed => Claims(req[w], f, engine)
      BY <1>0, <2>1, <2>3 DEF Claims, Read
    <3> QED BY <2>1, <2>2, <2>3, <2>4, <3>2, <3>3, RefreshGoes DEF RefreshHeld
  <2>5. CASE ~Loadable(refreshes[w].data)
    <3>1. RefreshHolds(g, vouched, dataset)
      BY <2>3 DEF RefreshHolds, Read
    <3>2. ~crossed => Claims(req[w], g, engine)
      BY <1>0, <2>1, <2>3 DEF Claims, Read
    <3> QED BY <2>1, <2>2, <2>3, <2>5, <3>1, <3>2, RefreshGoes
  <2> QED BY <2>4, <2>5
<1> QED BY <1>1, <1>2

\* A cell is published, each with the same data and the lists first.
LEMMA CellPublished ==
    ASSUME FeedInv, NEW w \in Workers, PublishCell(w)
    PROVE  FeedInv'
<1>0. /\ engine \in [Cells -> Moments] /\ dataset \in Moments /\ crossed \in BOOLEAN
      /\ trail \subseteq EntryRow /\ (\A e \in trail : Sound(e, vouched))
      /\ \A c \in Cells : Genuine(engine[c], vouched) /\ engine[c].at <= dataset.at
      /\ ~crossed => engine["metadata"].at <= engine["lists"].at
  BY DEF FeedInv, FeedTypes, CellsHold, Uncrossed
<1>1. PICK cell \in Cells :
          /\ refreshes[w].at = cell
          /\ engine' = [engine EXCEPT ![cell] = refreshes[w].data]
          /\ Refresh(w, [refreshes[w] EXCEPT
                           !.at = CASE cell = "lists" -> "stamps" [] cell = "stamps" -> "metadata"
                                    [] cell = "metadata" -> "acknowledged"])
  <2>1. DOMAIN engine = Cells
    BY <1>0
  <2> QED BY <2>1 DEF PublishCell, Lives
<1> DEFINE next == CASE cell = "lists" -> "stamps" [] cell = "stamps" -> "metadata"
                     [] cell = "metadata" -> "acknowledged"
           d == refreshes[w].data
           f == [refreshes[w] EXCEPT !.at = next]
           r == req[w]
<1>2. /\ cell = "lists" => next = "stamps"
      /\ cell = "stamps" => next = "metadata"
      /\ cell = "metadata" => next = "acknowledged"
      /\ cell \in {"lists", "stamps", "metadata"}
  BY DEF Cells
<1>3. /\ refreshes[w] \in Running /\ RefreshHolds(refreshes[w], vouched, dataset)
      /\ RefreshFits(r, refreshes[w], dataset) /\ QueryHolds(r, vouched, evaluating)
      /\ ~crossed => Claims(r, refreshes[w], engine)
      /\ r \in FeedHeld
  BY <1>1, <1>2, FeedRequest DEF Read
<1>4. /\ refreshes' = [refreshes EXCEPT ![w] = f] /\ req' = [req EXCEPT ![w] = r]
      /\ engine' = [engine EXCEPT ![cell] = d]
      /\ UNCHANGED <<mined, deep, hour, dataset, digest, vouched, crossed, evaluating, trail>>
  BY <1>1 DEF Refresh, shared, FeedInv, FeedTypes
<1> HIDE DEF next, r
<1>5. /\ f \in Running /\ f.at = next /\ f.data = d /\ d \in Moments
      /\ Genuine(d, vouched) /\ d.at <= dataset.at
  BY <1>1, <1>2, <1>3 DEF Running, Read, RefreshHolds
<1> HIDE DEF f, d
<1>6. /\ engine' \in [Cells -> Moments] /\ engine'[cell] = d
      /\ \A c \in Cells \ {cell} : engine'[c] = engine[c]
  BY <1>0, <1>4, <1>5
<1>7. \A c \in Cells : Genuine(engine'[c], vouched) /\ engine'[c].at <= dataset.at
  BY <1>0, <1>5, <1>6
<1>8. RefreshHolds(f, vouched, dataset) /\ f \in RefreshHeld
  BY <1>5 DEF RefreshHolds, RefreshHeld
<1>9. RefreshFits(r, f, dataset)
  BY <1>1, <1>2, <1>3 DEF RefreshFits
<1>10. ASSUME ~crossed PROVE Claims(r, f, engine') /\ engine'["metadata"].at <= engine'["lists"].at
  <2>1. Claims(r, refreshes[w], engine) /\ refreshes[w].data = d /\ engine["metadata"].at <= engine["lists"].at
    BY <1>0, <1>3, <1>10 DEF d
  <2>2. /\ engine["lists"].at \in Nat /\ engine["metadata"].at \in Nat /\ d.at \in Nat
    BY <1>0, <1>5 DEF Moments, Cells
  <2>3. r.at \in {"health", "metadata", "judge"} => r.for # "update"
    BY <1>1, <1>2, <1>3 DEF RefreshFits
  <2>4. r.at = "refresh" => r.asked <= d.at
    BY <1>1, <1>2, <2>1 DEF Claims, Read
  <2>5. CASE cell = "lists"
    <3>1. engine'["lists"] = d /\ engine'["metadata"] = engine["metadata"]
      BY <1>6, <2>5 DEF Cells
    <3>2. engine["lists"].at <= d.at
      BY <1>1, <2>1, <2>5 DEF Claims
    <3>3. engine'["metadata"].at <= engine'["lists"].at
      BY <2>1, <2>2, <3>1, <3>2
    <3> QED BY <1>2, <1>5, <2>3, <2>4, <2>5, <3>1, <3>3 DEF Claims
  <2>6. CASE cell = "stamps"
    <3>1. engine'["lists"] = engine["lists"] /\ engine'["metadata"] = engine["metadata"]
      BY <1>6, <2>6 DEF Cells
    <3>2. engine["lists"] = d
      BY <1>1, <2>1, <2>6 DEF Claims
    <3> QED BY <1>2, <1>5, <2>1, <2>3, <2>4, <2>6, <3>1, <3>2 DEF Claims
  <2>7. CASE cell = "metadata"
    <3>1. engine'["lists"] = engine["lists"] /\ engine'["metadata"] = d
      BY <1>6, <2>7 DEF Cells
    <3>2. engine["lists"] = d
      BY <1>1, <2>1, <2>7 DEF Claims
    <3>3. engine'["metadata"].at <= engine'["lists"].at
      BY <2>2, <3>1, <3>2
    <3> QED BY <1>2, <1>5, <2>3, <2>4, <2>7, <3>1, <3>2, <3>3 DEF Claims
  <2> QED BY <1>2, <2>5, <2>6, <2>7
<1>11. ~crossed => \A v \in Workers \ {w} : ~Busy(req[v], refreshes[v])
  BY <1>1, <1>2 DEF FeedInv, Uncrossed, Busy
<1> QED BY <1>0, <1>3, <1>4, <1>6, <1>7, <1>8, <1>9, <1>10, <1>11, FeedGoes

LEMMA UpdateAsked ==
    ASSUME FeedInv, NEW w \in Workers, AskUpdate(w)
    PROVE  FeedInv'
<1> DEFINE since == IF Loadable(dataset) THEN dataset.at ELSE 0
           r == [Query("update") EXCEPT !.at = "refresh", !.asked = since]
           f == [at |-> "read"]
           both == \E v \in Workers : Updating(v)
<1>1. /\ req[w] = Idle /\ refreshes[w].at = "idle" /\ ~evaluating
      /\ req' = [req EXCEPT ![w] = r] /\ refreshes' = [refreshes EXCEPT ![w] = f]
      /\ crossed' = (crossed \/ both)
      /\ UNCHANGED <<mined, deep, trail, hour, dataset, digest, vouched, engine, evaluating>>
  BY DEF AskUpdate, Proceed, Goto, Lives, Keep
<1>2. dataset \in Moments /\ crossed \in BOOLEAN /\ evaluating \in BOOLEAN
  BY DEF FeedInv, FeedTypes
<1>3. since \in Nat /\ since <= dataset.at
  BY <1>2 DEF Moments
<1>4. First \in Moments
  BY DEF First, Moments
<1> HIDE DEF since
<1>5. r \in Asking /\ r.at = "refresh" /\ r.for = "update" /\ r.asked = since
  BY <1>3, <1>4 DEF Query, Asking, ReportsAnswered
<1>6. f \in RefreshHeld /\ f.at = "read"
  BY DEF RefreshHeld
<1> HIDE DEF r, f
<1>7. QueryHolds(r, vouched, evaluating) /\ RefreshHolds(f, vouched, dataset)
      /\ RefreshFits(r, f, dataset) /\ Claims(r, f, engine)
  BY <1>1, <1>2, <1>3, <1>5, <1>6 DEF QueryHolds, RefreshHolds, RefreshFits, Claims, Read
<1>8. crossed' \in BOOLEAN /\ (~crossed' => ~crossed)
      /\ (~crossed' => \A v \in Workers : ~Busy(req[v], refreshes[v]))
  BY <1>1, <1>2 DEF Updating, Lives, Busy
<1>9. /\ trail \subseteq EntryRow /\ \A e \in trail : Sound(e, vouched)
      /\ engine \in [Cells -> Moments]
      /\ \A c \in Cells : Genuine(engine[c], vouched) /\ engine[c].at <= dataset.at
      /\ ~crossed => engine["metadata"].at <= engine["lists"].at
  BY DEF FeedInv, FeedTypes, CellsHold, Uncrossed
<1>10. r \in FeedHeld
  BY <1>5 DEF FeedHeld
<1> HIDE DEF both
<1> QED BY <1>1, <1>6, <1>7, <1>8, <1>9, <1>10, FeedGoes

LEMMA UpdateAcknowledged ==
    ASSUME FeedInv, NEW w \in Workers, Acknowledged(w)
    PROVE  FeedInv'
<1>0. /\ trail \subseteq EntryRow /\ (\A e \in trail : Sound(e, vouched))
      /\ engine \in [Cells -> Moments] /\ crossed \in BOOLEAN /\ evaluating \in BOOLEAN
      /\ \A c \in Cells : Genuine(engine[c], vouched) /\ engine[c].at <= dataset.at
      /\ ~crossed => engine["metadata"].at <= engine["lists"].at
  BY DEF FeedInv, FeedTypes, CellsHold, Uncrossed
<1>1. /\ refreshes[w].at \in {"acknowledged", "refused"}
      /\ refreshes' = [refreshes EXCEPT ![w] = NoRefresh]
      /\ UNCHANGED <<mined, deep, trail, hour, dataset, digest, vouched, engine, crossed, evaluating>>
  BY DEF Acknowledged, Keep, Proceed, shared
<1>2. /\ req[w] \in FeedHeld /\ QueryHolds(req[w], vouched, evaluating)
      /\ RefreshFits(req[w], refreshes[w], dataset)
      /\ ~crossed => Claims(req[w], refreshes[w], engine)
  BY FeedRequest
<1>3. ~crossed => \A v \in Workers \ {w} : ~Busy(req[v], refreshes[v])
  BY <1>1 DEF FeedInv, Uncrossed, Busy
<1>4. ASSUME NEW r \in FeedHeld, req' = [req EXCEPT ![w] = r], QueryHolds(r, vouched, evaluating),
             RefreshFits(r, NoRefresh, dataset), ~crossed => Claims(r, NoRefresh, engine)
      PROVE  FeedInv'
  BY <1>0, <1>1, <1>3, <1>4, IdleFeeds, FeedGoes
<1>5. CASE ~At(w, "refresh")
  <2> DEFINE r == req[w]
  <2>1. req' = [req EXCEPT ![w] = r]
    BY <1>5 DEF Acknowledged, shared, FeedInv, FeedTypes
  <2>2. r.at \in {"health", "metadata", "judge", "audit"} => r.for # "update"
    BY <1>1, <1>2 DEF RefreshFits
  <2>3. r.at # "refresh"
    BY <1>5 DEF At
  <2> HIDE DEF r
  <2>4. RefreshFits(r, NoRefresh, dataset) /\ Claims(r, NoRefresh, engine)
    BY <2>2, <2>3, IdleFeeds DEF RefreshFits, Claims, Read
  <2>5. r \in FeedHeld /\ QueryHolds(r, vouched, evaluating)
    BY <1>2 DEF r
  <2> QED BY <1>4, <2>1, <2>4, <2>5
<1>6. CASE At(w, "refresh") /\ refreshes[w].at = "refused"
  <2>1. req' = [req EXCEPT ![w] = Idle]
    BY <1>6 DEF Acknowledged, Lives, Proceed, Goto
  <2>2. Claims(Idle, NoRefresh, engine)
    BY IdleFeeds, IdleRests DEF Claims, Read
  <2> QED BY <1>4, <2>1, <2>2, IdleFeeds
<1>7. CASE At(w, "refresh") /\ refreshes[w].at = "acknowledged"
  <2> DEFINE r == [req[w] EXCEPT !.at = "health"]
  <2>1. req' = [req EXCEPT ![w] = r]
    BY <1>7 DEF Acknowledged, Lives, Proceed, Goto
  <2>2. req[w] \in Asking /\ req[w].at = "refresh" /\ req[w].for = "update"
    BY <1>2, <1>7, FeedRequest DEF At, RefreshFits
  <2>3. r \in Asking /\ r.at = "health" /\ r.for = "update" /\ r.asked = req[w].asked
        /\ r.compliance = req[w].compliance
    BY <2>2 DEF Asking
  <2> HIDE DEF r
  <2>4. QueryHolds(r, vouched, evaluating)
    BY <1>2, <2>2, <2>3 DEF QueryHolds
  <2>5. RefreshFits(r, NoRefresh, dataset)
    BY <1>2, <2>2, <2>3, IdleFeeds DEF RefreshFits
  <2>6. ~crossed => Claims(r, NoRefresh, engine)
    BY <1>2, <1>7, <2>2, <2>3, IdleFeeds DEF Claims, Read
  <2> QED BY <1>4, <2>1, <2>3, <2>4, <2>5, <2>6 DEF FeedHeld
<1> QED BY <1>1, <1>5, <1>6, <1>7

LEMMA HealthSteps ==
    ASSUME FeedInv, NEW w \in Workers, HealthStamps(w) \/ HealthMetadata(w)
    PROVE  FeedInv'
<1>0. /\ engine["stamps"] \in Moments /\ engine["metadata"] \in Moments /\ engine["lists"] \in Moments
      /\ Genuine(engine["metadata"], vouched)
      /\ ~crossed => engine["metadata"].at <= engine["lists"].at
  BY DEF FeedInv, FeedTypes, CellsHold, Uncrossed, Cells
<1>1. /\ QueryHolds(req[w], vouched, evaluating) /\ RefreshFits(req[w], refreshes[w], dataset)
      /\ ~crossed => Claims(req[w], refreshes[w], engine)
      /\ req[w] \in Asking /\ req[w].at \in {"health", "metadata"} /\ req[w] # Idle
  BY FeedRequest DEF HealthStamps, HealthMetadata, At
<1>2. UNCHANGED <<mined, deep, trail, feedVars>>
  BY DEF HealthStamps, HealthMetadata, Proceed
<1>3. CASE HealthStamps(w)
  <2> DEFINE r == [req[w] EXCEPT !.at = "metadata", !.stamps = engine["stamps"]]
  <2>1. Goto(w, r) /\ req[w].at = "health"
    BY <1>3 DEF HealthStamps, Proceed, At
  <2>2. /\ r \in Asking /\ r.at = "metadata" /\ r.for = req[w].for /\ r.asked = req[w].asked
    BY <1>0, <1>1 DEF Asking
  <2> HIDE DEF r
  <2>3. QueryHolds(r, vouched, evaluating) /\ RefreshFits(r, refreshes[w], dataset)
    BY <1>1, <2>1, <2>2 DEF QueryHolds, RefreshFits
  <2>4. Busy(r, refreshes[w]) => Busy(req[w], refreshes[w])
    BY <1>1, <2>2 DEF Busy
  <2>5. ~crossed => Claims(r, refreshes[w], engine)
    BY <1>1, <2>1, <2>2 DEF Claims
  <2> QED BY <1>2, <2>1, <2>2, <2>3, <2>4, <2>5, QueryGoes DEF FeedHeld
<1>4. CASE HealthMetadata(w)
  <2> DEFINE r == [req[w] EXCEPT !.at = "judge", !.metadata = engine["metadata"]]
  <2>1. Goto(w, r) /\ req[w].at = "metadata"
    BY <1>4 DEF HealthMetadata, Proceed, At
  <2>2. /\ r \in Asking /\ r.at = "judge" /\ r.for = req[w].for /\ r.asked = req[w].asked
        /\ r.metadata = engine["metadata"]
    BY <1>0, <1>1 DEF Asking
  <2> HIDE DEF r
  <2>3. QueryHolds(r, vouched, evaluating) /\ RefreshFits(r, refreshes[w], dataset)
    BY <1>0, <1>1, <2>1, <2>2 DEF QueryHolds, RefreshFits
  <2>4. Busy(r, refreshes[w]) => Busy(req[w], refreshes[w])
    BY <1>1, <2>2 DEF Busy
  <2>5. ~crossed => Claims(r, refreshes[w], engine)
    BY <1>0, <1>1, <2>1, <2>2 DEF Claims
  <2> QED BY <1>2, <2>1, <2>2, <2>3, <2>4, <2>5, QueryGoes DEF FeedHeld
<1> QED BY <1>3, <1>4

\* The answer is judged by the hour at which it is there.
LEMMA AnswerJudged ==
    ASSUME FeedInv, NEW w \in Workers, Judge(w)
    PROVE  FeedInv'
<1>1. /\ QueryHolds(req[w], vouched, evaluating) /\ RefreshFits(req[w], refreshes[w], dataset)
      /\ ~crossed => Claims(req[w], refreshes[w], engine)
      /\ req[w] \in Asking /\ req[w].at = "judge" /\ req[w] # Idle
  BY FeedRequest DEF Judge, At
<1>2. /\ UNCHANGED <<mined, deep, trail, feedVars>>
      /\ ~(hour - req[w].stamps.at > MaxAge) /\ ~(hour - req[w].metadata.at > MaxAge)
  BY DEF Judge, Proceed, Validated, Old
<1>3. /\ req[w].stamps \in Moments /\ req[w].metadata \in Moments /\ req[w].asked \in Nat
      /\ req[w].for \in {"update", "readiness"} /\ hour \in Nat /\ engine["lists"] \in Moments
      /\ crossed \in BOOLEAN
  BY <1>1 DEF Asking, FeedInv, FeedTypes, Cells
<1>4. hour - req[w].stamps.at <= MaxAge /\ hour - req[w].metadata.at <= MaxAge
  BY <1>2, <1>3, FeedAssumption DEF Moments
<1>5. CASE req[w].for = "update"
  <2> DEFINE e == [event |-> "SANCTIONS_UPDATED", asked |-> req[w].asked, judged |-> hour,
                   named |-> req[w].metadata, stamps |-> req[w].stamps,
                   served |-> engine["lists"], crossed |-> crossed]
             r == [at |-> "audit", for |-> "update", entry |-> e]
  <2>1. Goto(w, r)
    BY <1>5 DEF Judge, Proceed
  <2>2. /\ e \in EntryRow /\ e.asked = req[w].asked /\ e.judged = hour /\ e.named = req[w].metadata
        /\ e.stamps = req[w].stamps /\ e.served = engine["lists"] /\ e.crossed = crossed
    BY <1>3 DEF EntryRow
  <2> HIDE DEF e
  <2>3. r \in Reporting /\ r.at = "audit" /\ r.for = "update" /\ r.entry = e
    BY <2>2 DEF Reporting
  <2> HIDE DEF r
  <2>4. Sound(e, vouched)
    <3>1. e.crossed = TRUE \/ (e.asked <= e.named.at /\ e.named.at <= e.served.at)
      BY <1>1, <1>3, <1>5, <2>2 DEF Claims
    <3>2. Genuine(e.named, vouched)
      BY <1>1, <2>2 DEF QueryHolds
    <3> QED BY <1>4, <2>2, <3>1, <3>2 DEF Sound
  <2>5. evaluating # TRUE
    BY <1>1 DEF QueryHolds
  <2>6. QueryHolds(r, vouched, evaluating)
    BY <2>3, <2>4, <2>5 DEF QueryHolds
  <2>7. RefreshFits(r, refreshes[w], dataset)
    BY <1>1, <1>5, <2>3 DEF RefreshFits
  <2>8. Busy(r, refreshes[w]) => Busy(req[w], refreshes[w])
    BY <1>1, <1>5 DEF Busy
  <2>9. ~crossed => Claims(r, refreshes[w], engine)
    BY <1>1, <2>3 DEF Claims
  <2> QED BY <1>2, <2>1, <2>3, <2>6, <2>7, <2>8, <2>9, QueryGoes DEF FeedHeld
<1>6. CASE req[w].for = "readiness"
  <2> DEFINE r == [Query("readiness") EXCEPT !.at = "probed", !.compliance = "ready"]
  <2>1. Goto(w, r)
    BY <1>6 DEF Judge, Proceed
  <2>2. First \in Moments
    BY DEF First, Moments
  <2>3. r \in Asking /\ r.at = "probed" /\ r.for = "readiness"
    BY <2>2 DEF Query, Asking, ReportsAnswered
  <2> HIDE DEF r
  <2>4. evaluating # TRUE
    BY <1>1 DEF QueryHolds
  <2>5. QueryHolds(r, vouched, evaluating) /\ RefreshFits(r, refreshes[w], dataset)
    BY <2>3, <2>4 DEF QueryHolds, RefreshFits
  <2>6. Busy(r, refreshes[w]) => Busy(req[w], refreshes[w])
    BY <2>3 DEF Busy
  <2>7. ~crossed => Claims(r, refreshes[w], engine)
    BY <1>1, <2>3 DEF Claims
  <2> QED BY <1>2, <2>1, <2>3, <2>5, <2>6, <2>7, QueryGoes DEF FeedHeld
<1> QED BY <1>3, <1>5, <1>6

LEMMA ReadinessSteps ==
    ASSUME FeedInv, NEW w \in Workers, AskReadiness(w) \/ Settled(w)
    PROVE  FeedInv'
<1>0. UNCHANGED <<mined, deep, trail, feedVars>> /\ First \in Moments /\ evaluating \in BOOLEAN
  BY DEF AskReadiness, Settled, Proceed, First, Moments, FeedInv, FeedTypes
<1>1. /\ QueryHolds(req[w], vouched, evaluating) /\ RefreshFits(req[w], refreshes[w], dataset)
      /\ ~crossed => Claims(req[w], refreshes[w], engine)
  BY FeedRequest
<1>2. ASSUME NEW r \in FeedHeld, Goto(w, r), r.for = "readiness", r.at \in {"health", "probed", "settled"},
             evaluating => r.at # "health" /\ r.compliance # "ready"
      PROVE  FeedInv'
  <2>1. QueryHolds(r, vouched, evaluating) /\ RefreshFits(r, refreshes[w], dataset)
    BY <1>2 DEF QueryHolds, RefreshFits
  <2>2. Busy(r, refreshes[w]) => Busy(req[w], refreshes[w])
    BY <1>2 DEF Busy
  <2>3. ~crossed => Claims(r, refreshes[w], engine)
    BY <1>1, <1>2 DEF Claims
  <2> QED BY <1>0, <1>2, <2>1, <2>2, <2>3, QueryGoes
<1>3. CASE AskReadiness(w)
  <2> DEFINE p == [Query("readiness") EXCEPT !.at = "probed", !.compliance = Unconfigured]
             q == Query("readiness")
  <2>1. IF evaluating THEN Goto(w, p) ELSE Goto(w, q)
    BY <1>3 DEF AskReadiness, Proceed
  <2>2. /\ p \in Asking /\ p.at = "probed" /\ p.for = "readiness" /\ p.compliance = Unconfigured
        /\ q \in Asking /\ q.at = "health" /\ q.for = "readiness"
    BY <1>0 DEF Query, Asking, ReportsAnswered
  <2> HIDE DEF p, q
  <2>3. Unconfigured # "ready"
    BY DEF Unconfigured
  <2> QED BY <1>0, <1>2, <2>1, <2>2, <2>3 DEF FeedHeld
<1>4. CASE Settled(w)
  <2>1. PICK answered \in BOOLEAN :
            Goto(w, [at |-> "settled", for |-> "readiness", compliance |-> req[w].compliance,
                     ready |-> answered /\ req[w].compliance # "unavailable"])
    BY <1>4 DEF Settled, Proceed
  <2> DEFINE all == answered /\ req[w].compliance # "unavailable"
             r == [at |-> "settled", for |-> "readiness", compliance |-> req[w].compliance,
                   ready |-> all]
  <2>2. req[w] \in Asking
    BY <1>4, FeedRequest DEF Settled, At, FeedHeld, Reporting, Probed, Pricing, Quoted
  <2>3. all \in BOOLEAN /\ Goto(w, r)
    BY <2>1
  <2> HIDE DEF all
  <2>4. r \in Probed /\ r.at = "settled" /\ r.for = "readiness" /\ r.compliance = req[w].compliance
    BY <2>2, <2>3 DEF Asking, Probed
  <2> HIDE DEF r
  <2>5. evaluating => req[w].compliance # "ready"
    BY <1>0, <1>1, <2>2 DEF QueryHolds, Asking
  <2> QED BY <1>2, <2>3, <2>4, <2>5 DEF FeedHeld
<1> QED BY <1>3, <1>4

LEMMA RateSteps ==
    ASSUME FeedInv, NEW w \in Workers, AskRates(w) \/ RatesArrive(w)
    PROVE  FeedInv'
<1>0. UNCHANGED <<mined, deep, trail, feedVars>> /\ hour \in Nat
  BY DEF AskRates, RatesArrive, Proceed, FeedInv, FeedTypes
<1>1. ~crossed => Claims(req[w], refreshes[w], engine)
  BY FeedRequest
<1>2. ASSUME NEW r \in FeedHeld, Goto(w, r), r.for = "rates", r.at \in {"rates", "quoted"},
             r.at = "quoted" => r.age <= MaxAge
      PROVE  FeedInv'
  <2>1. QueryHolds(r, vouched, evaluating) /\ RefreshFits(r, refreshes[w], dataset)
    BY <1>2 DEF QueryHolds, RefreshFits
  <2>2. Busy(r, refreshes[w]) => Busy(req[w], refreshes[w])
    BY <1>2 DEF Busy
  <2>3. ~crossed => Claims(r, refreshes[w], engine)
    BY <1>1, <1>2 DEF Claims
  <2> QED BY <1>0, <1>2, <2>1, <2>2, <2>3, QueryGoes
<1>3. CASE AskRates(w)
  <2>1. PICK rate \in 0..hour :
            Goto(w, [at |-> "rates", for |-> "rates", asked |-> hour, rate |-> rate])
    BY <1>3 DEF AskRates, Proceed
  <2> DEFINE r == [at |-> "rates", for |-> "rates", asked |-> hour, rate |-> rate]
  <2>2. r \in Pricing /\ r.at = "rates" /\ r.for = "rates" /\ Goto(w, r)
    BY <1>0, <2>1 DEF Pricing
  <2> HIDE DEF r
  <2> QED BY <1>2, <2>2 DEF FeedHeld
<1>4. CASE RatesArrive(w)
  <2> DEFINE age == hour - req[w].rate
             r == [at |-> "quoted", for |-> "rates", age |-> age]
  <2>1. req[w] \in Pricing /\ ~(age > MaxAge) /\ Goto(w, r)
    BY <1>4, FeedRequest DEF RatesArrive, At, FreshOnArrival, Old, Proceed
  <2>2. age \in Int /\ age <= MaxAge
    BY <1>0, <2>1, FeedAssumption DEF Pricing
  <2> HIDE DEF age
  <2>3. r \in Quoted /\ r.at = "quoted" /\ r.for = "rates" /\ r.age = age
    BY <2>2 DEF Quoted
  <2> HIDE DEF r
  <2> QED BY <1>2, <2>1, <2>2, <2>3 DEF FeedHeld
<1> QED BY <1>3, <1>4

LEMMA UpdateReported ==
    ASSUME FeedInv, RequestStep, UNCHANGED feedVars
    PROVE  FeedInv'
<1>1. PICK w \in Workers : Audit(w) \/ Fail(w)
  BY DEF RequestStep
<1>2. /\ Goto(w, Idle) /\ UNCHANGED <<mined, deep>>
      /\ trail' = trail \/ (At(w, "audit") /\ trail' = trail \cup {req[w].entry})
  BY <1>1 DEF Audit, Fail, Done
<1> DEFINE f == refreshes[w]
<1>3. /\ f \in RefreshHeld /\ refreshes' = [refreshes EXCEPT ![w] = f]
      /\ RefreshHolds(f, vouched, dataset) /\ (~crossed => Claims(req[w], f, engine))
  BY FeedRequest DEF FeedInv, FeedTypes, feedVars
<1>4. /\ UNCHANGED <<mined, deep, hour, dataset, digest, vouched, evaluating, engine, crossed>>
      /\ req' = [req EXCEPT ![w] = Idle]
  BY <1>2 DEF feedVars, Goto
<1>5. trail' \subseteq EntryRow /\ \A e \in trail' : Sound(e, vouched)
  <2>1. At(w, "audit") => req[w].entry \in EntryRow /\ Sound(req[w].entry, vouched)
    BY FeedRequest DEF At, Reporting, QueryHolds
  <2> QED BY <1>2, <2>1 DEF FeedInv, FeedTypes
<1>6. /\ engine \in [Cells -> Moments] /\ crossed \in BOOLEAN
      /\ \A c \in Cells : Genuine(engine[c], vouched) /\ engine[c].at <= dataset.at
      /\ ~crossed => engine["metadata"].at <= engine["lists"].at
  BY DEF FeedInv, FeedTypes, CellsHold, Uncrossed
<1>7. ~crossed /\ Busy(Idle, f) => \A v \in Workers \ {w} : ~Busy(req[v], refreshes[v])
  BY DEF FeedInv, Uncrossed, Busy
<1> HIDE DEF f
<1>8. RefreshFits(Idle, f, dataset) /\ (~crossed => Claims(Idle, f, engine))
  BY <1>3, IdleFeeds, IdleRests DEF Claims
<1> QED BY <1>3, <1>4, <1>5, <1>6, <1>7, <1>8, IdleFeeds, FeedGoes

LEMMA FeedStep == FeedInv /\ [FeedNext]_<<shared, feedVars>> => FeedInv'
<1> SUFFICES ASSUME FeedInv, [FeedNext]_<<shared, feedVars>> PROVE FeedInv'
  OBVIOUS
<1>1. CASE HourPasses \/ PublishFile \/ PublishDigest \/ RestartService
  BY <1>1, WorldSteps, ServiceRestarts
<1>2. CASE \E w \in Workers : ReadDataset(w) \/ CheckDataset(w) \/ PublishCell(w)
  BY <1>2, RefreshSteps, CellPublished
<1>3. CASE \E w \in Workers : AskUpdate(w) \/ Acknowledged(w)
  BY <1>3, UpdateAsked, UpdateAcknowledged
<1>4. CASE \E w \in Workers : HealthStamps(w) \/ HealthMetadata(w) \/ Judge(w)
  BY <1>4, HealthSteps, AnswerJudged
<1>5. CASE \E w \in Workers : AskReadiness(w) \/ Settled(w) \/ AskRates(w) \/ RatesArrive(w)
  BY <1>5, ReadinessSteps, RateSteps
<1>6. CASE RequestStep /\ UNCHANGED feedVars
  BY <1>6, UpdateReported
<1>7. CASE UNCHANGED <<shared, feedVars>>
  BY <1>7 DEF shared, feedVars, FeedInv, FeedTypes, CellsHold, Uncrossed
<1> QED BY <1>1, <1>2, <1>3, <1>4, <1>5, <1>6, <1>7 DEF FeedNext

LEMMA FeedProves == FeedInv => FeedsTrue
<1> SUFFICES ASSUME FeedInv PROVE FeedsTrue
  OBVIOUS
<1>1. ASSUME NEW e \in trail
      PROVE  /\ e.named.whole /\ e.named \in vouched
             /\ e.judged - e.named.at <= MaxAge /\ e.judged - e.stamps.at <= MaxAge
             /\ e.crossed \/ (e.asked <= e.named.at /\ e.named.at <= e.served.at)
  BY DEF FeedInv, Sound, Genuine
<1>2. ASSUME NEW w \in Workers
      PROVE  /\ At(w, "settled") /\ evaluating => req[w].compliance # "ready"
             /\ At(w, "quoted") => req[w].age <= MaxAge
  BY FeedRequest DEF At, QueryHolds, FeedInv, FeedTypes
<1> QED BY <1>1, <1>2 DEF FeedsTrue

----------------------------------------------------------------------------
(***************************************************************************)
(* Paged lists (services/payment.ts).  Every row of the start not met yet  *)
(* is listed behind the pages read, since rows are only added in front of  *)
(* rows or behind them and none leaves.                                    *)
(***************************************************************************)
ListTypes ==
    /\ list \in [of : {"payments", "flagged", "reports"}, order : {"asc", "desc"}]
    /\ table \in [Ids -> {NotThere} \cup [time : Times, status : RowStatuses]]
    /\ reading \in [page : Nat, read : SUBSET {"rows", "total"}, rows : SUBSET Ids, total : Nat]
    /\ reading.page = 0 => reading = NotAsked
    /\ answer \in [page : Nat, pages : Nat]
    /\ answer.page = 0 => answer = NoPage
    /\ IsFiniteSet(Present) /\ began \subseteq Present /\ met \subseteq Ids

\* How many rows are listed in front of a row.
Rank(r) == Cardinality({s \in Present : Ahead(s, r)})

\* Every row still to be shown is behind the offset of the next page; and where
\* the rows were counted with the page, the last page leaves none.
Unmet ==
    /\ reading.page = 0 /\ answer.page > 0 =>
          \A r \in began \ met : Rank(r) >= answer.page * PerPage
    /\ reading.page = 0 /\ answer.page > 0 /\ answer.page >= answer.pages => began \subseteq met
    /\ reading.page # 0 /\ "rows" \notin reading.read =>
          \A r \in began \ met : Rank(r) >= (reading.page - 1) * PerPage
    /\ "rows" \in reading.read =>
          \A r \in began \ (met \cup reading.rows) : Rank(r) >= reading.page * PerPage
    /\ reading.read = {"total"} => began = {} \/ reading.total = Cardinality(Present)
    /\ reading.read = {"rows", "total"} /\ reading.total <= reading.page * PerPage =>
          began \subseteq met \cup reading.rows

ListInv == ListTypes /\ (filter = "all" /\ TotallyOrdered => Unmet)

LEMMA NotAskedIs ==
    /\ NotAsked.page = 0 /\ NotAsked.read = {} /\ NotAsked.rows = {} /\ NotAsked.total = 0
    /\ NotAsked \in [page : Nat, read : SUBSET {"rows", "total"}, rows : SUBSET Ids, total : Nat]
    /\ NoPage \in [page : Nat, pages : Nat] /\ NoPage.page = 0 /\ NoPage.pages = 0
BY DEF NotAsked, NoPage

LEMMA ListStart == ListingInit => ListInv
<1> SUFFICES ASSUME ListingInit PROVE ListInv
  OBVIOUS
<1>1. Present = {}
  BY DEF ListingInit, Present
<1>2. ListTypes
  <2>1. IsFiniteSet(Present)
    BY <1>1, FS_EmptySet
  <2> QED BY <1>1, <2>1, NotAskedIs DEF ListingInit, ListTypes
<1>3. Unmet
  BY NotAskedIs DEF ListingInit, Unmet
<1> QED BY <1>2, <1>3 DEF ListInv

LEMMA ListShapes ==
    ASSUME ListTypes
    PROVE  /\ list.of \in {"payments", "flagged", "reports"} /\ list.order \in {"asc", "desc"}
           /\ reading.page \in Nat /\ reading.read \subseteq {"rows", "total"}
           /\ reading.rows \subseteq Ids /\ reading.total \in Nat
           /\ answer.page \in Nat /\ answer.pages \in Nat
           /\ \A r \in Present : table[r].time \in Nat
           /\ Ids \subseteq Nat /\ Present \subseteq Ids /\ PerPage \in Nat /\ PerPage > 0
           /\ IsFiniteSet(Present)
<1>1. ASSUME NEW r \in Present PROVE table[r].time \in Nat
  <2>1. table[r] \in [time : Times, status : RowStatuses]
    BY <1>1 DEF ListTypes, Present
  <2> QED BY <2>1, ListingAssumption
<1> QED BY <1>1, ListingAssumption DEF ListTypes, Present

LEMMA RankCounts ==
    ASSUME ListTypes, NEW r
    PROVE  IsFiniteSet({s \in Present : Ahead(s, r)}) /\ Rank(r) \in Nat
<1>1. IsFiniteSet(Present) /\ {s \in Present : Ahead(s, r)} \in SUBSET Present
  BY DEF ListTypes
<1> QED BY <1>1, FS_Subset, FS_CardinalityType DEF Rank

\* The order of the rows, where no two are alike.
LEMMA AheadOrders ==
    ASSUME ListTypes, TotallyOrdered
    PROVE  /\ \A r \in Present : ~Ahead(r, r)
           /\ \A r, s \in Present : r # s => Ahead(r, s) \/ Ahead(s, r)
<1>1. /\ \A r \in Present : table[r].time \in Nat /\ r \in Nat
      /\ list.order \in {"asc", "desc"}
  BY ListShapes
<1>2. ASSUME NEW r \in Present PROVE ~Ahead(r, r)
  BY <1>1 DEF Ahead, SortKey
<1>3. ASSUME NEW r \in Present, NEW s \in Present, r # s
      PROVE  Ahead(r, s) \/ Ahead(s, r)
  <2>1. table[r].time \in Nat /\ table[s].time \in Nat /\ r \in Nat /\ s \in Nat
    BY <1>1
  <2>2. CASE table[r].time # table[s].time
    BY <1>1, <2>1, <2>2 DEF Ahead, SortKey
  <2>3. CASE table[r].time = table[s].time
    <3>1. list.of \in TieBroken
      BY <1>3, <2>3 DEF TotallyOrdered
    <3> QED BY <1>1, <1>3, <2>1, <2>3, <3>1 DEF Ahead, SortKey
  <2> QED BY <2>2, <2>3
<1> QED BY <1>2, <1>3

LEMMA RankBelow ==
    ASSUME ListTypes, TotallyOrdered, NEW r \in Present
    PROVE  Rank(r) < Cardinality(Present)
<1> DEFINE H == {s \in Present : Ahead(s, r)}
<1>1. ~Ahead(r, r) /\ IsFiniteSet(Present)
  BY AheadOrders DEF ListTypes
<1>2. H \in SUBSET (Present \ {r})
  BY <1>1
<1>3. IsFiniteSet(Present \ {r}) /\ Cardinality(Present \ {r}) = Cardinality(Present) - 1
  BY <1>1, FS_RemoveElement
<1>4. Rank(r) = Cardinality(H)
  BY DEF Rank
<1> HIDE DEF H
<1>5. Cardinality(H) <= Cardinality(Present) - 1 /\ IsFiniteSet(H)
  BY <1>2, <1>3, FS_Subset
<1>6. Cardinality(H) \in Nat /\ Cardinality(Present) \in Nat
  BY <1>1, <1>5, FS_CardinalityType
<1> QED BY <1>4, <1>5, <1>6

\* The first n rows are those with fewer than n in front of them.
LEMMA FrontsRanked ==
    ASSUME ListTypes, TotallyOrdered, NEW n \in Nat, NEW U \in Fronts(Present, n), NEW r \in Present
    PROVE  r \in U <=> Rank(r) < n
<1> DEFINE H == {s \in Present : Ahead(s, r)}
<1>1. /\ U \in SUBSET Present /\ Cardinality(U) = n
      /\ \A u \in U, s \in Present \ U : ~Ahead(s, u)
  BY DEF Fronts, kSubset
<1>2. IsFiniteSet(U) /\ IsFiniteSet(H) /\ Rank(r) = Cardinality(H) /\ Rank(r) \in Nat
  BY <1>1, RankCounts, FS_Subset DEF ListTypes, Rank
<1>3. ASSUME r \in U PROVE Rank(r) < n
  <2>1. H \in SUBSET (U \ {r})
    BY <1>1, <1>3, AheadOrders
  <2>2. IsFiniteSet(U \ {r}) /\ Cardinality(U \ {r}) = n - 1
    BY <1>1, <1>2, <1>3, FS_RemoveElement
  <2> HIDE DEF H
  <2>3. Cardinality(H) <= Cardinality(U \ {r})
    BY <2>1, <2>2, FS_Subset
  <2> QED BY <1>2, <2>2, <2>3
<1>4. ASSUME r \notin U PROVE Rank(r) >= n
  <2>1. U \in SUBSET H
    BY <1>1, <1>4, AheadOrders
  <2> HIDE DEF H
  <2>2. Cardinality(U) <= Cardinality(H)
    BY <1>2, <2>1, FS_Subset
  <2> QED BY <1>1, <1>2, <2>2
<1> QED BY <1>2, <1>3, <1>4

\* A page leaves out what is ranked before its offset, and behind its end.
LEMMA SlicesRanked ==
    ASSUME ListTypes, TotallyOrdered, NEW page \in Nat \ {0}, NEW S \in Slices(Present, page),
           NEW r \in Present, r \notin S, Rank(r) >= (page - 1) * PerPage
    PROVE  Rank(r) >= page * PerPage
<1> DEFINE n == Cardinality(Present)
           low == (page - 1) * PerPage
           high == page * PerPage
<1>1. n \in Nat /\ low \in Nat /\ high \in Nat /\ IsFiniteSet(Present)
  <2>1. IsFiniteSet(Present) /\ n \in Nat
    BY FS_CardinalityType DEF ListTypes
  <2>2. page - 1 \in Nat
    OBVIOUS
  <2>3. low \in Nat /\ high \in Nat
    BY <2>2, ListShapes
  <2> QED BY <2>1, <2>3
<1>2. PICK U \in Fronts(Present, Least(low, n)), V \in Fronts(Present, Least(high, n)) : S = V \ U
  BY DEF Slices
<1> HIDE DEF n, low, high
<1>3. Rank(r) \in Nat /\ Rank(r) >= low
  BY RankCounts DEF low
<1>4. r \notin U
  <2>1. Least(low, n) \in Nat /\ Least(low, n) <= low
    BY <1>1 DEF Least
  <2>2. r \in U <=> Rank(r) < Least(low, n)
    BY <2>1, FrontsRanked
  <2> QED BY <1>1, <1>3, <2>1, <2>2
<1>5. r \notin V
  BY <1>2, <1>4
<1>6. CASE high <= n
  <2>1. Least(high, n) = high
    BY <1>1, <1>6 DEF Least
  <2>2. r \in V <=> Rank(r) < high
    BY <1>1, <1>2, <2>1, FrontsRanked
  <2> QED BY <1>1, <1>3, <1>5, <2>2 DEF high
<1>7. CASE n < high
  <2>1. Least(high, n) = n
    BY <1>1, <1>7 DEF Least
  <2>2. V \in SUBSET Present /\ Cardinality(V) = n
    BY <1>2, <2>1 DEF Fronts, kSubset
  <2>3. V = Present
    BY <1>1, <2>2, FS_Subset DEF n
  <2> QED BY <1>5, <2>3
<1> QED BY <1>1, <1>6, <1>7

\* No row leaves the table, and its time stays: what was in front of it still is.
LEMMA RanksKeep ==
    ASSUME ListTypes, UNCHANGED list, IsFiniteSet(Present'),
           \A s \in Present : s \in Present' /\ table'[s].time = table[s].time
    PROVE  /\ \A s \in Present : Rank(s) \in Nat /\ Rank(s)' \in Nat /\ Rank(s)' >= Rank(s)
           /\ TotallyOrdered' => TotallyOrdered
<1>1. ASSUME NEW s \in Present
      PROVE  Rank(s) \in Nat /\ Rank(s)' \in Nat /\ Rank(s)' >= Rank(s)
  <2> DEFINE H == {x \in Present : Ahead(x, s)}
             K == {x \in Present' : Ahead(x, s)'}
  <2>1. \A x \in Present : Ahead(x, s)' <=> Ahead(x, s)
    BY <1>1 DEF Ahead, SortKey
  <2>2. H \in SUBSET K
    BY <2>1
  <2>3. K \in SUBSET Present'
    OBVIOUS
  <2>4. Rank(s) = Cardinality(H) /\ Rank(s)' = Cardinality(K)
    BY DEF Rank
  <2> HIDE DEF H, K
  <2>5. IsFiniteSet(K) /\ Cardinality(K) \in Nat
    BY <2>3, FS_Subset, FS_CardinalityType
  <2>6. IsFiniteSet(H) /\ Cardinality(H) <= Cardinality(K) /\ Cardinality(H) \in Nat
    BY <2>2, <2>5, FS_Subset, FS_CardinalityType
  <2> QED BY <2>4, <2>5, <2>6
<1>2. ASSUME TotallyOrdered' PROVE TotallyOrdered
  BY <1>2 DEF TotallyOrdered
<1> QED BY <1>1, <1>2

\* What is still to be shown, where rows at most get more in front of them.
LEMMA UnmetKept ==
    ASSUME ListTypes, Unmet, UNCHANGED <<reading, answer, began, met>>,
           \A s \in Present : Rank(s) \in Nat /\ Rank(s)' \in Nat /\ Rank(s)' >= Rank(s),
           reading.read = {"total"} => Present' = Present
    PROVE  Unmet'
<1>1. \A s \in began : s \in Present
  BY DEF ListTypes
<1>2. ASSUME NEW s \in began, NEW n \in Nat, Rank(s) >= n PROVE Rank(s)' >= n
  BY <1>1, <1>2
<1>3. /\ answer.page * PerPage \in Nat /\ reading.page * PerPage \in Nat
      /\ reading.page # 0 => (reading.page - 1) * PerPage \in Nat
  <2>1. answer.page \in Nat /\ reading.page \in Nat /\ PerPage \in Nat
    BY ListShapes
  <2>2. reading.page # 0 => reading.page - 1 \in Nat
    BY <2>1
  <2> QED BY <2>1, <2>2
<1>4. reading'.page = 0 /\ answer'.page > 0 =>
         \A s \in began' \ met' : Rank(s)' >= answer'.page * PerPage
  BY <1>2, <1>3 DEF Unmet
<1>5. reading'.page # 0 /\ "rows" \notin reading'.read =>
         \A s \in began' \ met' : Rank(s)' >= (reading'.page - 1) * PerPage
  BY <1>2, <1>3 DEF Unmet
<1>6. "rows" \in reading'.read =>
         \A s \in began' \ (met' \cup reading'.rows) : Rank(s)' >= reading'.page * PerPage
  BY <1>2, <1>3 DEF Unmet
<1> QED BY <1>4, <1>5, <1>6 DEF Unmet

LEMMA RowAdded ==
    ASSUME ListInv, NEW r \in Ids, NEW t \in Times, AddRow(r, t)
    PROVE  ListInv'
<1> DEFINE row == [time |-> t, status |-> "other"]
<1>1. row \in [time : Times, status : RowStatuses] /\ row # NotThere
  BY DEF RowStatuses, NotThere
<1>2. table' = [table EXCEPT ![r] = row] /\ table[r] = NotThere
  BY DEF AddRow
<1> HIDE DEF row
<1>3. Present' = Present \cup {r} /\ r \notin Present
  BY <1>1, <1>2 DEF ListInv, ListTypes, Present
<1>4. /\ IsFiniteSet(Present')
      /\ \A s \in Present : s \in Present' /\ table'[s].time = table[s].time
  <2>1. IsFiniteSet(Present \cup {r})
    BY FS_AddElement DEF ListInv, ListTypes
  <2>2. \A s \in Present : s # r /\ s \in Ids
    BY <1>3 DEF Present
  <2> QED BY <1>2, <1>3, <2>1, <2>2 DEF ListInv, ListTypes
<1>5. /\ \A s \in Present : Rank(s) \in Nat /\ Rank(s)' \in Nat /\ Rank(s)' >= Rank(s)
      /\ TotallyOrdered' => TotallyOrdered
  BY <1>4, RanksKeep DEF ListInv, AddRow
<1>6. (began' = {} /\ met' = {}) \/ (began' = began /\ met' = met /\ ~HalfRead)
  BY DEF AddRow
<1>7. ListTypes'
  <2>1. table' \in [Ids -> {NotThere} \cup [time : Times, status : RowStatuses]]
    BY <1>1, <1>2 DEF ListInv, ListTypes
  <2>2. began' \subseteq Present' /\ met' \subseteq Ids
    BY <1>3, <1>6 DEF ListInv, ListTypes
  <2> QED BY <1>4, <2>1, <2>2 DEF ListInv, ListTypes, AddRow
<1>8. ASSUME (filter = "all" /\ TotallyOrdered)' PROVE Unmet'
  <2>1. Unmet
    BY <1>5, <1>8 DEF ListInv, AddRow
  <2>2. CASE began' = {}
    BY <2>2 DEF Unmet
  <2>3. CASE began' = began /\ met' = met /\ ~HalfRead
    <3>1. reading.read # {"total"}
      BY <2>3, FS_Singleton DEF HalfRead
    <3>2. UNCHANGED <<reading, answer, began, met>>
      BY <2>3 DEF AddRow
    <3> QED BY <1>5, <2>1, <3>1, <3>2, UnmetKept DEF ListInv
  <2> QED BY <1>6, <2>2, <2>3
<1> QED BY <1>7, <1>8 DEF ListInv

LEMMA RowMoved ==
    ASSUME ListInv, NEW r \in Ids, MoveRow(r)
    PROVE  ListInv'
<1>1. PICK s \in RowStatuses : table' = [table EXCEPT ![r].status = s]
  BY DEF MoveRow
<1>2. table[r] # NotThere /\ table[r] \in [time : Times, status : RowStatuses]
  BY DEF MoveRow, ListInv, ListTypes
<1> DEFINE row == [table[r] EXCEPT !.status = s]
<1>3. /\ row \in [time : Times, status : RowStatuses] /\ row.time = table[r].time /\ row # NotThere
  BY <1>2 DEF RowStatuses, NotThere
<1>4. table' = [table EXCEPT ![r] = row]
  BY <1>1
<1> HIDE DEF row
<1>5. table' \in [Ids -> {NotThere} \cup [time : Times, status : RowStatuses]]
  BY <1>3, <1>4 DEF ListInv, ListTypes
<1>6. Present' = Present
  BY <1>2, <1>3, <1>4 DEF ListInv, ListTypes, Present
<1>7. \A x \in Present : x \in Present' /\ table'[x].time = table[x].time
  <2>1. \A x \in Present : x \in Ids
    BY DEF Present
  <2> QED BY <1>3, <1>4, <1>6, <2>1 DEF ListInv, ListTypes
<1>8. IsFiniteSet(Present')
  BY <1>6 DEF ListInv, ListTypes
<1>9. /\ \A x \in Present : Rank(x) \in Nat /\ Rank(x)' \in Nat /\ Rank(x)' >= Rank(x)
      /\ TotallyOrdered' => TotallyOrdered
  BY <1>7, <1>8, RanksKeep DEF ListInv, MoveRow
<1>10. ListTypes'
  BY <1>5, <1>6, <1>8 DEF ListInv, ListTypes, MoveRow
<1>11. ASSUME (filter = "all" /\ TotallyOrdered)' PROVE Unmet'
  <2>1. Unmet
    BY <1>9, <1>11 DEF ListInv, MoveRow
  <2>2. UNCHANGED <<reading, answer, began, met>>
    BY DEF MoveRow
  <2> QED BY <1>6, <1>9, <2>1, <2>2, UnmetKept DEF ListInv
<1> QED BY <1>10, <1>11 DEF ListInv

LEMMA SameTable ==
    ASSUME UNCHANGED <<list, table>>
    PROVE  /\ Present' = Present /\ \A r : Rank(r)' = Rank(r)
           /\ TotallyOrdered' <=> TotallyOrdered
<1>1. Present' = Present
  BY DEF Present
<1>2. ASSUME NEW r PROVE Rank(r)' = Rank(r)
  <2>1. \A s : Ahead(s, r)' <=> Ahead(s, r)
    BY DEF Ahead, SortKey
  <2>2. {s \in Present : Ahead(s, r)}' = {s \in Present : Ahead(s, r)}
    BY <1>1, <2>1
  <2> QED BY <2>2 DEF Rank
<1> QED BY <1>1, <1>2 DEF TotallyOrdered

\* A reader asks for a page: the rows it was not shown are not in front of it.
LEMMA PageAsked ==
    ASSUME ListInv, NEW p \in Nat \ {0}, AskPage(p), UNCHANGED <<list, table>>,
           began' \subseteq Present, met' \subseteq Ids,
           filter' = "all" /\ TotallyOrdered => \A r \in began' \ met' : Rank(r) >= (p - 1) * PerPage
    PROVE  ListInv'
<1>1. /\ reading'.page = p /\ reading'.read = {} /\ answer' = NoPage
      /\ reading' \in [page : Nat, read : SUBSET {"rows", "total"}, rows : SUBSET Ids, total : Nat]
  BY NotAskedIs DEF AskPage, NotAsked
<1>2. Present' = Present /\ (\A r : Rank(r)' = Rank(r)) /\ (TotallyOrdered' <=> TotallyOrdered)
  BY SameTable
<1>3. ListTypes'
  BY <1>1, <1>2, NotAskedIs DEF ListInv, ListTypes
<1>4. ASSUME (filter = "all" /\ TotallyOrdered)' PROVE Unmet'
  <2>1. \A r \in began' \ met' : Rank(r)' >= (reading'.page - 1) * PerPage
    BY <1>1, <1>2, <1>4
  <2>2. reading'.page # 0 /\ "rows" \notin reading'.read /\ reading'.read # {"total"}
        /\ reading'.read # {"rows", "total"}
    BY <1>1
  <2> QED BY <2>1, <2>2 DEF Unmet
<1> QED BY <1>3, <1>4 DEF ListInv

LEMMA ReaderSteps ==
    ASSUME ListInv, Turn \/ Refetch \/ \E f \in Filters : Choose(f)
    PROVE  ListInv'
<1>1. answer.page \in Nat /\ answer.pages \in Nat /\ PerPage \in Nat
      /\ began \subseteq Present /\ met \subseteq Ids /\ IsFiniteSet(Present) /\ Present \subseteq Ids
  BY ListShapes DEF ListInv, ListTypes
<1>2. \A r \in began : Rank(r) \in Nat
  BY RankCounts DEF ListInv
<1>3. ASSUME NEW f \in Filters, Choose(f) PROVE ListInv'
  <2>1. began' \subseteq Present /\ met' \subseteq Ids /\ AskPage(1) /\ UNCHANGED <<list, table>>
    BY <1>3 DEF Choose
  <2>2. \A r : Rank(r) \in Nat
    BY RankCounts DEF ListInv
  <2>3. (1 - 1) * PerPage = 0
    BY <1>1
  <2>4. \A r \in began' \ met' : Rank(r) >= (1 - 1) * PerPage
    BY <2>2, <2>3
  <2> QED BY <2>1, <2>4, PageAsked
<1>4. ASSUME filter = "all", TotallyOrdered, reading = NotAsked, answer.page # 0,
             NEW p \in Nat \ {0}, p <= answer.page + 1
      PROVE  \A r \in began \ met : Rank(r) >= (p - 1) * PerPage
  <2>1. \A r \in began \ met : Rank(r) >= answer.page * PerPage
    BY <1>1, <1>4, NotAskedIs DEF ListInv, Unmet
  <2> DEFINE q == p - 1
  <2>2. q \in Nat /\ q <= answer.page
    BY <1>1, <1>4
  <2> HIDE DEF q
  <2>3. q * PerPage \in Nat /\ answer.page * PerPage \in Nat /\ q * PerPage <= answer.page * PerPage
    BY <1>1, <2>2
  <2>4. \A r \in began \ met : Rank(r) >= q * PerPage
    BY <1>2, <2>1, <2>3
  <2> QED BY <2>4 DEF q
<1>5. CASE Refetch
  <2>1. answer.page \in Nat \ {0} /\ answer.page <= answer.page + 1 /\ AskPage(answer.page)
    BY <1>1, <1>5 DEF Refetch
  <2>2. filter' = "all" /\ TotallyOrdered =>
           \A r \in began' \ met' : Rank(r) >= (answer.page - 1) * PerPage
    BY <1>4, <1>5, <2>1 DEF Refetch
  <2>3. began' \subseteq Present /\ met' \subseteq Ids /\ UNCHANGED <<list, table>>
    BY <1>1, <1>5 DEF Refetch
  <2> QED BY <2>1, <2>2, <2>3, PageAsked
<1>6. CASE Turn
  <2>1. PICK p \in {answer.page - 1, answer.page + 1} :
           AskPage(p) /\ answer.page # 0 /\ p \in Nat \ {0} /\ p <= answer.page + 1
    <3>1. answer.pages > 1 => answer.page # 0
      BY NotAskedIs DEF ListInv, ListTypes
    <3>2. CASE answer.page > 1 /\ AskPage(answer.page - 1)
      BY <1>1, <3>2
    <3>3. CASE answer.page < answer.pages /\ AskPage(answer.page + 1)
      BY <1>1, <1>6, <3>1, <3>3 DEF Turn, PagerShown
    <3> QED BY <1>6, <3>2, <3>3 DEF Turn
  <2>2. filter' = "all" /\ TotallyOrdered =>
           \A r \in began' \ met' : Rank(r) >= (p - 1) * PerPage
    BY <1>4, <1>6, <2>1 DEF Turn
  <2>3. began' \subseteq Present /\ met' \subseteq Ids /\ UNCHANGED <<list, table>>
    BY <1>1, <1>6 DEF Turn
  <2> QED BY <2>1, <2>2, <2>3, PageAsked
<1> QED BY <1>3, <1>5, <1>6

LEMMA RowsRead ==
    ASSUME ListInv, ReadRows
    PROVE  ListInv'
<1>1. /\ reading.page \in Nat \ {0} /\ "rows" \notin reading.read /\ reading.read \subseteq {"rows", "total"}
      /\ PerPage \in Nat /\ reading.total \in Nat /\ IsFiniteSet(Present)
  BY ListShapes DEF ListInv, ReadRows
<1>2. PICK S \in Slices(Where(filter), reading.page) :
         reading' = [reading EXCEPT !.rows = S, !.read = @ \cup {"rows"}]
  BY DEF ReadRows
<1>3. S \subseteq Ids
  <2> DEFINE T == Where(filter)
             n == Cardinality(T)
  <2>1. T \subseteq Ids
    BY DEF Where, Present
  <2> HIDE DEF T
  <2>2. PICK V \in Fronts(T, Least(reading.page * PerPage, n)) : S \subseteq V
    BY <1>2 DEF Slices, T
  <2> HIDE DEF n
  <2>3. V \subseteq T
    BY <2>2 DEF Fronts, kSubset
  <2> QED BY <2>1, <2>2, <2>3
<1>4. /\ reading'.page = reading.page /\ reading'.rows = S
      /\ reading'.read = reading.read \cup {"rows"} /\ reading'.total = reading.total
      /\ reading' \in [page : Nat, read : SUBSET {"rows", "total"}, rows : SUBSET Ids, total : Nat]
  BY <1>2, <1>3 DEF ListInv, ListTypes
<1>5. Present' = Present /\ (\A r : Rank(r)' = Rank(r)) /\ (TotallyOrdered' <=> TotallyOrdered)
  BY SameTable DEF ReadRows
<1>6. ListTypes'
  BY <1>1, <1>4, <1>5 DEF ListInv, ListTypes, ReadRows
<1>7. ASSUME (filter = "all" /\ TotallyOrdered)' PROVE Unmet'
  <2>1. Unmet /\ TotallyOrdered /\ filter = "all"
    BY <1>5, <1>7 DEF ListInv, ReadRows
  <2>2. Where(filter) = Present
    BY <2>1 DEF Where
  <2>3. ASSUME NEW r \in began \ (met \cup S) PROVE Rank(r) >= reading.page * PerPage
    <3>1. Rank(r) >= (reading.page - 1) * PerPage
      BY <1>1, <2>1, <2>3 DEF Unmet
    <3>2. r \in Present /\ r \notin S
      BY <2>3 DEF ListInv, ListTypes
    <3> QED BY <1>1, <1>2, <2>1, <2>2, <3>1, <3>2, SlicesRanked DEF ListInv
  <2>4. UNCHANGED <<answer, began, met>>
    BY DEF ReadRows
  <2>5. ASSUME reading.read = {"total"}, reading.total <= reading.page * PerPage
        PROVE  began \subseteq met \cup S
    <3>1. CASE began = {}
      BY <3>1
    <3>2. CASE reading.total = Cardinality(Present)
      <4> SUFFICES ASSUME NEW r \in began, r \notin met \cup S PROVE FALSE
        OBVIOUS
      <4>1. Rank(r) >= reading.page * PerPage
        BY <2>3
      <4>2. Rank(r) < Cardinality(Present)
        BY <2>1, RankBelow DEF ListInv, ListTypes
      <4>3. Rank(r) \in Nat /\ Cardinality(Present) \in Nat /\ reading.page * PerPage \in Nat
        <5>1. reading.page * PerPage \in Nat
          BY <1>1
        <5> QED BY <1>1, <5>1, RankCounts, FS_CardinalityType DEF ListInv
      <4> QED BY <2>5, <3>2, <4>1, <4>2, <4>3
    <3> QED BY <2>1, <2>5, <3>1, <3>2 DEF Unmet
  <2>6. \A r \in began' \ (met' \cup reading'.rows) : Rank(r)' >= reading'.page * PerPage
    BY <1>4, <1>5, <2>3, <2>4
  <2>7. reading'.read = {"rows", "total"} /\ reading'.total <= reading'.page * PerPage =>
           began' \subseteq met' \cup reading'.rows
    <3>1. reading'.read = {"rows", "total"} => reading.read = {"total"}
      BY <1>1, <1>4
    <3> QED BY <1>4, <2>4, <2>5, <3>1
  <2>8. reading'.page # 0 /\ "rows" \in reading'.read /\ reading'.read # {"total"}
    BY <1>1, <1>4
  <2> QED BY <2>6, <2>7, <2>8 DEF Unmet
<1> QED BY <1>6, <1>7 DEF ListInv

LEMMA RowsCounted ==
    ASSUME ListInv, CountRows
    PROVE  ListInv'
<1> DEFINE n == Cardinality(Where(filter))
<1>1. /\ reading.page \in Nat \ {0} /\ "total" \notin reading.read /\ reading.read \subseteq {"rows", "total"}
      /\ PerPage \in Nat /\ IsFiniteSet(Present)
  BY ListShapes DEF ListInv, CountRows
<1>2. reading' = [reading EXCEPT !.total = n, !.read = @ \cup {"total"}]
  BY DEF CountRows
<1>3. n \in Nat
  <2>1. Where(filter) \in SUBSET Present
    BY DEF Where
  <2> QED BY <1>1, <2>1, FS_Subset, FS_CardinalityType
<1> HIDE DEF n
<1>4. /\ reading'.page = reading.page /\ reading'.rows = reading.rows
      /\ reading'.read = reading.read \cup {"total"} /\ reading'.total = n
      /\ reading' \in [page : Nat, read : SUBSET {"rows", "total"}, rows : SUBSET Ids, total : Nat]
  BY <1>2, <1>3 DEF ListInv, ListTypes
<1>5. Present' = Present /\ (\A r : Rank(r)' = Rank(r)) /\ (TotallyOrdered' <=> TotallyOrdered)
  BY SameTable DEF CountRows
<1>6. ListTypes'
  BY <1>1, <1>4, <1>5 DEF ListInv, ListTypes, CountRows
<1>7. ASSUME (filter = "all" /\ TotallyOrdered)' PROVE Unmet'
  <2>1. Unmet /\ TotallyOrdered /\ filter = "all"
    BY <1>5, <1>7 DEF ListInv, CountRows
  <2>2. n = Cardinality(Present)
    BY <2>1 DEF Where, n
  <2>3. UNCHANGED <<answer, began, met>>
    BY DEF CountRows
  <2>4. ASSUME "rows" \in reading.read, n <= reading.page * PerPage
        PROVE  began \subseteq met \cup reading.rows
    <3> SUFFICES ASSUME NEW r \in began, r \notin met \cup reading.rows PROVE FALSE
      OBVIOUS
    <3>1. Rank(r) >= reading.page * PerPage
      BY <2>1, <2>4 DEF Unmet
    <3>2. r \in Present
      BY DEF ListInv, ListTypes
    <3>3. Rank(r) < n
      BY <2>1, <2>2, <3>2, RankBelow DEF ListInv
    <3>4. Rank(r) \in Nat /\ reading.page * PerPage \in Nat
      <4>1. reading.page * PerPage \in Nat
        BY <1>1
      <4> QED BY <4>1, RankCounts DEF ListInv
    <3> QED BY <1>3, <2>4, <3>1, <3>3, <3>4
  <2>5. CASE "rows" \in reading.read
    <3>1. /\ reading'.read = {"rows", "total"} /\ "rows" \in reading'.read
          /\ reading'.read # {"total"} /\ reading'.page # 0
      BY <1>1, <1>4, <2>5
    <3>2. reading'.total <= reading'.page * PerPage => began' \subseteq met' \cup reading'.rows
      BY <1>4, <2>3, <2>4, <2>5
    <3>3. \A r \in began' \ (met' \cup reading'.rows) : Rank(r)' >= reading'.page * PerPage
      BY <1>4, <1>5, <2>1, <2>3, <2>5 DEF Unmet
    <3> QED BY <3>1, <3>2, <3>3 DEF Unmet
  <2>6. CASE "rows" \notin reading.read
    <3>1. reading'.read = {"total"} /\ "rows" \notin reading'.read /\ reading'.page # 0
          /\ reading'.read # {"rows", "total"}
      BY <1>1, <1>4, <2>6
    <3>2. reading'.total = Cardinality(Present')
      BY <1>4, <1>5, <2>2
    <3>3. \A r \in began' \ met' : Rank(r)' >= (reading'.page - 1) * PerPage
      BY <1>1, <1>4, <1>5, <2>1, <2>3, <2>6 DEF Unmet
    <3> QED BY <3>1, <3>2, <3>3 DEF Unmet
  <2> QED BY <2>5, <2>6
<1> QED BY <1>6, <1>7 DEF ListInv

LEMMA PageShown ==
    ASSUME ListInv, ShowPage
    PROVE  ListInv'
<1>1. /\ reading.read = {"rows", "total"} /\ "rows" \in reading.read
      /\ reading.page \in Nat \ {0} /\ reading.total \in Nat /\ reading.rows \subseteq Ids
      /\ PerPage \in Nat \ {0}
  BY ListShapes, NotAskedIs DEF ListInv, ListTypes, ShowPage
<1>2. /\ answer' = [page |-> reading.page, pages |-> TotalPages(reading.total)]
      /\ met' = met \cup (reading.rows \cap began) /\ began' = began /\ reading' = NotAsked
  BY DEF ShowPage
<1>3. TotalPages(reading.total) \in Nat /\
         (reading.page >= TotalPages(reading.total) => reading.total <= reading.page * PerPage)
  <2> DEFINE t == reading.total
             p == reading.page
  <2>1. t \in Nat /\ p \in Nat /\ PerPage \in Nat \ {0}
    BY <1>1
  <2> HIDE DEF t, p
  <2>2. (t + PerPage - 1) \div PerPage \in Nat
    BY <2>1
  <2>3. p >= (t + PerPage - 1) \div PerPage => t <= p * PerPage
    BY <2>1
  <2> QED BY <2>2, <2>3 DEF TotalPages, t, p
<1>4. Present' = Present /\ (\A r : Rank(r)' = Rank(r)) /\ (TotallyOrdered' <=> TotallyOrdered)
  BY SameTable DEF ShowPage
<1>5. ListTypes'
  BY <1>1, <1>2, <1>3, <1>4, NotAskedIs DEF ListInv, ListTypes, ShowPage
<1>6. ASSUME (filter = "all" /\ TotallyOrdered)' PROVE Unmet'
  <2>1. Unmet
    BY <1>4, <1>6 DEF ListInv, ShowPage
  <2>2. /\ reading'.page = 0 /\ reading'.read = {} /\ answer'.page = reading.page
        /\ answer'.pages = TotalPages(reading.total)
    BY <1>2, NotAskedIs
  <2>3. \A r \in began' \ met' : Rank(r)' >= answer'.page * PerPage
    BY <1>1, <1>2, <1>4, <2>1, <2>2 DEF Unmet
  <2>4. answer'.page >= answer'.pages => began' \subseteq met'
    <3>1. reading.total <= reading.page * PerPage => began \subseteq met \cup reading.rows
      BY <1>1, <2>1 DEF Unmet
    <3> QED BY <1>2, <1>3, <2>2, <3>1
  <2> QED BY <2>2, <2>3, <2>4 DEF Unmet
<1> QED BY <1>5, <1>6 DEF ListInv

LEMMA ListStep == ListInv /\ [ListingNext]_listingVars => ListInv'
<1> SUFFICES ASSUME ListInv, [ListingNext]_listingVars PROVE ListInv'
  OBVIOUS
<1>1. ASSUME NEW r \in Ids, (\E t \in Times : AddRow(r, t)) \/ MoveRow(r) PROVE ListInv'
  BY <1>1, RowAdded, RowMoved
<1>2. CASE UNCHANGED listingVars
  <2>1. UNCHANGED <<list, table, filter, reading, answer, began, met>>
    BY <1>2 DEF listingVars
  <2>2. Present' = Present /\ (\A r : Rank(r)' = Rank(r)) /\ (TotallyOrdered' <=> TotallyOrdered)
    BY <2>1, SameTable
  <2>3. ListTypes'
    BY <2>1, <2>2 DEF ListInv, ListTypes
  <2>4. Unmet <=> Unmet'
    BY <2>1, <2>2 DEF Unmet
  <2> QED BY <2>1, <2>2, <2>3, <2>4 DEF ListInv
<1> QED BY <1>1, <1>2, ReaderSteps, RowsRead, RowsCounted, PageShown DEF ListingNext

LEMMA ListProves == ListInv => NothingSkipped
BY NotAskedIs DEF ListInv, Unmet, NothingSkipped

----------------------------------------------------------------------------
(***************************************************************************)
(* The deployment ceremony (scripts/deploy-devnet-core.mjs).  What the     *)
(* deployer sent is mined in the order it was sent, whatever is replaced;  *)
(* that order grants governance its role in a contract before it renounces *)
(* the deployer's, and it alone explains who governs which contract at     *)
(* each block.                                                             *)
(***************************************************************************)
Accounts == {"deployer", "governance", "operator", "none"}
CoreContract == [kind : Kinds, configured : BOOLEAN, holders : [CoreRoles -> SUBSET Accounts],
                 owner : Accounts, pending : Accounts]
Transactions == [do : {"deploy"}, kind : Kinds]
                \cup [do : {"configure", "transfer"}, to : Nat, role : {"none"}]
                \cup [do : {"grant", "renounce"}, to : Nat, role : CoreRoles]
CoreBlocks == [contracts : Seq(CoreContract), fork : Nat, tx : Transactions \cup {NoTx},
               nonce : Nat, ok : BOOLEAN]

GrantOf(a) == [do |-> "grant", to |-> a, role |-> "default"]
RenounceOf(a) == [do |-> "renounce", to |-> a, role |-> "default"]

CeremonyTypes ==
    /\ devnet \in Seq(CoreBlocks) /\ Len(devnet) >= 1 /\ pool \in Seq(Transactions)
    /\ forks \in 0..MaxForks /\ stops \in 0..MaxStops
    /\ checkpoint \in [Kinds -> Records] /\ manifest \in Records
    /\ run \in [phase : {"none", "bootstrap", "finalize"},
                at : {"idle", "task", "receipt", "record", "verify", "publish"},
                task : Nat, nonce : Nat, block : Records]

\* Where a run is.  A reference to a block says which of the blocks of its number.
RunSound ==
    /\ run.at # "idle" <=> run.phase # "none"
    /\ run.phase = "finalize" => run.at # "record"
    /\ run.at = "task" => run.task >= 1
    /\ run.at \in {"receipt", "record"} => run.task \in 1..Len(Tasks(run.phase))
    /\ run.at \in {"verify", "publish"} =>
          /\ run.phase = "finalize" /\ run.block.number >= 1 /\ run.block.fork <= forks
          /\ run.block.number <= Len(devnet) \/ run.block.fork < forks

\* Every transaction the deployer sent is mined or in the pool, in the order it was
\* sent, whatever is replaced: history is that sequence, born how many contracts the
\* first i of them create, and at how many are mined with block n.
Granted(history, born, a, j) ==
    /\ history[j] = GrantOf(a)
    /\ \E p \in 1..(j - 1) : history[p].do = "deploy" /\ history[p].kind # "gate" /\ born[p] = a

Governed(c) ==
    IF c.kind = "gate" THEN \A r \in CoreRoles : c.holders[r] = {}
    ELSE c.holders["default"] \cap {"deployer", "governance"} # {}

BlockExplained(history, born, C, m) ==
    /\ Len(C) = born[m]
    /\ \A a \in 1..Len(C) :
          /\ \E p \in 1..m : history[p].do = "deploy" /\ history[p].kind = C[a].kind /\ born[p] = a
          /\ "governance" \in C[a].holders["default"] <=> \E j \in 1..m : Granted(history, born, a, j)
          /\ Governed(C[a])

SentTypes(history, born) ==
    /\ history \in Seq(Transactions) /\ born \in [0..Len(history) -> Nat] /\ born[0] = 0
    /\ \A i \in 1..Len(history) : born[i] = born[i - 1] + (IF history[i].do = "deploy" THEN 1 ELSE 0)
    /\ \A i, j \in 0..Len(history) :
          i < j => born[i] <= born[j] /\ (history[j].do = "deploy" => born[i] < born[j])

\* No default role is renounced before governance has it.
SentSafely(history, born) ==
    \A i \in 1..Len(history), a \in Nat :
        history[i] = RenounceOf(a) => \E j \in 1..(i - 1) : Granted(history, born, a, j)

Aligned(history, at) ==
    /\ at \in [1..Len(devnet) -> 0..Len(history)] /\ at[1] = 0
    /\ Len(pool) = Len(history) - at[Len(devnet)]
    /\ \A i \in 1..Len(pool) : pool[i] = history[at[Len(devnet)] + i]
    /\ \A n \in 2..Len(devnet) :
          IF devnet[n].nonce = 0 THEN at[n] = at[n - 1]
          ELSE at[n] = at[n - 1] + 1 /\ devnet[n].tx = history[at[n]]

Handed(history, born) ==
    run.phase = "finalize" =>
        \A k \in Kinds \ {"gate"} :
            \E j \in 1..Len(history) : Granted(history, born, checkpoint[k].address, j)

Explained(history, born, at) ==
    /\ SentTypes(history, born) /\ SentSafely(history, born) /\ Aligned(history, at) /\ Handed(history, born)
    /\ \A n \in 1..Len(devnet) : BlockExplained(history, born, devnet[n].contracts, at[n])

\* What a contract keeps from a block to a later one.
Later(C, B) ==
    /\ Len(C) <= Len(B)
    /\ \A a \in 1..Len(C) :
          /\ B[a].kind = C[a].kind /\ (C[a].configured => B[a].configured)
          /\ \A r \in CoreRoles : "deployer" \in B[a].holders[r] => "deployer" \in C[a].holders[r]
          /\ C[a].owner = "governance" => B[a].owner = "governance"

BlocksLinked ==
    /\ \A n \in 1..Len(devnet) : devnet[n].fork <= forks
    /\ \A m, n \in 1..Len(devnet) : m <= n => Later(devnet[m].contracts, devnet[n].contracts)
    /\ \A n \in 1..Len(devnet) : devnet[n].tx.do = "deploy" =>
          LET C == devnet[n].contracts IN
          /\ \A m \in 1..(n - 1) : Len(devnet[m].contracts) < Len(C)
          /\ Len(C) >= 1 /\ C[Len(C)].kind = devnet[n].tx.kind

\* A release that is verified stays so as long as its block is in the chain.
ReleaseStands ==
    run.at = "publish" /\ StillMined(run.block) =>
        /\ \A k \in Kinds : RecordTrue(k) /\ checkpoint[k].number \in 1..run.block.number
        /\ StateVerified(devnet[run.block.number].contracts, FALSE)

CeremonyInv ==
    /\ CeremonyTypes /\ RunSound /\ BlocksLinked /\ ReleaseStands
    /\ \E history, born, at : Explained(history, born, at)

LEMMA OrderIs ==
    /\ Order \in Seq(Kinds) /\ "gate" \in Kinds /\ Kinds \subseteq STRING
    /\ Owned \in Seq(Kinds \ {"gate"})
<1>1. Order \in Seq(STRING) /\ "gate" \in Kinds /\ \A i, j \in DOMAIN Order : Order[i] = Order[j] => i = j
  BY CeremonyAssumption
<1>2. DOMAIN Order = 1..Len(Order) /\ Len(Order) \in Nat /\ \A k \in 1..Len(Order) : Order[k] \in STRING
  BY <1>1, ElementOfSeq
<1>3. Kinds \subseteq STRING /\ \A k \in 1..Len(Order) : Order[k] \in Kinds
  BY <1>2 DEF Kinds
<1>4. Order \in Seq(Kinds)
  BY <1>1, <1>2, <1>3
<1> DEFINE g == CHOOSE k \in DOMAIN Order : Order[k] = "gate"
<1>5. g \in 1..Len(Order) /\ Order[g] = "gate"
  BY <1>1, <1>2 DEF Kinds
<1> HIDE DEF g
<1>6. /\ RemoveAt(Order, g) \in Seq(Kinds) /\ Len(RemoveAt(Order, g)) = Len(Order) - 1
      /\ \A i \in 1..(Len(Order) - 1) : RemoveAt(Order, g)[i] = Order[IF i < g THEN i ELSE i + 1]
  BY <1>4, <1>5, OneRemoved
<1>7. ASSUME NEW i \in 1..(Len(Order) - 1)
      PROVE  RemoveAt(Order, g)[i] \in Kinds \ {"gate"}
  <2>1. (IF i < g THEN i ELSE i + 1) \in 1..Len(Order) /\ (IF i < g THEN i ELSE i + 1) # g
    BY <1>2, <1>5
  <2> QED BY <1>1, <1>2, <1>3, <1>5, <1>6, <2>1
<1>8. RemoveAt(Order, g) \in Seq(Kinds \ {"gate"})
  BY <1>2, <1>6, <1>7
<1>9. Owned = RemoveAt(Order, g)
  BY DEF Owned, g
<1> QED BY <1>1, <1>3, <1>4, <1>8, <1>9

LEMMA EachIs ==
    ASSUME NEW K, NEW kinds \in Seq(K), NEW do, NEW role
    PROVE  /\ Each(kinds, do, role) \in Seq([do : {do}, kind : K, role : {role}])
<1>1. DOMAIN kinds = 1..Len(kinds) /\ Len(kinds) \in Nat /\ \A k \in 1..Len(kinds) : kinds[k] \in K
  BY ElementOfSeq
<1> QED BY <1>1 DEF Each

Bootstrapping == [do : {"deploy", "configure", "transfer"}, kind : Kinds, role : {"none"}]
                 \cup [do : {"grant"}, kind : Kinds, role : CoreRoles]
Finalizing == [do : {"renounce"}, kind : Kinds \ {"gate"}, role : CoreRoles]

\* No contract is renounced before a run finalizes, and the gate never is.
LEMMA TasksAre ==
    /\ Tasks("bootstrap") \in Seq(Bootstrapping)
    /\ Tasks("finalize") \in Seq(Finalizing)
<1>1. /\ Order \in Seq(Kinds) /\ "gate" \in Kinds /\ Owned \in Seq(Kinds \ {"gate"})
  BY OrderIs
<1>2. /\ Each(Order, "deploy", "none") \in Seq(Bootstrapping)
      /\ Each(Order, "configure", "none") \in Seq(Bootstrapping)
  <2>1. /\ [do : {"deploy"}, kind : Kinds, role : {"none"}] \subseteq Bootstrapping
        /\ [do : {"configure"}, kind : Kinds, role : {"none"}] \subseteq Bootstrapping
    BY DEF Bootstrapping
  <2>2. /\ Each(Order, "deploy", "none") \in Seq([do : {"deploy"}, kind : Kinds, role : {"none"}])
        /\ Each(Order, "configure", "none") \in Seq([do : {"configure"}, kind : Kinds, role : {"none"}])
    BY <1>1, EachIs
  <2> QED BY <2>1, <2>2, Widened
<1>3. /\ Each(Owned, "grant", "default") \in Seq(Bootstrapping)
      /\ Each(Owned, "grant", "operator") \in Seq(Bootstrapping)
  <2>1. /\ [do : {"grant"}, kind : Kinds \ {"gate"}, role : {"default"}] \subseteq Bootstrapping
        /\ [do : {"grant"}, kind : Kinds \ {"gate"}, role : {"operator"}] \subseteq Bootstrapping
    BY DEF Bootstrapping, CoreRoles
  <2>2. /\ Each(Owned, "grant", "default") \in Seq([do : {"grant"}, kind : Kinds \ {"gate"}, role : {"default"}])
        /\ Each(Owned, "grant", "operator") \in Seq([do : {"grant"}, kind : Kinds \ {"gate"}, role : {"operator"}])
    BY <1>1, EachIs
  <2> QED BY <2>1, <2>2, Widened
<1>4. Each(<<"gate">>, "transfer", "none") \in Seq(Bootstrapping)
  <2> DEFINE rows == [do : {"transfer"}, kind : Kinds, role : {"none"}]
             moves == Each(<<"gate">>, "transfer", "none")
  <2>1. rows \subseteq Bootstrapping
    BY DEF Bootstrapping
  <2>2. <<"gate">> \in Seq(Kinds)
    BY <1>1
  <2>3. moves \in Seq(rows)
    BY <2>2, EachIs
  <2> HIDE DEF rows, moves
  <2>4. moves \in Seq(Bootstrapping)
    BY <2>1, <2>3, Widened
  <2> QED BY <2>4 DEF moves
<1>5. /\ Each(Owned, "renounce", "operator") \in Seq(Finalizing)
      /\ Each(Owned, "renounce", "default") \in Seq(Finalizing)
  <2>1. /\ [do : {"renounce"}, kind : Kinds \ {"gate"}, role : {"default"}] \subseteq Finalizing
        /\ [do : {"renounce"}, kind : Kinds \ {"gate"}, role : {"operator"}] \subseteq Finalizing
    BY DEF Finalizing, CoreRoles
  <2>2. /\ Each(Owned, "renounce", "default") \in Seq([do : {"renounce"}, kind : Kinds \ {"gate"}, role : {"default"}])
        /\ Each(Owned, "renounce", "operator") \in Seq([do : {"renounce"}, kind : Kinds \ {"gate"}, role : {"operator"}])
    BY <1>1, EachIs
  <2> QED BY <2>1, <2>2, Widened
<1>6. Tasks("finalize") \in Seq(Finalizing)
  BY <1>5, ConcatProperties DEF Tasks
<1> DEFINE a == Each(Order, "deploy", "none")  b == Each(Order, "configure", "none")
           c == Each(Owned, "grant", "default")  d == Each(Owned, "grant", "operator")
           e == Each(<<"gate">>, "transfer", "none")
<1>7. Tasks("bootstrap") = a \o b \o c \o d \o e
  BY DEF Tasks
<1> HIDE DEF a, b, c, d, e
<1>8. {a, b, c, d, e} \subseteq Seq(Bootstrapping)
  BY <1>2, <1>3, <1>4 DEF a, b, c, d, e
<1>9. a \o b \in Seq(Bootstrapping)
  BY <1>8, ConcatProperties
<1>10. a \o b \o c \in Seq(Bootstrapping)
  BY <1>8, <1>9, ConcatProperties
<1>11. a \o b \o c \o d \in Seq(Bootstrapping)
  BY <1>8, <1>10, ConcatProperties
<1>12. a \o b \o c \o d \o e \in Seq(Bootstrapping)
  BY <1>8, <1>11, ConcatProperties
<1> QED BY <1>6, <1>7, <1>12

\* What a transaction of the deployer, where it is accepted, makes of the contracts.
LEMMA Deploys ==
    ASSUME NEW k \in Kinds
    PROVE  /\ Deployed(k) \in CoreContract /\ Deployed(k).kind = k /\ Governed(Deployed(k))
           /\ "governance" \notin Deployed(k).holders["default"]
<1>1. "default" \in CoreRoles
  BY DEF CoreRoles
<1> QED BY <1>1 DEF Deployed, CoreContract, Accounts, Governed

LEMMA LaterRefl == ASSUME NEW C \in Seq(CoreContract) PROVE Later(C, C)
BY DEF Later

LEMMA LaterTrans ==
    ASSUME NEW A \in Seq(CoreContract), NEW B \in Seq(CoreContract), NEW C \in Seq(CoreContract),
           Later(A, B), Later(B, C)
    PROVE  Later(A, C)
<1>1. {Len(A), Len(B), Len(C)} \subseteq Nat /\ Len(A) <= Len(B) /\ Len(B) <= Len(C)
  BY DEF Later
<1>2. \A a \in 1..Len(A) : a \in 1..Len(B)
  BY <1>1
<1> QED BY <1>1, <1>2 DEF Later

\* One contract is another.
LEMMA OneContract ==
    ASSUME NEW C \in Seq(CoreContract), NEW a \in 1..Len(C), NEW c \in CoreContract,
           c.kind = C[a].kind, C[a].configured => c.configured,
           \A r \in CoreRoles : "deployer" \in c.holders[r] => "deployer" \in C[a].holders[r],
           C[a].owner = "governance" => c.owner = "governance"
    PROVE  LET B == [C EXCEPT ![a] = c] IN
           /\ B \in Seq(CoreContract) /\ Len(B) = Len(C) /\ Later(C, B) /\ B[a] = c
           /\ \A b \in 1..Len(C) : b # a => B[b] = C[b]
<1> DEFINE B == [C EXCEPT ![a] = c]
<1>1. /\ B \in Seq(CoreContract) /\ Len(B) = Len(C)
      /\ \A b \in 1..Len(C) : B[b] = IF b = a THEN c ELSE C[b]
  BY ExceptSeq
<1> QED BY <1>1 DEF Later

LEMMA TxOf ==
    ASSUME NEW tx \in Transactions
    PROVE  /\ tx.do \in {"deploy", "configure", "transfer", "grant", "renounce"}
           /\ tx.do = "deploy" => tx.kind \in Kinds
           /\ tx.do # "deploy" => tx.to \in Nat
           /\ tx.do \in {"grant", "renounce"} =>
                 /\ tx.role \in CoreRoles
                 /\ tx = [do |-> tx.do, to |-> tx.to, role |-> tx.role]
           /\ \A a : tx = GrantOf(a) <=> tx.do = "grant" /\ tx.to = a /\ tx.role = "default"
           /\ \A a : tx = RenounceOf(a) <=> tx.do = "renounce" /\ tx.to = a /\ tx.role = "default"
<1>1. CASE tx \in [do : {"deploy"}, kind : Kinds]
  BY <1>1 DEF GrantOf, RenounceOf
<1>2. CASE tx \in [do : {"configure", "transfer"}, to : Nat, role : {"none"}]
  BY <1>2 DEF GrantOf, RenounceOf
<1>3. CASE tx \in [do : {"grant", "renounce"}, to : Nat, role : CoreRoles]
  BY <1>3 DEF GrantOf, RenounceOf
<1> QED BY <1>1, <1>2, <1>3 DEF Transactions

Effect(C, tx, B) ==
    /\ B \in Seq(CoreContract) /\ Later(C, B)
    /\ Len(B) = Len(C) + (IF tx.do = "deploy" THEN 1 ELSE 0)
    /\ tx.do = "deploy" =>
          LET c == B[Len(B)] IN
          c.kind = tx.kind /\ Governed(c) /\ "governance" \notin c.holders["default"]
    /\ \A a \in 1..Len(C) :
          /\ "governance" \in B[a].holders["default"]
                <=> "governance" \in C[a].holders["default"] \/ tx = GrantOf(a)
          /\ (tx = RenounceOf(a) => "governance" \in C[a].holders["default"]) => Governed(B[a])

LEMMA DeployApplied ==
    ASSUME NEW C \in Seq(CoreContract), NEW tx \in Transactions, tx.do = "deploy",
           \A a \in 1..Len(C) : Governed(C[a])
    PROVE  Effect(C, tx, Apply(C, tx))
<1> DEFINE c == Deployed(tx.kind)  B == Append(C, c)
<1>1. /\ c \in CoreContract /\ c.kind = tx.kind /\ Governed(c) /\ "governance" \notin c.holders["default"]
  BY TxOf, Deploys
<1>2. Apply(C, tx) = B
  BY DEF Apply
<1> HIDE DEF c
<1>3. /\ B \in Seq(CoreContract) /\ Len(B) = Len(C) + 1 /\ \A i \in 1..Len(C) : B[i] = C[i]
      /\ B[Len(C) + 1] = c
  BY <1>1, AppendProperties
<1>4. Later(C, B)
  BY <1>3 DEF Later
<1>5. \A a : tx # GrantOf(a)
  BY TxOf
<1> QED BY <1>1, <1>2, <1>3, <1>4, <1>5 DEF Effect

LEMMA ContractChanged ==
    ASSUME NEW C \in Seq(CoreContract), NEW tx \in Transactions, tx.do # "deploy",
           \A a \in 1..Len(C) : Governed(C[a]),
           tx.to \in 1..Len(C), NEW c \in CoreContract,
           c.kind = C[tx.to].kind, C[tx.to].configured => c.configured,
           \A r \in CoreRoles : "deployer" \in c.holders[r] => "deployer" \in C[tx.to].holders[r],
           C[tx.to].owner = "governance" => c.owner = "governance",
           "governance" \in c.holders["default"]
              <=> "governance" \in C[tx.to].holders["default"] \/ tx = GrantOf(tx.to),
           (tx = RenounceOf(tx.to) => "governance" \in C[tx.to].holders["default"]) => Governed(c)
    PROVE  Effect(C, tx, [C EXCEPT ![tx.to] = c])
<1> DEFINE to == tx.to  B == [C EXCEPT ![to] = c]
<1>1. /\ B \in Seq(CoreContract) /\ Len(B) = Len(C) /\ Later(C, B) /\ B[to] = c
      /\ \A b \in 1..Len(C) : b # to => B[b] = C[b]
  BY OneContract
<1>2. \A a : a # to => tx # GrantOf(a) /\ tx # RenounceOf(a)
  BY TxOf
<1>3. Len(C) \in Nat
  OBVIOUS
<1>4. ASSUME NEW a \in 1..Len(C)
      PROVE  /\ "governance" \in B[a].holders["default"]
                   <=> "governance" \in C[a].holders["default"] \/ tx = GrantOf(a)
             /\ (tx = RenounceOf(a) => "governance" \in C[a].holders["default"]) => Governed(B[a])
  <2>1. CASE a = to
    BY <1>1, <2>1
  <2>2. CASE a # to
    BY <1>1, <1>2, <2>2
  <2> QED BY <2>1, <2>2
<1> HIDE DEF B
<1>5. Effect(C, tx, B)
  BY <1>1, <1>3, <1>4 DEF Effect
<1> QED BY <1>5 DEF B

LEMMA Applied ==
    ASSUME NEW C \in Seq(CoreContract), NEW tx \in Transactions, Accepts(C, tx),
           \A a \in 1..Len(C) : Governed(C[a])
    PROVE  Effect(C, tx, Apply(C, tx))
<1>0. /\ tx.do \in {"deploy", "configure", "transfer", "grant", "renounce"}
      /\ tx.do \in {"grant", "renounce"} => tx.role \in CoreRoles
      /\ \A a : tx = GrantOf(a) <=> tx.do = "grant" /\ tx.to = a /\ tx.role = "default"
      /\ \A a : tx = RenounceOf(a) <=> tx.do = "renounce" /\ tx.to = a /\ tx.role = "default"
  BY TxOf
<1>1. CASE tx.do = "deploy"
  BY <1>1, DeployApplied
<1> SUFFICES ASSUME tx.do # "deploy" PROVE Effect(C, tx, Apply(C, tx))
  BY <1>1
<1> DEFINE to == tx.to  old == C[to]
<1>2. to \in 1..Len(C) /\ old \in CoreContract /\ Governed(old)
  <2>1. DOMAIN C = 1..Len(C)
    OBVIOUS
  <2> QED BY <2>1, ElementOfSeq DEF Accepts
<1>3. /\ old.kind \in Kinds /\ old.configured \in BOOLEAN /\ old.holders \in [CoreRoles -> SUBSET Accounts]
      /\ old.owner \in Accounts /\ old.pending \in Accounts /\ "default" \in CoreRoles
  BY <1>2 DEF CoreContract, CoreRoles
<1>4. CASE tx.do = "configure"
  <2> DEFINE c == [old EXCEPT !.configured = TRUE]
  <2>1. c \in CoreContract /\ c.kind = old.kind /\ c.configured /\ c.holders = old.holders /\ c.owner = old.owner
    BY <1>2 DEF CoreContract
  <2>2. Apply(C, tx) = [C EXCEPT ![to] = c]
    BY <1>4 DEF Apply
  <2>7. Governed(c)
    BY <1>2, <2>1 DEF Governed
  <2> HIDE DEF c
  <2>8. "governance" \in c.holders["default"]
           <=> "governance" \in old.holders["default"] \/ tx = GrantOf(to)
    BY <1>0, <1>4, <2>1
  <2>9. (tx = RenounceOf(to) => "governance" \in old.holders["default"]) => Governed(c)
    BY <2>7
  <2>10. \A r \in CoreRoles : "deployer" \in c.holders[r] => "deployer" \in old.holders[r]
    BY <2>1
  <2>11. Effect(C, tx, [C EXCEPT ![to] = c])
    BY <1>2, <2>1, <2>8, <2>9, <2>10, ContractChanged
  <2> QED BY <2>2, <2>11
<1>5. CASE tx.do = "transfer"
  <2> DEFINE c == [old EXCEPT !.pending = "governance"]
  <2>1. /\ c \in CoreContract /\ c.kind = old.kind /\ c.configured = old.configured /\ c.holders = old.holders
        /\ c.owner = old.owner
    BY <1>2 DEF CoreContract, Accounts
  <2>2. Apply(C, tx) = [C EXCEPT ![to] = c]
    BY <1>5 DEF Apply
  <2>7. Governed(c)
    BY <1>2, <2>1 DEF Governed
  <2> HIDE DEF c
  <2>8. "governance" \in c.holders["default"]
           <=> "governance" \in old.holders["default"] \/ tx = GrantOf(to)
    BY <1>0, <1>5, <2>1
  <2>9. (tx = RenounceOf(to) => "governance" \in old.holders["default"]) => Governed(c)
    BY <2>7
  <2>10. \A r \in CoreRoles : "deployer" \in c.holders[r] => "deployer" \in old.holders[r]
    BY <2>1
  <2>11. Effect(C, tx, [C EXCEPT ![to] = c])
    BY <1>2, <2>1, <2>8, <2>9, <2>10, ContractChanged
  <2> QED BY <2>2, <2>11
<1>6. CASE tx.do = "grant"
  <2> DEFINE to2 == old.holders[tx.role] \cup {Final[tx.role]}
             c == [old EXCEPT !.holders = [old.holders EXCEPT ![tx.role] = to2]]
  <2>1. tx.role \in CoreRoles /\ Final[tx.role] \in Accounts /\ Final[tx.role] # "deployer"
        /\ (Final[tx.role] = "governance" <=> tx.role = "default")
    BY <1>0, <1>6 DEF Final, CoreRoles, Accounts
  <2>2. to2 \in SUBSET Accounts
    BY <1>3, <2>1
  <2>3. /\ c \in CoreContract /\ c.kind = old.kind /\ c.configured = old.configured /\ c.owner = old.owner
        /\ \A r \in CoreRoles : c.holders[r] = IF r = tx.role THEN to2 ELSE old.holders[r]
    BY <1>2, <1>3, <2>1, <2>2 DEF CoreContract
  <2>4. Apply(C, tx) = [C EXCEPT ![to] = c]
    BY <1>3, <1>6, <2>1 DEF Apply
  <2>5. "deployer" \in old.holders["default"] /\ old.kind # "gate"
    <3>1. "deployer" \in old.holders["default"]
      BY <1>6 DEF Accepts
    <3> QED BY <1>2, <1>3, <3>1 DEF Governed
  <2>6. /\ "governance" \in c.holders["default"] <=> "governance" \in old.holders["default"] \/ tx.role = "default"
        /\ \A r \in CoreRoles : "deployer" \in c.holders[r] <=> "deployer" \in old.holders[r]
    BY <1>3, <2>1, <2>3
  <2>7. Governed(c)
    BY <1>3, <2>3, <2>5, <2>6 DEF Governed
  <2> HIDE DEF c
  <2>8. "governance" \in c.holders["default"]
           <=> "governance" \in old.holders["default"] \/ tx = GrantOf(to)
    BY <1>0, <1>6, <2>1, <2>6
  <2>9. (tx = RenounceOf(to) => "governance" \in old.holders["default"]) => Governed(c)
    BY <2>7
  <2>10. \A r \in CoreRoles : "deployer" \in c.holders[r] => "deployer" \in old.holders[r]
    BY <2>1, <2>6
  <2>11. Effect(C, tx, [C EXCEPT ![to] = c])
    BY <1>2, <2>3, <2>8, <2>9, <2>10, ContractChanged
  <2> QED BY <2>4, <2>11
<1>7. CASE tx.do = "renounce"
  <2> DEFINE to2 == old.holders[tx.role] \ {"deployer"}
             c == [old EXCEPT !.holders = [old.holders EXCEPT ![tx.role] = to2]]
  <2>1. tx.role \in CoreRoles
    BY <1>0, <1>7
  <2>2. to2 \in SUBSET Accounts
    BY <1>3, <2>1
  <2>3. /\ c \in CoreContract /\ c.kind = old.kind /\ c.configured = old.configured /\ c.owner = old.owner
        /\ \A r \in CoreRoles : c.holders[r] = IF r = tx.role THEN to2 ELSE old.holders[r]
    BY <1>2, <1>3, <2>1, <2>2 DEF CoreContract
  <2>4. Apply(C, tx) = [C EXCEPT ![to] = c]
    BY <1>3, <1>7, <2>1 DEF Apply
  <2>6. /\ "governance" \in c.holders["default"] <=> "governance" \in old.holders["default"]
        /\ \A r \in CoreRoles : "deployer" \in c.holders[r] => "deployer" \in old.holders[r]
    BY <1>3, <2>1, <2>3
  <2>7. (tx = RenounceOf(to) => "governance" \in old.holders["default"]) => Governed(c)
    <3> SUFFICES ASSUME tx.role = "default" => "governance" \in old.holders["default"] PROVE Governed(c)
      BY <1>0, <1>7
    <3>1. CASE old.kind = "gate"
      <4>1. \A r \in CoreRoles : old.holders[r] = {}
        BY <1>2, <3>1 DEF Governed
      <4> QED BY <2>3, <3>1, <4>1 DEF Governed
    <3>2. CASE old.kind # "gate" /\ tx.role = "default"
      BY <2>3, <2>6, <3>2 DEF Governed
    <3>3. CASE old.kind # "gate" /\ tx.role # "default"
      <4>1. c.holders["default"] = old.holders["default"]
        BY <1>3, <2>3, <3>3
      <4> QED BY <1>2, <2>3, <3>3, <4>1 DEF Governed
    <3> QED BY <3>1, <3>2, <3>3
  <2> HIDE DEF c
  <2>8. "governance" \in c.holders["default"]
           <=> "governance" \in old.holders["default"] \/ tx = GrantOf(to)
    BY <1>0, <1>7, <2>6
  <2>9. (tx = RenounceOf(to) => "governance" \in old.holders["default"]) => Governed(c)
    BY <2>7
  <2>10. \A r \in CoreRoles : "deployer" \in c.holders[r] => "deployer" \in old.holders[r]
    BY <2>6
  <2>11. Effect(C, tx, [C EXCEPT ![to] = c])
    BY <1>2, <2>3, <2>8, <2>9, <2>10, ContractChanged
  <2> QED BY <2>4, <2>11
<1> QED BY <1>0, <1>1, <1>4, <1>5, <1>6, <1>7

\* What was sent first explains the first blocks, whatever is sent after it.
LEMMA GrantedAlike ==
    ASSUME NEW s, NEW b, NEW after, NEW count, NEW m \in Nat, NEW a,
           \A i \in 1..m : after[i] = s[i], \A i \in 0..m : count[i] = b[i], NEW j \in 1..m
    PROVE  Granted(after, count, a, j) <=> Granted(s, b, a, j)
<1>1. after[j] = s[j] /\ \A p \in 1..(j - 1) : after[p] = s[p] /\ count[p] = b[p]
  OBVIOUS
<1> QED BY <1>1 DEF Granted

LEMMA ExplainedAlike ==
    ASSUME NEW s, NEW b, NEW after, NEW count, NEW m \in Nat, NEW C,
           \A i \in 1..m : after[i] = s[i], \A i \in 0..m : count[i] = b[i],
           BlockExplained(s, b, C, m)
    PROVE  BlockExplained(after, count, C, m)
<1>1. \A a : \A j \in 1..m : Granted(after, count, a, j) <=> Granted(s, b, a, j)
  BY GrantedAlike
<1>2. \A p \in 1..m : after[p] = s[p] /\ count[p] = b[p]
  OBVIOUS
<1>3. count[m] = b[m]
  OBVIOUS
<1> QED BY <1>1, <1>2, <1>3 DEF BlockExplained

\* A contract that governance moves.
LEMMA GovernanceExplained ==
    ASSUME NEW s, NEW b, NEW m, NEW C \in Seq(CoreContract), BlockExplained(s, b, C, m),
           NEW a \in 1..Len(C), NEW c \in CoreContract, c.kind = C[a].kind, Governed(c),
           "governance" \in c.holders["default"] <=> "governance" \in C[a].holders["default"]
    PROVE  BlockExplained(s, b, [C EXCEPT ![a] = c], m)
<1> DEFINE B == [C EXCEPT ![a] = c]
<1>1. /\ Len(B) = Len(C) /\ \A e \in 1..Len(C) : B[e] = IF e = a THEN c ELSE C[e]
  BY ExceptSeq
<1> HIDE DEF B
<1>2. /\ \A e \in 1..Len(B) :
           /\ B[e].kind = C[e].kind /\ Governed(B[e])
           /\ "governance" \in B[e].holders["default"] <=> "governance" \in C[e].holders["default"]
  BY <1>1 DEF BlockExplained
<1>3. BlockExplained(s, b, B, m)
  BY <1>1, <1>2 DEF BlockExplained
<1> QED BY <1>3 DEF B

\* A contract is of the one transaction that deployed it.
LEMMA BornOnce ==
    ASSUME NEW s, NEW b, SentTypes(s, b), NEW p \in 1..Len(s), NEW q \in 1..Len(s),
           s[p].do = "deploy", s[q].do = "deploy", b[p] = b[q]
    PROVE  p = q
<1>1. Len(s) \in Nat /\ p \in 0..Len(s) /\ q \in 0..Len(s) /\ {b[p], b[q]} \subseteq Nat
  BY DEF SentTypes
<1>2. p < q => b[p] < b[q]
  BY <1>1 DEF SentTypes
<1>3. q < p => b[q] < b[p]
  BY <1>1 DEF SentTypes
<1> QED BY <1>1, <1>2, <1>3

\* The next transaction is mined.
LEMMA MinedExplained ==
    ASSUME NEW s, NEW b, SentTypes(s, b), SentSafely(s, b), NEW m \in 0..(Len(s) - 1),
           NEW C \in Seq(CoreContract), BlockExplained(s, b, C, m)
    PROVE  LET B == IF Accepts(C, s[m + 1]) THEN Apply(C, s[m + 1]) ELSE C IN
           BlockExplained(s, b, B, m + 1)
<1> DEFINE tx == s[m + 1]  B == IF Accepts(C, tx) THEN Apply(C, tx) ELSE C  n == m + 1
<1>1. /\ tx \in Transactions /\ Len(s) \in Nat /\ m \in Nat /\ n \in 1..Len(s) /\ m = n - 1
      /\ b[n] = b[m] + (IF tx.do = "deploy" THEN 1 ELSE 0) /\ b[m] \in Nat /\ b[n] \in Nat
  <2>1. s \in Seq(Transactions) /\ Len(s) \in Nat /\ m \in Nat
    BY DEF SentTypes
  <2>2. n \in 1..Len(s) /\ m = n - 1 /\ m \in 0..Len(s) /\ n \in 0..Len(s)
    BY <2>1
  <2>3. tx \in Transactions
    BY <2>1, <2>2, ElementOfSeq
  <2> QED BY <2>1, <2>2, <2>3 DEF SentTypes
<1>2. \A a \in 1..Len(C) : Governed(C[a])
  BY DEF BlockExplained
<1>3. Len(C) = b[m] /\ Len(C) \in Nat
  BY DEF BlockExplained
<1>4. CASE Accepts(C, tx)
  <2>1. B = Apply(C, tx) /\ Effect(C, tx, B)
    BY <1>1, <1>2, <1>4, Applied
  <2> HIDE DEF B
  <2>2. Len(B) = b[n]
    BY <1>1, <1>3, <2>1 DEF Effect
  <2>3. ASSUME NEW a \in 1..Len(C)
        PROVE  /\ \E p \in 1..n : s[p].do = "deploy" /\ s[p].kind = B[a].kind /\ b[p] = a
               /\ "governance" \in B[a].holders["default"] <=> \E j \in 1..n : Granted(s, b, a, j)
               /\ Governed(B[a])
    <3>1. PICK p \in 1..m : s[p].do = "deploy" /\ s[p].kind = C[a].kind /\ b[p] = a
      BY DEF BlockExplained
    <3>0. p \in 1..n
      BY <1>1
    <3>2. B[a].kind = C[a].kind
      BY <2>1 DEF Effect, Later
    <3>3. "governance" \in C[a].holders["default"] <=> \E j \in 1..m : Granted(s, b, a, j)
      BY DEF BlockExplained
    <3>4. (\E j \in 1..n : Granted(s, b, a, j)) <=> (\E j \in 1..m : Granted(s, b, a, j)) \/ Granted(s, b, a, n)
      BY <1>1
    <3>5. /\ "governance" \in B[a].holders["default"]
                <=> "governance" \in C[a].holders["default"] \/ tx = GrantOf(a)
          /\ (tx = RenounceOf(a) => "governance" \in C[a].holders["default"]) => Governed(B[a])
      BY <2>1 DEF Effect
    <3>6. ASSUME tx = GrantOf(a), "governance" \notin C[a].holders["default"] PROVE Granted(s, b, a, n)
      <4>1. tx.do = "grant" /\ tx.to = a
        BY <3>6 DEF GrantOf
      <4>2. "deployer" \in C[a].holders["default"]
        BY <1>4, <4>1 DEF Accepts
      <4>3. C[a].kind # "gate"
        BY <1>2, <4>2 DEF Governed, CoreRoles
      <4>4. p \in 1..(n - 1)
        BY <1>1
      <4> QED BY <3>1, <3>6, <4>3, <4>4 DEF Granted
    <3>7. Granted(s, b, a, n) => tx = GrantOf(a)
      BY DEF Granted
    <3>8. tx = RenounceOf(a) => "governance" \in C[a].holders["default"]
      <4> SUFFICES ASSUME tx = RenounceOf(a) PROVE "governance" \in C[a].holders["default"]
        OBVIOUS
      <4>1. a \in Nat
        OBVIOUS
      <4>2. PICK j \in 1..(n - 1) : Granted(s, b, a, j)
        BY <1>1, <4>1 DEF SentSafely
      <4> QED BY <1>1, <3>3, <4>2
    <3>9. (\E j \in 1..n : Granted(s, b, a, j)) <=> "governance" \in C[a].holders["default"] \/ tx = GrantOf(a)
      BY <3>3, <3>4, <3>6, <3>7
    <3>10. s[p].do = "deploy" /\ s[p].kind = B[a].kind /\ b[p] = a
      BY <3>1, <3>2
    <3>11. Governed(B[a])
      BY <3>5, <3>8
    <3>12. "governance" \in B[a].holders["default"] <=> \E j \in 1..n : Granted(s, b, a, j)
      BY <3>5, <3>9
    <3> QED BY <3>0, <3>10, <3>11, <3>12
  <2>4. ASSUME tx.do = "deploy"
        PROVE  LET a == Len(C) + 1 IN
               /\ \E p \in 1..n : s[p].do = "deploy" /\ s[p].kind = B[a].kind /\ b[p] = a
               /\ "governance" \in B[a].holders["default"] <=> \E j \in 1..n : Granted(s, b, a, j)
               /\ Governed(B[a])
    <3> DEFINE a == Len(C) + 1
    <3>1. a = b[n] /\ B[a].kind = tx.kind /\ Governed(B[a]) /\ "governance" \notin B[a].holders["default"]
      BY <1>1, <1>3, <2>1, <2>4 DEF Effect
    <3>2. ~\E j \in 1..n : Granted(s, b, a, j)
      <4> SUFFICES ASSUME NEW j \in 1..n, NEW p \in 1..(j - 1), s[p].do = "deploy", b[p] = a PROVE FALSE
        BY DEF Granted
      <4>1. p \in 1..Len(s) /\ p # n
        BY <1>1
      <4> QED BY <1>1, <2>4, <3>1, <4>1, BornOnce
    <3> QED BY <1>1, <2>4, <3>1, <3>2
  <2>5. \A a \in 1..Len(B) : a \in 1..Len(C) \/ (tx.do = "deploy" /\ a = Len(C) + 1)
    BY <1>1, <1>3, <2>2
  <2>6. ASSUME NEW a \in 1..Len(B)
        PROVE  /\ \E p \in 1..n : s[p].do = "deploy" /\ s[p].kind = B[a].kind /\ b[p] = a
               /\ "governance" \in B[a].holders["default"] <=> \E j \in 1..n : Granted(s, b, a, j)
               /\ Governed(B[a])
    <3>1. CASE a \in 1..Len(C)
      BY <2>3, <3>1
    <3>2. CASE tx.do = "deploy" /\ a = Len(C) + 1
      BY <2>4, <3>2
    <3> QED BY <2>5, <3>1, <3>2
  <2>7. BlockExplained(s, b, B, n)
    BY <2>2, <2>6 DEF BlockExplained
  <2> QED BY <2>7 DEF B
<1>5. CASE ~Accepts(C, tx)
  <2>0. tx.do # "deploy"
    BY <1>5 DEF Accepts
  <2>1. B = C /\ tx.do # "deploy" /\ b[n] = b[m]
    BY <1>1, <1>5, <2>0
  <2>3. ASSUME NEW a \in 1..Len(C)
        PROVE  /\ \E p \in 1..n : s[p].do = "deploy" /\ s[p].kind = C[a].kind /\ b[p] = a
               /\ "governance" \in C[a].holders["default"] <=> \E j \in 1..n : Granted(s, b, a, j)
    <3>1. PICK p \in 1..m : s[p].do = "deploy" /\ s[p].kind = C[a].kind /\ b[p] = a
      BY DEF BlockExplained
    <3>2. p \in 1..n
      BY <1>1
    <3>3. "governance" \in C[a].holders["default"] <=> \E j \in 1..m : Granted(s, b, a, j)
      BY DEF BlockExplained
    <3>4. (\E j \in 1..n : Granted(s, b, a, j)) <=> (\E j \in 1..m : Granted(s, b, a, j)) \/ Granted(s, b, a, n)
      BY <1>1
    <3>5. ASSUME Granted(s, b, a, n) PROVE "governance" \in C[a].holders["default"]
      <4>1. tx = GrantOf(a) /\ tx.do = "grant" /\ tx.to = a
        BY <3>5 DEF Granted, GrantOf
      <4>2. PICK q \in 1..(n - 1) : s[q].do = "deploy" /\ s[q].kind # "gate" /\ b[q] = a
        BY <3>5 DEF Granted
      <4>3. p = q
        <5>1. p \in 1..Len(s) /\ q \in 1..Len(s)
          BY <1>1
        <5> QED BY <3>1, <4>2, <5>1, BornOnce
      <4>4. C[a].kind # "gate"
        BY <3>1, <4>2, <4>3
      <4>5. "deployer" \notin C[a].holders["default"]
        <5>1. DOMAIN C = 1..Len(C)
          OBVIOUS
        <5> QED BY <1>5, <4>1, <5>1 DEF Accepts
      <4> QED BY <1>2, <4>4, <4>5 DEF Governed
    <3> QED BY <3>1, <3>2, <3>3, <3>4, <3>5
  <2>4. BlockExplained(s, b, C, n)
    BY <1>2, <1>3, <2>1, <2>3 DEF BlockExplained
  <2> QED BY <2>1, <2>4
<1> QED BY <1>4, <1>5

LEMMA CeremonyStart == CeremonyInit => CeremonyInv
<1> SUFFICES ASSUME CeremonyInit PROVE CeremonyInv
  OBVIOUS
<1>1. /\ Genesis \in CoreBlocks /\ Genesis.contracts = <<>> /\ Genesis.fork = 0 /\ Genesis.tx.do = "none"
      /\ NotDeployed \in Records
  <2>1. <<>> \in Seq(CoreContract)
    OBVIOUS
  <2> QED BY <2>1 DEF Genesis, CoreBlocks, NoTx, NotDeployed, Records
<1>2. devnet \in Seq(CoreBlocks) /\ Len(devnet) = 1 /\ devnet[1] = Genesis
  BY <1>1 DEF CeremonyInit
<1>3. CeremonyTypes
  BY <1>1, <1>2, CeremonyAssumption DEF CeremonyTypes, CeremonyInit, NoRun
<1>4. RunSound /\ ReleaseStands
  BY DEF CeremonyInit, NoRun, RunSound, ReleaseStands
<1>5. BlocksLinked
  <2>1. \A n \in 1..Len(devnet) : n = 1 /\ devnet[n] = Genesis
    BY <1>2
  <2>2. Later(Genesis.contracts, Genesis.contracts)
    BY <1>1 DEF Later
  <2>3. forks = 0
    BY DEF CeremonyInit
  <2> QED BY <1>1, <2>1, <2>2, <2>3 DEF BlocksLinked
<1> DEFINE history == <<>>  born == [i \in 0..0 |-> 0]  at == [n \in 1..1 |-> 0]
<1>6. SentTypes(history, born) /\ SentSafely(history, born)
  <2>1. history \in Seq(Transactions) /\ Len(history) = 0
    OBVIOUS
  <2> QED BY <2>1 DEF SentTypes, SentSafely
<1>7. Aligned(history, at)
  BY <1>2 DEF Aligned, CeremonyInit
<1>8. Handed(history, born)
  BY DEF Handed, CeremonyInit, NoRun
<1>9. \A n \in 1..Len(devnet) : BlockExplained(history, born, devnet[n].contracts, at[n])
  <2>1. Len(Genesis.contracts) = 0
    BY <1>1
  <2> QED BY <1>2, <2>1 DEF BlockExplained
<1>10. Explained(history, born, at)
  BY <1>6, <1>7, <1>8, <1>9 DEF Explained
<1> QED BY <1>3, <1>4, <1>5, <1>10 DEF CeremonyInv

RunTypes == [phase : {"none", "bootstrap", "finalize"},
             at : {"idle", "task", "receipt", "record", "verify", "publish"},
             task : Nat, nonce : Nat, block : Records]

\* The chain and the pool stay.
LEMMA ScriptGoes ==
    ASSUME CeremonyInv, UNCHANGED <<devnet, forks, pool>>,
           checkpoint' \in [Kinds -> Records], manifest' \in Records, stops' \in 0..MaxStops,
           run' \in RunTypes, RunSound', ReleaseStands',
           \A history, born, at : Explained(history, born, at) => Handed(history, born)'
    PROVE  CeremonyInv'
<1>1. CeremonyTypes'
  BY DEF CeremonyInv, CeremonyTypes, RunTypes
<1>2. BlocksLinked'
  BY DEF CeremonyInv, BlocksLinked
<1>3. \E history, born, at : Explained(history, born, at)'
  <2>1. PICK history, born, at : Explained(history, born, at)
    BY DEF CeremonyInv
  <2>2. Handed(history, born)' /\ SentTypes(history, born) /\ SentSafely(history, born)
    BY <2>1 DEF Explained
  <2>3. Aligned(history, at)'
    BY <2>1 DEF Explained, Aligned
  <2>4. \A n \in 1..Len(devnet') : BlockExplained(history, born, devnet'[n].contracts, at[n])
    BY <2>1 DEF Explained
  <2>5. Explained(history, born, at)'
    BY <2>2, <2>3, <2>4 DEF Explained
  <2> QED BY <2>5
<1> QED BY <1>1, <1>2, <1>3 DEF CeremonyInv

\* What was verified of blocks that stay still holds.
LEMMA ReleaseStays ==
    ASSUME CeremonyInv, UNCHANGED <<run, checkpoint>>, devnet' \in Seq(CoreBlocks),
           StillMined(run.block)' =>
              /\ run.block.number \in 1..Len(devnet)
              /\ \A m \in 1..run.block.number : m \in 1..Len(devnet') /\ devnet'[m] = devnet[m]
    PROVE  ReleaseStands'
<1> SUFFICES ASSUME run.at = "publish", StillMined(run.block)'
             PROVE  /\ \A k \in Kinds : RecordTrue(k)' /\ checkpoint[k].number \in 1..run.block.number
                    /\ StateVerified(devnet[run.block.number].contracts, FALSE)'
  BY DEF ReleaseStands
<1> DEFINE n == run.block.number
<1>1. /\ devnet \in Seq(CoreBlocks) /\ Len(devnet) \in Nat /\ Len(devnet') \in Nat
      /\ DOMAIN devnet = 1..Len(devnet) /\ DOMAIN devnet' = 1..Len(devnet') /\ n \in Nat
  BY DEF CeremonyInv, CeremonyTypes, Records
<1>2. n \in 1..Len(devnet) /\ \A m \in 1..n : m \in 1..Len(devnet') /\ devnet'[m] = devnet[m]
  OBVIOUS
<1>3. n \in 1..n
  BY <1>1, <1>2
<1>4. StillMined(run.block)
  BY <1>1, <1>2, <1>3 DEF StillMined
<1>5. /\ \A k \in Kinds : RecordTrue(k) /\ checkpoint[k].number \in 1..n
      /\ StateVerified(devnet[n].contracts, FALSE)
  BY <1>4 DEF CeremonyInv, ReleaseStands
<1>6. \A k \in Kinds : RecordTrue(k)'
  <2> SUFFICES ASSUME NEW k \in Kinds PROVE RecordTrue(k)'
    OBVIOUS
  <2>1. checkpoint[k].number \in 1..Len(devnet') /\ devnet'[checkpoint[k].number] = devnet[checkpoint[k].number]
    BY <1>2, <1>5
  <2>2. RecordTrue(k)
    BY <1>5
  <2> QED BY <1>1, <2>1, <2>2 DEF RecordTrue, StillMined
<1>7. StateVerified(devnet[run.block.number].contracts, FALSE)'
  <2>1. devnet'[n] = devnet[n]
    BY <1>2, <1>3
  <2>2. run'.block.number = n
    OBVIOUS
  <2> QED BY <1>5, <2>1, <2>2 DEF StateVerified, FinalRoles, OnlyFinalRoles, ConfiguredAndAccepted
<1> QED BY <1>5, <1>6, <1>7

LEMMA BlockOf ==
    ASSUME CeremonyInv
    PROVE  /\ devnet \in Seq(CoreBlocks) /\ Len(devnet) \in Nat /\ Len(devnet) >= 1
           /\ DOMAIN devnet = 1..Len(devnet) /\ Latest \in Seq(CoreContract)
           /\ \A n \in 1..Len(devnet) :
                 /\ devnet[n] \in CoreBlocks /\ devnet[n].contracts \in Seq(CoreContract)
                 /\ devnet[n].fork \in Nat /\ devnet[n].nonce \in Nat
           /\ forks \in Nat
<1>1. devnet \in Seq(CoreBlocks) /\ Len(devnet) \in Nat /\ Len(devnet) >= 1 /\ DOMAIN devnet = 1..Len(devnet)
  BY DEF CeremonyInv, CeremonyTypes
<1>2. \A n \in 1..Len(devnet) : devnet[n] \in CoreBlocks
  BY <1>1, ElementOfSeq
<1>3. forks \in Nat
  BY CeremonyAssumption DEF CeremonyInv, CeremonyTypes
<1> QED BY <1>1, <1>2, <1>3 DEF CoreBlocks, Latest

\* A block is added.
LEMMA BlockAdded ==
    ASSUME CeremonyInv, NEW x \in CoreBlocks, devnet' = Append(devnet, x), x.fork = forks,
           UNCHANGED <<forks, run, checkpoint, stops, manifest>>, pool' \in Seq(Transactions),
           Later(Latest, x.contracts),
           x.tx.do = "deploy" =>
              /\ Len(Latest) < Len(x.contracts)
              /\ x.contracts[Len(x.contracts)].kind = x.tx.kind,
           \A history, born, at : Explained(history, born, at) => \E now : Explained(history, born, now)'
    PROVE  CeremonyInv'
<1> DEFINE L == Len(devnet)
<1>1. /\ devnet' \in Seq(CoreBlocks) /\ Len(devnet') = L + 1 /\ devnet'[L + 1] = x
      /\ \A n \in 1..L : devnet'[n] = devnet[n]
  BY BlockOf, AppendProperties
<1>2. CeremonyTypes'
  BY <1>1, BlockOf DEF CeremonyInv, CeremonyTypes
<1>3. RunSound'
  <2>1. run.block.number \in Nat /\ RunSound /\ run' = run
    BY DEF CeremonyInv, CeremonyTypes, Records
  <2>2. run.block.number <= L => run.block.number <= Len(devnet')
    BY <1>1, <2>1, BlockOf
  <2> QED BY <2>1, <2>2 DEF RunSound
<1>4. BlocksLinked'
  <2>1. \A n \in 1..(L + 1) : n \in 1..L \/ n = L + 1
    BY BlockOf
  <2>2. x.contracts \in Seq(CoreContract) /\ x.contracts = devnet'[L + 1].contracts
    BY <1>1 DEF CoreBlocks
  <2>3. \A n \in 1..L + 1 : devnet'[n].fork <= forks'
    BY <1>1, <2>1, BlockOf DEF CeremonyInv, BlocksLinked
  <2>4. \A m \in 1..L : Later(devnet[m].contracts, x.contracts)
    <3> SUFFICES ASSUME NEW m \in 1..L PROVE Later(devnet[m].contracts, x.contracts)
      OBVIOUS
    <3>1. L \in 1..L /\ m <= L
      BY BlockOf
    <3>2. Later(devnet[m].contracts, Latest)
      BY <3>1 DEF CeremonyInv, BlocksLinked, Latest
    <3> QED BY <2>2, <3>2, BlockOf, LaterTrans
  <2>5. Later(x.contracts, x.contracts)
    BY <2>2, LaterRefl
  <2>6. ASSUME NEW m \in 1..L + 1, NEW n \in 1..L + 1, m <= n
        PROVE  Later(devnet'[m].contracts, devnet'[n].contracts)
    <3>1. CASE n \in 1..L
      <4>1. m \in 1..L
        BY <2>6, <3>1, BlockOf
      <4> QED BY <1>1, <2>6, <3>1, <4>1 DEF CeremonyInv, BlocksLinked
    <3>2. CASE n = L + 1 /\ m \in 1..L
      BY <1>1, <2>4, <3>2
    <3>3. CASE n = L + 1 /\ m = L + 1
      BY <1>1, <2>5, <3>3
    <3> QED BY <2>1, <3>1, <3>2, <3>3
  <2>7. ASSUME NEW n \in 1..L + 1, devnet'[n].tx.do = "deploy"
        PROVE  LET C == devnet'[n].contracts IN
               /\ \A m \in 1..(n - 1) : Len(devnet'[m].contracts) < Len(C)
               /\ Len(C) >= 1 /\ C[Len(C)].kind = devnet'[n].tx.kind
    <3>1. CASE n \in 1..L
      <4>1. \A m \in 1..(n - 1) : m \in 1..L /\ devnet'[m] = devnet[m]
        BY <1>1, <3>1, BlockOf
      <4>2. devnet'[n] = devnet[n]
        BY <1>1, <3>1
      <4> QED BY <2>7, <3>1, <4>1, <4>2 DEF CeremonyInv, BlocksLinked
    <3>2. CASE n = L + 1
      <4>1. /\ Len(Latest) < Len(x.contracts) /\ x.contracts[Len(x.contracts)].kind = x.tx.kind
            /\ Len(Latest) \in Nat /\ Len(x.contracts) \in Nat
        BY <1>1, <2>2, <2>7, <3>2, BlockOf
      <4>2. \A m \in 1..(n - 1) : m \in 1..L /\ devnet'[m] = devnet[m]
        BY <1>1, <3>2, BlockOf
      <4>3. \A m \in 1..L : Len(devnet[m].contracts) \in Nat /\ Len(devnet[m].contracts) <= Len(Latest)
        <5>1. L \in 1..L
          BY BlockOf
        <5> QED BY <5>1, BlockOf DEF CeremonyInv, BlocksLinked, Later, Latest
      <4>4. \A m \in 1..(n - 1) : Len(devnet'[m].contracts) < Len(x.contracts)
        BY <4>1, <4>2, <4>3
      <4> QED BY <1>1, <3>2, <4>1, <4>4
    <3> QED BY <2>1, <3>1, <3>2
  <2> QED BY <1>1, <2>3, <2>6, <2>7 DEF BlocksLinked
<1>5. ReleaseStands'
  <2>1. ASSUME run.at = "publish", StillMined(run.block)'
        PROVE  /\ run.block.number \in 1..L
               /\ \A m \in 1..run.block.number : m \in 1..Len(devnet') /\ devnet'[m] = devnet[m]
    <3>1. /\ run.block.number \in Nat /\ run.block.number >= 1 /\ run.block.fork \in Nat
          /\ run.block.number <= L \/ run.block.fork < forks
      BY <2>1 DEF CeremonyInv, CeremonyTypes, RunSound, Records
    <3>2. run.block.number \in 1..L + 1 /\ devnet'[run.block.number].fork = run.block.fork
      BY <1>1, <2>1, BlockOf DEF StillMined
    <3>3. run.block.number # L + 1
      BY <1>1, <3>1, <3>2, BlockOf
    <3> QED BY <1>1, <3>1, <3>2, <3>3, BlockOf
  <2>2. CASE run.at = "publish"
    BY <1>1, <2>1, <2>2, ReleaseStays
  <2>3. CASE run.at # "publish"
    BY <2>3 DEF ReleaseStands
  <2> QED BY <2>2, <2>3
<1>6. \E history, born, at : Explained(history, born, at)'
  BY DEF CeremonyInv
<1> QED BY <1>2, <1>3, <1>4, <1>5, <1>6 DEF CeremonyInv

LEMMA ExplainedAt ==
    ASSUME CeremonyInv, NEW history, NEW born, NEW at, Explained(history, born, at)
    PROVE  LET m == at[Len(devnet)] IN
           /\ history \in Seq(Transactions) /\ Len(history) \in Nat /\ m \in 0..Len(history)
           /\ SentTypes(history, born) /\ SentSafely(history, born)
           /\ BlockExplained(history, born, Latest, m)
           /\ Len(pool) = Len(history) - m /\ \A i \in 1..Len(pool) : pool[i] = history[m + i]
           /\ \A n \in 1..Len(devnet) : at[n] \in 0..Len(history)
<1>1. Len(devnet) \in 1..Len(devnet)
  BY BlockOf
<1>2. Len(history) \in Nat /\ history \in Seq(Transactions)
  BY DEF Explained, SentTypes
<1> QED BY <1>1, <1>2 DEF Explained, Aligned, Latest

\* The blocks explained with one more.
LEMMA ExplainedAdded ==
    ASSUME CeremonyInv, NEW history, NEW born, NEW at, Explained(history, born, at),
           NEW x \in CoreBlocks, devnet' = Append(devnet, x), UNCHANGED <<run, checkpoint>>,
           NEW m \in 0..Len(history), BlockExplained(history, born, x.contracts, m),
           IF x.nonce = 0 THEN m = at[Len(devnet)] ELSE m = at[Len(devnet)] + 1 /\ x.tx = history[m],
           Len(pool') = Len(history) - m, \A i \in 1..Len(pool') : pool'[i] = history[m + i]
    PROVE  \E now : Explained(history, born, now)'
<1> DEFINE L == Len(devnet)
<1>0. PICK now : now = [n \in 1..L + 1 |-> IF n = L + 1 THEN m ELSE at[n]]
  OBVIOUS
<1>1. /\ devnet' \in Seq(CoreBlocks) /\ Len(devnet') = L + 1 /\ devnet'[L + 1] = x
      /\ \A n \in 1..L : devnet'[n] = devnet[n]
  BY BlockOf, AppendProperties
<1>2. /\ L \in Nat /\ L >= 1 /\ \A n \in 1..L : at[n] \in 0..Len(history)
  BY BlockOf, ExplainedAt
<1>3. now \in [1..Len(devnet') -> 0..Len(history)] /\ now[L + 1] = m /\ \A n \in 1..L : now[n] = at[n]
  BY <1>0, <1>1, <1>2
<1>4. Aligned(history, now)'
  <2>1. now[1] = 0
    BY <1>2, <1>3 DEF Explained, Aligned
  <2>2. ASSUME NEW n \in 2..L + 1
        PROVE  IF devnet'[n].nonce = 0 THEN now[n] = now[n - 1]
               ELSE now[n] = now[n - 1] + 1 /\ devnet'[n].tx = history[now[n]]
    <3>1. CASE n = L + 1
      <4>1. n - 1 = L /\ L \in 1..L
        BY <1>2, <3>1
      <4>2. now[n - 1] = at[L] /\ now[n] = m /\ devnet'[n] = x
        BY <1>1, <1>3, <3>1, <4>1
      <4> QED BY <4>2
    <3>2. CASE n # L + 1
      <4>1. n \in 2..L /\ n \in 1..L /\ n - 1 \in 1..L
        BY <1>2, <3>2
      <4>2. now[n] = at[n] /\ now[n - 1] = at[n - 1] /\ devnet'[n] = devnet[n]
        BY <1>1, <1>3, <4>1
      <4> QED BY <4>1, <4>2 DEF Explained, Aligned
    <3> QED BY <3>1, <3>2
  <2> QED BY <1>1, <1>3, <2>1, <2>2 DEF Aligned
<1>5. \A n \in 1..Len(devnet') : BlockExplained(history, born, devnet'[n].contracts, now[n])
  <2>1. \A n \in 1..(L + 1) : n \in 1..L \/ n = L + 1
    BY <1>2
  <2> QED BY <1>1, <1>3, <2>1 DEF Explained
<1>6. Handed(history, born)' /\ SentTypes(history, born) /\ SentSafely(history, born)
  BY DEF Explained, Handed
<1>7. Explained(history, born, now)'
  BY <1>4, <1>5, <1>6 DEF Explained
<1> QED BY <1>7

LEMMA MinedNonce == ASSUME CeremonyInv PROVE Nonce - Len(pool) \in Nat /\ Nonce - Len(pool) # 0 /\ Nonce \in Nat
<1> DEFINE S == {n \in DOMAIN devnet : devnet[n].nonce # 0}
<1>1. IsFiniteSet(S)
  <2>1. IsFiniteSet(1..Len(devnet))
    BY BlockOf, FS_Interval
  <2> QED BY <2>1, BlockOf, FS_Subset
<1>2. Cardinality(S) \in Nat
  BY <1>1, FS_CardinalityType
<1>3. Len(pool) \in Nat /\ Nonce = 1 + Len(pool) + Cardinality(S)
  BY DEF CeremonyInv, CeremonyTypes, Nonce
<1> QED BY <1>2, <1>3

LEMMA TransactionMined == ASSUME CeremonyInv, Mined PROVE CeremonyInv'
<1> DEFINE tx == Head(pool)  ok == Accepts(Latest, tx)
           B == IF ok THEN Apply(Latest, tx) ELSE Latest
           x == [contracts |-> B, fork |-> forks, tx |-> tx, nonce |-> Nonce - Len(pool), ok |-> ok]
<1>1. /\ pool # <<>> /\ pool \in Seq(Transactions) /\ tx \in Transactions /\ tx = pool[1]
      /\ pool' = Tail(pool) /\ pool' \in Seq(Transactions) /\ Len(pool') = Len(pool) - 1 /\ Len(pool) \in Nat
      /\ \A i \in 1..Len(pool') : pool'[i] = pool[i + 1]
  BY HeadTailProperties DEF Mined, CeremonyInv, CeremonyTypes
<1>2. devnet' = Append(devnet, x) /\ UNCHANGED <<forks, checkpoint, run, stops, manifest>>
  BY DEF Mined, Extend
<1> HIDE DEF tx
<1>3. ok \in BOOLEAN
  BY DEF Accepts
<1>4. \A a \in 1..Len(Latest) : Governed(Latest[a])
  <2>1. PICK history, born, at : Explained(history, born, at)
    BY DEF CeremonyInv
  <2> QED BY <2>1, ExplainedAt DEF BlockExplained
<1>5. Latest \in Seq(CoreContract) /\ Len(Latest) \in Nat
  BY BlockOf
<1>6. /\ B \in Seq(CoreContract) /\ Later(Latest, B)
      /\ tx.do = "deploy" => Len(Latest) < Len(B) /\ B[Len(B)].kind = tx.kind
  <2>1. CASE ok
    <3>1. Effect(Latest, tx, B)
      BY <1>1, <1>4, <1>5, <2>1, Applied
    <3> QED BY <1>5, <3>1 DEF Effect
  <2>2. CASE ~ok
    BY <1>5, <2>2, LaterRefl DEF Accepts
  <2> QED BY <2>1, <2>2
<1>7. x \in CoreBlocks /\ x.nonce # 0
  BY <1>1, <1>3, <1>6, BlockOf, MinedNonce DEF CoreBlocks
<1>8. ASSUME NEW history, NEW born, NEW at, Explained(history, born, at)
      PROVE  \E now : Explained(history, born, now)'
  <2> DEFINE m == at[Len(devnet)]
  <2>1. /\ history \in Seq(Transactions) /\ Len(history) \in Nat /\ m \in 0..Len(history)
        /\ SentTypes(history, born) /\ SentSafely(history, born) /\ BlockExplained(history, born, Latest, m)
        /\ Len(pool) = Len(history) - m /\ \A i \in 1..Len(pool) : pool[i] = history[m + i]
    BY <1>8, ExplainedAt
  <2> HIDE DEF m
  <2>2. m \in 0..(Len(history) - 1) /\ m + 1 \in 0..Len(history) /\ 1 \in 1..Len(pool)
    BY <1>1, <2>1
  <2>3. tx = history[m + 1]
    BY <1>1, <2>1, <2>2
  <2>4. BlockExplained(history, born, B, m + 1)
    BY <1>5, <2>1, <2>2, <2>3, MinedExplained
  <2>5. Len(pool') = Len(history) - (m + 1) /\ \A i \in 1..Len(pool') : pool'[i] = history[(m + 1) + i]
    <3>1. Len(pool') = Len(history) - (m + 1)
      BY <1>1, <2>1
    <3>2. ASSUME NEW i \in 1..Len(pool') PROVE pool'[i] = history[(m + 1) + i]
      <4>1. i + 1 \in 1..Len(pool) /\ m + (i + 1) = (m + 1) + i
        BY <1>1, <2>1
      <4>2. pool[i + 1] = history[m + (i + 1)]
        BY <2>1, <4>1
      <4> QED BY <1>1, <4>1, <4>2
    <3> QED BY <3>1, <3>2
  <2>6. x.contracts = B /\ x.tx = tx
    OBVIOUS
  <2> HIDE DEF x, B
  <2> QED BY <1>2, <1>7, <1>8, <2>2, <2>3, <2>4, <2>5, <2>6, ExplainedAdded DEF m
<1>9. x.contracts = B /\ x.tx = tx /\ x.fork = forks
  OBVIOUS
<1> HIDE DEF x, B
<1> QED BY <1>1, <1>2, <1>6, <1>7, <1>8, <1>9, BlockAdded

LEMMA GovernanceMoves ==
    ASSUME CeremonyInv, NEW a \in 1..Len(Latest), NEW c \in CoreContract, Governance(a, c),
           c.kind = Latest[a].kind, c.configured = Latest[a].configured,
           \A r \in CoreRoles : "deployer" \in c.holders[r] => "deployer" \in Latest[a].holders[r],
           Latest[a].owner = "governance" => c.owner = "governance",
           "governance" \in c.holders["default"] <=> "governance" \in Latest[a].holders["default"],
           Governed(Latest[a]) => Governed(c)
    PROVE  CeremonyInv'
<1> DEFINE B == [Latest EXCEPT ![a] = c]
           x == [contracts |-> B, fork |-> forks, tx |-> NoTx, nonce |-> 0, ok |-> TRUE]
<1>1. devnet' = Append(devnet, x) /\ UNCHANGED <<forks, pool, checkpoint, run, stops, manifest>>
  BY DEF Governance, Extend
<1>2. Latest \in Seq(CoreContract)
  BY BlockOf
<1>3. B \in Seq(CoreContract) /\ Later(Latest, B)
  BY <1>2, OneContract
<1>4. x \in CoreBlocks /\ x.nonce = 0 /\ x.tx.do # "deploy"
  BY <1>3, BlockOf DEF CoreBlocks, NoTx
<1>5. ASSUME NEW history, NEW born, NEW at, Explained(history, born, at)
      PROVE  \E now : Explained(history, born, now)'
  <2> DEFINE m == at[Len(devnet)]
  <2>1. /\ m \in 0..Len(history) /\ BlockExplained(history, born, Latest, m)
        /\ Len(pool) = Len(history) - m /\ \A i \in 1..Len(pool) : pool[i] = history[m + i]
    BY <1>5, ExplainedAt
  <2> HIDE DEF m
  <2>2. Governed(c)
    BY <2>1 DEF BlockExplained
  <2>3. BlockExplained(history, born, B, m)
    BY <1>2, <2>1, <2>2, GovernanceExplained
  <2>4. x.contracts = B
    OBVIOUS
  <2> HIDE DEF x, B
  <2>5. Len(pool') = Len(history) - m /\ \A i \in 1..Len(pool') : pool'[i] = history[m + i]
    BY <1>1, <2>1
  <2>6. m = at[Len(devnet)]
    BY DEF m
  <2> QED BY <1>1, <1>4, <1>5, <2>1, <2>3, <2>4, <2>5, <2>6, ExplainedAdded
<1>6. x.contracts = B /\ x.fork = forks
  OBVIOUS
<1>7. pool' \in Seq(Transactions)
  BY <1>1 DEF CeremonyInv, CeremonyTypes
<1> HIDE DEF x, B
<1> QED BY <1>1, <1>3, <1>4, <1>5, <1>6, <1>7, BlockAdded

LEMMA GovernanceSteps ==
    ASSUME CeremonyInv, NEW a \in DOMAIN Latest,
           AcceptOwnership(a) \/ \E r \in CoreRoles : RevokeDeployer(a, r)
    PROVE  CeremonyInv'
<1> DEFINE old == Latest[a]
<1>1. a \in 1..Len(Latest) /\ old \in CoreContract
  BY BlockOf, ElementOfSeq
<1>2. /\ old.kind \in Kinds /\ old.configured \in BOOLEAN /\ old.holders \in [CoreRoles -> SUBSET Accounts]
      /\ old.owner \in Accounts /\ old.pending \in Accounts /\ "default" \in CoreRoles
  BY <1>1 DEF CoreContract, CoreRoles
<1>3. CASE AcceptOwnership(a)
  <2> DEFINE c == [old EXCEPT !.owner = "governance", !.pending = "none"]
  <2>1. /\ c \in CoreContract /\ c.kind = old.kind /\ c.configured = old.configured
        /\ c.holders = old.holders /\ c.owner = "governance"
    BY <1>1 DEF CoreContract, Accounts
  <2>2. Governance(a, c)
    BY <1>3 DEF AcceptOwnership
  <2>3. Governed(old) => Governed(c)
    BY <2>1 DEF Governed
  <2> HIDE DEF c
  <2> QED BY <1>1, <2>1, <2>2, <2>3, GovernanceMoves
<1>4. CASE \E r \in CoreRoles : RevokeDeployer(a, r)
  <2>1. PICK role \in CoreRoles : RevokeDeployer(a, role)
    BY <1>4
  <2> DEFINE to2 == old.holders[role] \ {"deployer"}
             c == [old EXCEPT !.holders = [old.holders EXCEPT ![role] = to2]]
  <2>2. to2 \in SUBSET Accounts
    BY <1>2
  <2>3. /\ c \in CoreContract /\ c.kind = old.kind /\ c.configured = old.configured /\ c.owner = old.owner
        /\ \A r \in CoreRoles : c.holders[r] = IF r = role THEN to2 ELSE old.holders[r]
    BY <1>1, <1>2, <2>2 DEF CoreContract
  <2>4. c = [old EXCEPT !.holders[role] = @ \ {"deployer"}]
    BY <1>2
  <2>5. Governance(a, c) /\ "governance" \in old.holders["default"]
    BY <2>1, <2>4 DEF RevokeDeployer
  <2>6. /\ "governance" \in c.holders["default"]
        /\ \A r \in CoreRoles : "deployer" \in c.holders[r] => "deployer" \in old.holders[r]
    BY <1>2, <2>3, <2>5
  <2>7. Governed(old) => Governed(c)
    BY <1>2, <2>3, <2>5, <2>6 DEF Governed
  <2> HIDE DEF c
  <2> QED BY <1>1, <2>3, <2>5, <2>6, <2>7, GovernanceMoves
<1> QED BY <1>3, <1>4

\* The last block is replaced: its transaction waits again, first.
LEMMA BlockReplaced == ASSUME CeremonyInv, Replaced PROVE CeremonyInv'
<1> DEFINE L == Len(devnet)
<1>1. L \in Nat /\ L > 1 /\ devnet' = SubSeq(devnet, 1, L - 1) /\ forks' = forks + 1 /\ forks < MaxForks
      /\ UNCHANGED <<checkpoint, run, stops, manifest>>
  BY BlockOf DEF Replaced
<1>2. /\ devnet' \in Seq(CoreBlocks) /\ Len(devnet') = L - 1 /\ \A n \in 1..(L - 1) : devnet'[n] = devnet[n]
  <2>1. \A n \in 1..(L - 1) : devnet[n] \in CoreBlocks
    BY <1>1, BlockOf
  <2> QED BY <1>1, <2>1, SubSeqProperties
<1>3. pool \in Seq(Transactions) /\ Len(pool) \in Nat
  BY DEF CeremonyInv, CeremonyTypes
<1>4. PICK history, born, at : Explained(history, born, at)
  BY DEF CeremonyInv
<1>5. /\ history \in Seq(Transactions) /\ Len(history) \in Nat /\ at[L] \in 0..Len(history) /\ at[L - 1] \in 0..Len(history)
      /\ Len(pool) = Len(history) - at[L] /\ \A i \in 1..Len(pool) : pool[i] = history[at[L] + i]
      /\ \A n \in 1..L : at[n] \in 0..Len(history)
  <2>1. L - 1 \in 1..L
    BY <1>1
  <2> QED BY <1>4, <2>1, ExplainedAt
<1>6. /\ devnet[L].nonce = 0 => at[L] = at[L - 1]
      /\ devnet[L].nonce # 0 => at[L] = at[L - 1] + 1 /\ devnet[L].tx = history[at[L]]
  <2>1. L \in 2..L
    BY <1>1
  <2> QED BY <1>4, <2>1 DEF Explained, Aligned
<1>7. /\ pool' \in Seq(Transactions) /\ Len(pool') = Len(history) - at[L - 1]
      /\ \A i \in 1..Len(pool') : pool'[i] = history[at[L - 1] + i]
  <2>1. CASE devnet[L].nonce = 0
    <3>1. pool' = pool
      BY <2>1 DEF Replaced
    <3> QED BY <1>3, <1>5, <1>6, <2>1, <3>1
  <2>2. CASE devnet[L].nonce # 0
    <3> DEFINE tx == devnet[L].tx
    <3>1. pool' = <<tx>> \o pool
      BY <2>2 DEF Replaced
    <3>2. at[L] \in 1..Len(history) /\ tx = history[at[L]] /\ tx \in Transactions /\ at[L] = at[L - 1] + 1
      <4>1. at[L] \in 1..Len(history)
        BY <1>5, <1>6, <2>2
      <4> QED BY <1>5, <1>6, <2>2, <4>1, ElementOfSeq
    <3> HIDE DEF tx
    <3>3. <<tx>> \in Seq(Transactions) /\ Len(<<tx>>) = 1 /\ <<tx>>[1] = tx
      BY <3>2
    <3>4. /\ pool' \in Seq(Transactions) /\ Len(pool') = 1 + Len(pool)
          /\ \A i \in 1..(1 + Len(pool)) : pool'[i] = IF i <= 1 THEN <<tx>>[i] ELSE pool[i - 1]
      BY <1>3, <3>1, <3>3, ConcatProperties
    <3>5. Len(pool') = Len(history) - at[L - 1]
      BY <1>3, <1>5, <3>2, <3>4
    <3>6. ASSUME NEW i \in 1..Len(pool') PROVE pool'[i] = history[at[L - 1] + i]
      <4>1. CASE i = 1
        BY <1>5, <3>2, <3>3, <3>4, <3>6, <4>1
      <4>2. CASE i # 1
        <5>0. i - 1 \in 1..Len(pool) /\ ~(i <= 1) /\ i \in 1..(1 + Len(pool))
          BY <1>3, <3>4, <4>2
        <5>1. i - 1 \in 1..Len(pool) /\ ~(i <= 1) /\ at[L] + (i - 1) = at[L - 1] + i /\ i \in 1..(1 + Len(pool))
          <6> DEFINE u == at[L]  v == at[L - 1]
          <6>1. u \in Nat /\ v \in Nat /\ u = v + 1 /\ i \in Nat
            BY <1>5, <3>2, <5>0
          <6> HIDE DEF u, v
          <6>2. u + (i - 1) = v + i
            BY <6>1
          <6> QED BY <5>0, <6>2 DEF u, v
        <5>2. pool[i - 1] = history[at[L] + (i - 1)]
          BY <1>5, <5>1
        <5> QED BY <3>4, <5>1, <5>2
      <4> QED BY <4>1, <4>2
    <3> QED BY <3>4, <3>5, <3>6
  <2> QED BY <2>1, <2>2
<1>8. CeremonyTypes'
  <2>1. forks \in 0..MaxForks /\ MaxForks \in Nat
    BY CeremonyAssumption DEF CeremonyInv, CeremonyTypes
  <2> QED BY <1>1, <1>2, <1>7, <2>1 DEF CeremonyInv, CeremonyTypes
<1>9. RunSound'
  <2>1. /\ run.block.number \in Nat /\ run.block.fork \in Nat /\ RunSound /\ run' = run /\ forks \in Nat
    BY <1>1, BlockOf DEF CeremonyInv, CeremonyTypes, Records
  <2>2. run.block.fork <= forks => run.block.fork < forks' /\ run.block.fork <= forks'
    BY <1>1, <2>1
  <2> QED BY <2>1, <2>2 DEF RunSound
<1>10. BlocksLinked'
  <2>1. \A n \in 1..(L - 1) : n \in 1..L /\ devnet[n].fork \in Nat
    BY <1>1, BlockOf
  <2>2. \A n \in 1..(L - 1) : devnet'[n].fork <= forks'
    <3>1. \A n \in 1..(L - 1) : devnet[n].fork <= forks /\ forks \in Nat
      BY <2>1, BlockOf DEF CeremonyInv, BlocksLinked
    <3> QED BY <1>1, <1>2, <2>1, <3>1
  <2>3. \A m, n \in 1..(L - 1) : m <= n => Later(devnet'[m].contracts, devnet'[n].contracts)
    BY <1>2, <2>1 DEF CeremonyInv, BlocksLinked
  <2>4. ASSUME NEW n \in 1..(L - 1), devnet'[n].tx.do = "deploy"
        PROVE  LET C == devnet'[n].contracts IN
               /\ \A m \in 1..(n - 1) : Len(devnet'[m].contracts) < Len(C)
               /\ Len(C) >= 1 /\ C[Len(C)].kind = devnet'[n].tx.kind
    <3>1. \A m \in 1..(n - 1) : m \in 1..(L - 1) /\ devnet'[m] = devnet[m]
      BY <1>1, <1>2
    <3> QED BY <1>2, <2>1, <2>4, <3>1 DEF CeremonyInv, BlocksLinked
  <2> QED BY <1>2, <2>2, <2>3, <2>4 DEF BlocksLinked
<1>11. ReleaseStands'
  <2>1. ASSUME StillMined(run.block)'
        PROVE  /\ run.block.number \in 1..L
               /\ \A m \in 1..run.block.number : m \in 1..Len(devnet') /\ devnet'[m] = devnet[m]
    <3>1. run.block.number \in 1..(L - 1)
      BY <1>1, <1>2, <2>1 DEF StillMined
    <3> QED BY <1>1, <1>2, <3>1
  <2> QED BY <1>1, <1>2, <2>1, ReleaseStays
<1>12. \E now : Explained(history, born, now)'
  <2>1. PICK now : now = [n \in 1..(L - 1) |-> at[n]]
    OBVIOUS
  <2>2. now \in [1..(L - 1) -> 0..Len(history)] /\ \A n \in 1..(L - 1) : now[n] = at[n]
    BY <1>1, <1>5, <2>1
  <2>3. Aligned(history, now)'
    <3>1. 1 \in 1..(L - 1) /\ L - 1 \in 1..(L - 1) /\ at[1] = 0
      BY <1>1, <1>4 DEF Explained, Aligned
    <3>2. ASSUME NEW n \in 2..(L - 1)
          PROVE  IF devnet'[n].nonce = 0 THEN now[n] = now[n - 1]
                 ELSE now[n] = now[n - 1] + 1 /\ devnet'[n].tx = history[now[n]]
      <4>1. n \in 2..L /\ n \in 1..(L - 1) /\ n - 1 \in 1..(L - 1)
        BY <1>1
      <4>2. now[n] = at[n] /\ now[n - 1] = at[n - 1] /\ devnet'[n] = devnet[n]
        BY <1>2, <2>2, <4>1
      <4> QED BY <1>4, <4>1, <4>2 DEF Explained, Aligned
    <3> QED BY <1>2, <1>7, <2>2, <3>1, <3>2 DEF Aligned
  <2>4. \A n \in 1..Len(devnet') : BlockExplained(history, born, devnet'[n].contracts, now[n])
    <3>1. \A n \in 1..(L - 1) : n \in 1..L
      BY <1>1
    <3> QED BY <1>2, <1>4, <2>2, <3>1 DEF Explained
  <2>5. Handed(history, born)' /\ SentTypes(history, born) /\ SentSafely(history, born)
    BY <1>1, <1>4 DEF Explained, Handed
  <2>6. Explained(history, born, now)'
    BY <2>3, <2>4, <2>5 DEF Explained
  <2> QED BY <2>6
<1> QED BY <1>8, <1>9, <1>10, <1>11, <1>12 DEF CeremonyInv

\* One more transaction is sent.
LEMMA SentOne ==
    ASSUME NEW s, NEW b, SentTypes(s, b), NEW tx \in Transactions
    PROVE  \E count : LET after == Append(s, tx) IN
              /\ SentTypes(after, count) /\ Len(after) = Len(s) + 1 /\ after[Len(s) + 1] = tx
              /\ \A i \in 1..Len(s) : after[i] = s[i]
              /\ \A i \in 0..Len(s) : count[i] = b[i]
<1> DEFINE n == Len(s)  after == Append(s, tx)  one == IF tx.do = "deploy" THEN 1 ELSE 0
           count == [i \in 0..n + 1 |-> IF i = n + 1 THEN b[n] + one ELSE b[i]]
<1>1. /\ after \in Seq(Transactions) /\ Len(after) = n + 1 /\ n \in Nat
      /\ \A i \in 1..n : after[i] = s[i] /\ after[n + 1] = tx
  BY AppendProperties DEF SentTypes
<1>2. after[n + 1] = tx
  BY AppendProperties DEF SentTypes
<1>3. b[n] \in Nat /\ \A i \in 0..n : b[i] \in Nat
  BY <1>1 DEF SentTypes
<1>4. count \in [0..n + 1 -> Nat] /\ count[n + 1] = b[n] + one /\ \A i \in 0..n : count[i] = b[i]
  BY <1>1, <1>3
<1> HIDE DEF count, after
<1>5. count[0] = 0
  BY <1>1, <1>4 DEF SentTypes
<1>6. ASSUME NEW i \in 1..n + 1
      PROVE  count[i] = count[i - 1] + (IF after[i].do = "deploy" THEN 1 ELSE 0)
  <2>1. CASE i = n + 1
    <3>1. i - 1 = n /\ n \in 0..n
      BY <1>1, <2>1
    <3> QED BY <1>2, <1>4, <2>1, <3>1
  <2>2. CASE i # n + 1
    <3>1. i \in 1..n /\ i \in 0..n /\ i - 1 \in 0..n
      BY <1>1, <2>2
    <3> QED BY <1>1, <1>4, <3>1 DEF SentTypes
  <2> QED BY <2>1, <2>2
<1>7. ASSUME NEW i \in 0..n + 1, NEW j \in 0..n + 1, i < j
      PROVE  count[i] <= count[j] /\ (after[j].do = "deploy" => count[i] < count[j])
  <2>1. i \in 0..n
    BY <1>1, <1>7
  <2>2. CASE j = n + 1
    <3>1. b[i] <= b[n] /\ b[i] \in Nat
      <4>1. CASE i = n
        BY <1>3, <2>1, <4>1
      <4>2. CASE i # n
        <5>1. i < n /\ n \in 0..n
          BY <1>1, <2>1, <4>2
        <5> QED BY <1>3, <2>1, <5>1 DEF SentTypes
      <4> QED BY <4>1, <4>2
    <3> QED BY <1>2, <1>3, <1>4, <2>1, <2>2, <3>1
  <2>3. CASE j # n + 1
    <3>1. j \in 0..n /\ j \in 1..n
      BY <1>1, <1>7, <2>3
    <3> QED BY <1>1, <1>4, <1>7, <2>1, <3>1 DEF SentTypes
  <2> QED BY <2>2, <2>3
<1>8. SentTypes(after, count)
  BY <1>1, <1>4, <1>5, <1>6, <1>7 DEF SentTypes
<1> QED BY <1>1, <1>2, <1>4, <1>8 DEF after

\* What is sent for a task.
LEMMA TaskSent ==
    ASSUME CeremonyInv, SendTask
    PROVE  \E tx \in Transactions :
              /\ pool' = Append(pool, tx)
              /\ \A a : tx = RenounceOf(a) =>
                    run.phase = "finalize" /\ \E k \in Kinds \ {"gate"} : a = checkpoint[k].address
<1>1. /\ run.phase \in {"bootstrap", "finalize"} /\ run.task \in Nat /\ run.task >= 1
      /\ run.task <= Len(Tasks(run.phase)) /\ checkpoint \in [Kinds -> Records]
  BY DEF SendTask, AtTask, CeremonyInv, CeremonyTypes, RunSound
<1> DEFINE tx == IF Task.do = "deploy" THEN [do |-> "deploy", kind |-> Task.kind]
                 ELSE [do |-> Task.do, to |-> checkpoint[Task.kind].address, role |-> Task.role]
<1>2. pool' = Append(pool, tx)
  BY DEF SendTask
<1>3. CASE run.phase = "bootstrap"
  <2>1. Task \in Bootstrapping
    <3>1. run.task \in 1..Len(Tasks("bootstrap"))
      BY <1>1, <1>3, TasksAre
    <3> QED BY <1>3, <3>1, TasksAre, ElementOfSeq DEF Task
  <2>2. Task.kind \in Kinds /\ Task.do # "renounce"
    BY <2>1 DEF Bootstrapping
  <2>3. checkpoint[Task.kind].address \in Nat
    BY <1>1, <2>2 DEF Records
  <2>4. tx \in Transactions
    <3>1. CASE Task.do = "deploy"
      BY <2>2, <3>1 DEF Transactions
    <3>2. CASE Task.do # "deploy" /\ Task \in [do : {"deploy", "configure", "transfer"}, kind : Kinds, role : {"none"}]
      BY <2>3, <3>2 DEF Transactions
    <3>3. CASE Task \in [do : {"grant"}, kind : Kinds, role : CoreRoles]
      BY <2>3, <3>3 DEF Transactions
    <3> QED BY <2>1, <3>1, <3>2, <3>3 DEF Bootstrapping
  <2>5. \A a : tx # RenounceOf(a)
    <3>1. tx.do = Task.do
      OBVIOUS
    <3> QED BY <2>2, <3>1 DEF RenounceOf
  <2> HIDE DEF tx
  <2> QED BY <1>2, <2>4, <2>5
<1>4. CASE run.phase = "finalize"
  <2>1. Task \in Finalizing
    <3>1. run.task \in 1..Len(Tasks("finalize"))
      BY <1>1, <1>4, TasksAre
    <3> QED BY <1>4, <3>1, TasksAre, ElementOfSeq DEF Task
  <2>2. Task.kind \in Kinds \ {"gate"} /\ Task.do = "renounce" /\ Task.role \in CoreRoles
    BY <2>1 DEF Finalizing
  <2>3. checkpoint[Task.kind].address \in Nat
    BY <1>1, <2>2 DEF Records
  <2>4. tx \in Transactions /\ tx.to = checkpoint[Task.kind].address
    BY <2>2, <2>3 DEF Transactions
  <2>5. \A a : tx = RenounceOf(a) => a = checkpoint[Task.kind].address
    BY <2>4 DEF RenounceOf
  <2> HIDE DEF tx
  <2> QED BY <1>2, <1>4, <2>2, <2>4, <2>5
<1> QED BY <1>1, <1>3, <1>4

LEMMA SendSteps == ASSUME CeremonyInv, SendTask PROVE CeremonyInv'
<1>1. PICK tx \in Transactions :
         /\ pool' = Append(pool, tx)
         /\ \A a : tx = RenounceOf(a) =>
               run.phase = "finalize" /\ \E k \in Kinds \ {"gate"} : a = checkpoint[k].address
  BY TaskSent
<1>2. /\ UNCHANGED <<devnet, forks, checkpoint, stops, manifest>>
      /\ run' = [run EXCEPT !.at = "receipt", !.nonce = Nonce] /\ run \in RunTypes
  BY DEF SendTask, CeremonyInv, CeremonyTypes, RunTypes
<1>3. /\ run'.at = "receipt" /\ run'.phase = run.phase /\ run'.task = run.task /\ run'.block = run.block
      /\ run' \in RunTypes
  BY <1>2, MinedNonce DEF RunTypes
<1>4. /\ pool \in Seq(Transactions) /\ pool' \in Seq(Transactions) /\ Len(pool') = Len(pool) + 1
      /\ Len(pool) \in Nat /\ pool'[Len(pool) + 1] = tx /\ \A i \in 1..Len(pool) : pool'[i] = pool[i]
  BY <1>1, AppendProperties DEF CeremonyInv, CeremonyTypes
<1>5. CeremonyTypes'
  BY <1>2, <1>3, <1>4 DEF CeremonyInv, CeremonyTypes, RunTypes
<1>6. RunSound'
  <2>1. /\ run.at = "task" /\ run.task >= 1 /\ run.task <= Len(Tasks(run.phase)) /\ run.task \in Nat
        /\ run.phase # "none"
    BY <1>2 DEF SendTask, AtTask, CeremonyInv, RunSound, RunTypes
  <2>2. Len(Tasks("bootstrap")) \in Nat /\ Len(Tasks("finalize")) \in Nat
    BY TasksAre
  <2>3. run.task \in 1..Len(Tasks(run.phase))
    BY <1>2, <2>1, <2>2 DEF RunTypes
  <2>4. (run.task \in 1..Len(Tasks(run.phase)))'
    BY <1>3, <2>3 DEF Tasks
  <2> QED BY <1>3, <2>1, <2>4 DEF RunSound
<1>7. BlocksLinked' /\ ReleaseStands'
  BY <1>2, <1>3 DEF CeremonyInv, BlocksLinked, ReleaseStands
<1>8. \E history, born, at : Explained(history, born, at)'
  <2>1. PICK s, b, at : Explained(s, b, at)
    BY DEF CeremonyInv
  <2> DEFINE n == Len(s)  m == at[Len(devnet)]
  <2>2. /\ s \in Seq(Transactions) /\ n \in Nat /\ m \in 0..n /\ SentTypes(s, b) /\ SentSafely(s, b)
        /\ Len(pool) = n - m /\ \A i \in 1..Len(pool) : pool[i] = s[m + i]
        /\ \A e \in 1..Len(devnet) : at[e] \in 0..n
    BY <2>1, ExplainedAt
  <2>0. PICK after : after = Append(s, tx)
    OBVIOUS
  <2>3. PICK count : /\ SentTypes(after, count) /\ Len(after) = n + 1 /\ after[n + 1] = tx
                     /\ \A i \in 1..n : after[i] = s[i]
                     /\ \A i \in 0..n : count[i] = b[i]
    BY <2>0, <2>2, SentOne
  <2>4. \A a : \A j \in 1..n : Granted(after, count, a, j) <=> Granted(s, b, a, j)
    BY <2>2, <2>3, GrantedAlike
  <2>5. SentSafely(after, count)
    <3> SUFFICES ASSUME NEW i \in 1..n + 1, NEW a \in Nat, after[i] = RenounceOf(a)
                 PROVE  \E j \in 1..(i - 1) : Granted(after, count, a, j)
      BY <2>3 DEF SentSafely
    <3>1. CASE i = n + 1
      <4>1. run.phase = "finalize" /\ \E k \in Kinds \ {"gate"} : a = checkpoint[k].address
        BY <1>1, <2>3, <3>1
      <4>2. PICK j \in 1..n : Granted(s, b, a, j)
        BY <2>1, <4>1 DEF Explained, Handed
      <4>3. i - 1 = n
        BY <2>2, <3>1
      <4> QED BY <2>4, <4>2, <4>3
    <3>2. CASE i # n + 1
      <4>1. i \in 1..n /\ \A j \in 1..(i - 1) : j \in 1..n
        BY <2>2, <3>2
      <4>2. s[i] = RenounceOf(a)
        BY <2>3, <4>1
      <4> QED BY <2>2, <2>4, <4>1, <4>2 DEF SentSafely
    <3> QED BY <3>1, <3>2
  <2>6. Aligned(after, at)'
    <3>1. at \in [1..Len(devnet) -> 0..n + 1]
      BY <2>1, <2>2 DEF Explained, Aligned
    <3>2. Len(pool') = (n + 1) - m
      BY <1>4, <2>2
    <3>3. ASSUME NEW i \in 1..Len(pool') PROVE pool'[i] = after[m + i]
      <4>1. CASE i = Len(pool) + 1
        <5>1. m + i = n + 1
          BY <1>4, <2>2, <4>1
        <5> QED BY <1>4, <2>3, <4>1, <5>1
      <4>2. CASE i # Len(pool) + 1
        <5>1. i \in 1..Len(pool) /\ m + i \in 1..n
          BY <1>4, <2>2, <4>2
        <5> QED BY <1>4, <2>2, <2>3, <5>1
      <4> QED BY <4>1, <4>2
    <3>4. ASSUME NEW e \in 2..Len(devnet)
          PROVE  IF devnet[e].nonce = 0 THEN at[e] = at[e - 1]
                 ELSE at[e] = at[e - 1] + 1 /\ devnet[e].tx = after[at[e]]
      <4>1. IF devnet[e].nonce = 0 THEN at[e] = at[e - 1]
            ELSE at[e] = at[e - 1] + 1 /\ devnet[e].tx = s[at[e]]
        BY <2>1 DEF Explained, Aligned
      <4>2. e \in 1..Len(devnet) /\ e - 1 \in 1..Len(devnet)
        BY BlockOf
      <4>3. at[e] = at[e - 1] + 1 => at[e] \in 1..n
        BY <2>2, <4>2
      <4> QED BY <2>3, <4>1, <4>3
    <3>5. at[1] = 0
      BY <2>1 DEF Explained, Aligned
    <3> QED BY <1>2, <2>3, <3>1, <3>2, <3>3, <3>4, <3>5 DEF Aligned
  <2>7. \A e \in 1..Len(devnet) : BlockExplained(after, count, devnet[e].contracts, at[e])
    <3> SUFFICES ASSUME NEW e \in 1..Len(devnet) PROVE BlockExplained(after, count, devnet[e].contracts, at[e])
      OBVIOUS
    <3>1. at[e] \in Nat /\ (\A i \in 1..at[e] : i \in 1..n) /\ (\A i \in 0..at[e] : i \in 0..n)
      BY <2>2
    <3>2. (\A i \in 1..at[e] : after[i] = s[i]) /\ (\A i \in 0..at[e] : count[i] = b[i])
      BY <2>3, <3>1
    <3>3. BlockExplained(s, b, devnet[e].contracts, at[e])
      BY <2>1 DEF Explained
    <3> QED BY <3>1, <3>2, <3>3, ExplainedAlike
  <2>8. Handed(after, count)'
    <3> SUFFICES ASSUME run.phase = "finalize", NEW k \in Kinds \ {"gate"}
                 PROVE  \E j \in 1..n + 1 : Granted(after, count, checkpoint[k].address, j)
      BY <1>2, <1>3, <2>3 DEF Handed
    <3>1. PICK j \in 1..n : Granted(s, b, checkpoint[k].address, j)
      BY <2>1 DEF Explained, Handed
    <3> QED BY <2>2, <2>4, <3>1
  <2>9. Explained(after, count, at)'
    BY <1>2, <2>3, <2>5, <2>6, <2>7, <2>8 DEF Explained
  <2> QED BY <2>9
<1> QED BY <1>5, <1>6, <1>7, <1>8 DEF CeremonyInv

LEMMA RunFields ==
    ASSUME CeremonyInv
    PROVE  /\ run \in RunTypes /\ RunSound /\ NotDeployed \in Records /\ NoRun \in RunTypes
           /\ checkpoint \in [Kinds -> Records] /\ manifest \in Records
           /\ stops \in 0..MaxStops /\ MaxStops \in Nat
           /\ Len(Tasks("bootstrap")) \in Nat /\ Len(Tasks("finalize")) \in Nat
<1>1. NotDeployed \in Records
  BY DEF NotDeployed, Records
<1>2. NoRun \in RunTypes
  BY <1>1 DEF NoRun, RunTypes
<1> QED BY <1>1, <1>2, TasksAre, CeremonyAssumption DEF CeremonyInv, CeremonyTypes, RunTypes

LEMMA TaskDone ==
    ASSUME NEW r \in RunTypes
    PROVE  LET s == [r EXCEPT !.at = "task", !.task = @ + 1] IN
           s \in RunTypes /\ s.at = "task" /\ s.phase = r.phase /\ s.task = r.task + 1
<1> DEFINE n == r.task + 1  s == [r EXCEPT !.at = "task", !.task = n]
<1>1. n \in Nat
  BY DEF RunTypes
<1> HIDE DEF n
<1>2. s \in RunTypes /\ s.at = "task" /\ s.phase = r.phase /\ s.task = n
  BY <1>1 DEF RunTypes
<1> QED BY <1>2 DEF n

LEMMA StaysHanded ==
    ASSUME UNCHANGED checkpoint, run'.phase = "finalize" => run.phase = "finalize"
    PROVE  \A history, born, at : Explained(history, born, at) => Handed(history, born)'
BY DEF Explained, Handed

LEMMA StartSteps == ASSUME CeremonyInv, StartBootstrap \/ StartFinalize PROVE CeremonyInv'
<1>1. UNCHANGED <<devnet, forks, pool, checkpoint, stops, manifest>>
  BY DEF StartBootstrap, StartFinalize
<1>2. /\ run'.at = "task" /\ run'.task = 1 /\ run' \in RunTypes
      /\ run'.phase = "bootstrap" \/ (run'.phase = "finalize" /\ StartFinalize)
  <2>1. \A p \in {"bootstrap", "finalize"} :
           LET r == [NoRun EXCEPT !.phase = p, !.at = "task", !.task = 1] IN
           r \in RunTypes /\ r.at = "task" /\ r.task = 1 /\ r.phase = p
    BY RunFields DEF NoRun, RunTypes
  <2>2. CASE StartBootstrap
    BY <2>1, <2>2 DEF StartBootstrap
  <2>3. CASE StartFinalize
    BY <2>1, <2>3 DEF StartFinalize
  <2> QED BY <2>2, <2>3
<1>3. RunSound' /\ ReleaseStands'
  BY <1>2 DEF RunSound, ReleaseStands
<1>4. ASSUME NEW history, NEW born, NEW at, Explained(history, born, at) PROVE Handed(history, born)'
  <2> SUFFICES ASSUME StartFinalize, NEW k \in Kinds \ {"gate"}
               PROVE  \E j \in 1..Len(history) : Granted(history, born, checkpoint[k].address, j)
    BY <1>1, <1>2 DEF Handed
  <2> DEFINE a == checkpoint[k].address  m == at[Len(devnet)]
  <2>1. a \in 1..Len(Latest)
    <3>1. a \in DOMAIN Latest
      BY DEF StartFinalize, HandoverVerified, StateVerified
    <3> QED BY <3>1, BlockOf
  <2>2. "governance" \in Latest[a].holders["default"]
    <3>1. "default" \in CoreRoles /\ Final["default"] = "governance"
      BY DEF CoreRoles, Final
    <3>2. Final["default"] \in Latest[a].holders["default"]
      BY <3>1 DEF StartFinalize, HandoverVerified, StateVerified, FinalRoles
    <3> QED BY <3>1, <3>2
  <2>3. BlockExplained(history, born, Latest, m) /\ m \in 0..Len(history) /\ Len(history) \in Nat
    BY <1>4, ExplainedAt
  <2> HIDE DEF a, m
  <2>4. PICK j \in 1..m : Granted(history, born, a, j)
    BY <2>1, <2>2, <2>3 DEF BlockExplained
  <2>5. j \in 1..Len(history)
    BY <2>3
  <2> QED BY <2>4, <2>5 DEF a
<1> QED BY <1>1, <1>2, <1>3, <1>4, RunFields, ScriptGoes

LEMMA SkipSteps == ASSUME CeremonyInv, Skip PROVE CeremonyInv'
<1>1. UNCHANGED <<devnet, forks, pool, checkpoint, stops, manifest>> /\ run.at = "task"
  BY DEF Skip, AtTask
<1>2. /\ run'.at = "task" /\ run'.task = run.task + 1 /\ run' \in RunTypes /\ run'.phase = run.phase
  BY <1>1, RunFields DEF Skip, RunTypes
<1>3. RunSound' /\ ReleaseStands'
  BY <1>1, <1>2, RunFields DEF RunSound, ReleaseStands, RunTypes
<1> QED BY <1>1, <1>2, <1>3, RunFields, ScriptGoes, StaysHanded

\* Only a bootstrap deploys.
LEMMA DeploysEarly ==
    ASSUME CeremonyInv, run.at = "receipt", Task.do = "deploy"
    PROVE  run.phase = "bootstrap"
<1>1. run.phase \in {"bootstrap", "finalize"} /\ run.task \in 1..Len(Tasks(run.phase))
  BY RunFields DEF RunSound, RunTypes
<1>2. CASE run.phase = "finalize"
  <2>1. Task \in Finalizing
    BY <1>1, <1>2, TasksAre, ElementOfSeq DEF Task
  <2> QED BY <2>1 DEF Finalizing
<1> QED BY <1>1, <1>2

LEMMA ReceiptSteps == ASSUME CeremonyInv, Receipt PROVE CeremonyInv'
<1>1. UNCHANGED <<devnet, forks, pool, checkpoint, stops, manifest>> /\ run.at = "receipt"
  BY DEF Receipt
<1>2. /\ run.task \in 1..Len(Tasks(run.phase)) /\ run.phase # "none" /\ run.task \in Nat
      /\ run \in RunTypes
  BY <1>1, RunFields DEF RunSound, RunTypes
<1>3. PICK n \in DOMAIN devnet :
         IF Task.do = "deploy"
         THEN run' = [run EXCEPT !.at = "record",
                         !.block = [MinedAt(n) EXCEPT !.address = Len(devnet[n].contracts)]]
         ELSE run' = [run EXCEPT !.at = "task", !.task = @ + 1]
  BY DEF Receipt
<1>4. CASE Task.do = "deploy"
  <2> DEFINE r == [MinedAt(n) EXCEPT !.address = Len(devnet[n].contracts)]
  <2>1. r \in Records
    BY BlockOf DEF MinedAt, Records
  <2> HIDE DEF r
  <2>2. /\ run' \in RunTypes /\ run'.at = "record" /\ run'.phase = "bootstrap" /\ run'.task = run.task
        /\ run.phase = "bootstrap"
    BY <1>1, <1>2, <1>3, <1>4, <2>1, DeploysEarly DEF r, RunTypes
  <2>3. (run.task \in 1..Len(Tasks(run.phase)))'
    BY <1>2, <2>2 DEF Tasks
  <2>4. RunSound' /\ ReleaseStands'
    BY <2>2, <2>3 DEF RunSound, ReleaseStands
  <2> QED BY <1>1, <2>2, <2>4, RunFields, ScriptGoes, StaysHanded
<1>5. CASE Task.do # "deploy"
  <2>1. run' \in RunTypes /\ run'.at = "task" /\ run'.phase = run.phase /\ run'.task = run.task + 1
    <3>1. run' = [run EXCEPT !.at = "task", !.task = @ + 1]
      BY <1>3, <1>5
    <3> QED BY <1>2, <3>1, TaskDone
  <2>2. RunSound' /\ ReleaseStands'
    BY <1>2, <2>1 DEF RunSound, ReleaseStands
  <2> QED BY <1>1, <2>1, <2>2, RunFields, ScriptGoes, StaysHanded
<1> QED BY <1>4, <1>5

LEMMA PersistSteps == ASSUME CeremonyInv, Persist PROVE CeremonyInv'
<1>1. /\ UNCHANGED <<devnet, forks, pool, stops, manifest>> /\ run.at = "record"
      /\ checkpoint' = [checkpoint EXCEPT ![Task.kind] = run.block]
  BY DEF Persist
<1>2. run.phase = "bootstrap"
  BY <1>1, RunFields DEF RunSound, RunTypes
<1>3. checkpoint' \in [Kinds -> Records]
  BY <1>1, RunFields DEF RunTypes
<1>4. run' \in RunTypes /\ run'.at = "task" /\ run'.task = run.task + 1 /\ run'.phase = "bootstrap"
  <2>1. run' = [run EXCEPT !.at = "task", !.task = @ + 1, !.block = NotDeployed]
    BY DEF Persist
  <2>2. run \in RunTypes /\ NotDeployed \in Records
    BY RunFields
  <2> DEFINE s == [run EXCEPT !.at = "task", !.task = @ + 1]
  <2>3. s \in RunTypes /\ s.at = "task" /\ s.phase = "bootstrap" /\ s.task = run.task + 1
    BY <1>2, <2>2, TaskDone
  <2>4. run' = [s EXCEPT !.block = NotDeployed]
    BY <2>1, <2>2 DEF RunTypes
  <2> HIDE DEF s
  <2> QED BY <2>2, <2>3, <2>4 DEF RunTypes
<1>5. RunSound' /\ ReleaseStands'
  BY <1>4, RunFields DEF RunSound, ReleaseStands, RunTypes
<1>6. \A history, born, at : Explained(history, born, at) => Handed(history, born)'
  BY <1>4 DEF Handed
<1> QED BY <1>1, <1>3, <1>4, <1>5, <1>6, RunFields, ScriptGoes

LEMMA EndSteps == ASSUME CeremonyInv, HandOff \/ Publish \/ Stop PROVE CeremonyInv'
<1>1. /\ UNCHANGED <<devnet, forks, pool, checkpoint>> /\ run' = NoRun
      /\ manifest' \in {manifest, run.block} /\ stops' \in 0..MaxStops
  BY RunFields DEF HandOff, Publish, Stop
<1>2. run'.at = "idle" /\ run'.phase = "none" /\ run' \in RunTypes
  BY <1>1, RunFields DEF NoRun
<1>3. manifest' \in Records
  BY <1>1, RunFields DEF RunTypes
<1>4. RunSound' /\ ReleaseStands'
  BY <1>2 DEF RunSound, ReleaseStands
<1> QED BY <1>1, <1>2, <1>3, <1>4, RunFields, ScriptGoes, StaysHanded

LEMMA CaptureSteps == ASSUME CeremonyInv, CaptureRelease PROVE CeremonyInv'
<1>1. UNCHANGED <<devnet, forks, pool, checkpoint, stops, manifest>> /\ run.phase = "finalize"
  BY DEF CaptureRelease
<1> DEFINE r == MinedAt(Len(devnet))
<1>2. r \in Records /\ r.number = Len(devnet) /\ r.fork <= forks /\ r.fork \in Nat
  <2>1. Len(devnet) \in 1..Len(devnet)
    BY BlockOf
  <2>2. devnet[Len(devnet)].fork \in Nat /\ devnet[Len(devnet)].fork <= forks
    BY <2>1, BlockOf DEF CeremonyInv, BlocksLinked
  <2> QED BY <2>1, <2>2, BlockOf DEF MinedAt, Records
<1> HIDE DEF r
<1>3. run' \in RunTypes /\ run'.at = "verify" /\ run'.phase = "finalize" /\ run'.block = r
  BY <1>1, <1>2, RunFields DEF CaptureRelease, RunTypes, r
<1>4. RunSound' /\ ReleaseStands'
  BY <1>1, <1>2, <1>3, BlockOf DEF RunSound, ReleaseStands
<1> QED BY <1>1, <1>3, <1>4, RunFields, ScriptGoes, StaysHanded

\* The contracts a release names were deployed before its block.
LEMMA NamedEarlier ==
    ASSUME CeremonyInv, NEW n \in 1..Len(devnet), NEW k \in Kinds, RecordTrue(k),
           checkpoint[k].address \in DOMAIN devnet[n].contracts
    PROVE  checkpoint[k].number \in 1..n
<1> DEFINE r == checkpoint[k]  C == devnet[n].contracts
<1>1. r \in Records /\ Len(C) \in Nat /\ r.address \in 1..Len(C)
  BY BlockOf, RunFields
<1>2. r # NotDeployed
  BY <1>1 DEF NotDeployed
<1>3. /\ r.number \in 1..Len(devnet) /\ devnet[r.number].tx = [do |-> "deploy", kind |-> k]
      /\ Len(devnet[r.number].contracts) = r.address
  BY <1>2, BlockOf DEF RecordTrue, StillMined
<1>4. devnet[r.number].tx.do = "deploy"
  BY <1>3
<1>5. \A m \in 1..(r.number - 1) : Len(devnet[m].contracts) < Len(devnet[r.number].contracts)
  BY <1>3, <1>4 DEF CeremonyInv, BlocksLinked
<1>6. ~(n < r.number)
  <2> SUFFICES ASSUME n < r.number PROVE FALSE
    OBVIOUS
  <2>1. n \in 1..(r.number - 1)
    BY <1>3, BlockOf
  <2>2. Len(C) < r.address
    BY <1>3, <1>5, <2>1
  <2> QED BY <1>1, <2>2
<1> QED BY <1>3, <1>6, BlockOf

LEMMA VerifySteps == ASSUME CeremonyInv, VerifyRelease PROVE CeremonyInv'
<1>1. UNCHANGED <<devnet, forks, pool, checkpoint, stops, manifest>> /\ run.at = "verify"
  BY DEF VerifyRelease
<1>2. run' \in RunTypes /\ run'.at = "publish" /\ run'.phase = run.phase /\ run'.block = run.block
  BY RunFields DEF VerifyRelease, RunTypes
<1>3. RunSound'
  BY <1>1, <1>2, RunFields DEF RunSound
<1>4. ReleaseStands'
  <2> DEFINE n == run.block.number
  <2>1. n \in 1..Len(devnet) /\ StateVerified(devnet[n].contracts, FALSE) /\ \A k \in Kinds : RecordTrue(k)
    BY BlockOf DEF VerifyRelease, StillMined
  <2>2. \A k \in Kinds : checkpoint[k].number \in 1..n
    BY <2>1, NamedEarlier DEF StateVerified
  <2>3. \A k \in Kinds : RecordTrue(k)'
    BY <1>1, <2>1 DEF RecordTrue, StillMined
  <2>4. StateVerified(devnet[run.block.number].contracts, FALSE)'
    BY <1>1, <1>2, <2>1 DEF StateVerified, FinalRoles, OnlyFinalRoles, ConfiguredAndAccepted
  <2> QED BY <1>1, <1>2, <2>2, <2>3, <2>4 DEF ReleaseStands
<1> QED BY <1>1, <1>2, <1>3, <1>4, RunFields, ScriptGoes, StaysHanded

LEMMA CeremonyStep == CeremonyInv /\ [CeremonyNext]_ceremonyVars => CeremonyInv'
<1> SUFFICES ASSUME CeremonyInv, [CeremonyNext]_ceremonyVars PROVE CeremonyInv'
  OBVIOUS
<1>1. CASE UNCHANGED ceremonyVars
  <2>1. UNCHANGED <<devnet, forks, pool, checkpoint, run, stops, manifest>>
    BY <1>1 DEF ceremonyVars
  <2>2. RunSound' /\ ReleaseStands'
    BY <2>1 DEF CeremonyInv, RunSound, ReleaseStands, StillMined, RecordTrue, StateVerified, FinalRoles,
         OnlyFinalRoles, ConfiguredAndAccepted
  <2> QED BY <2>1, <2>2, RunFields, ScriptGoes, StaysHanded
<1>2. CASE CeremonyNext
  <2>1. CASE Mined
    BY <2>1, TransactionMined
  <2>2. CASE Replaced
    BY <2>2, BlockReplaced
  <2>3. CASE \E a \in DOMAIN Latest : AcceptOwnership(a) \/ \E r \in CoreRoles : RevokeDeployer(a, r)
    BY <2>3, GovernanceSteps
  <2>4. CASE StartBootstrap \/ StartFinalize
    BY <2>4, StartSteps
  <2>5. CASE Skip
    BY <2>5, SkipSteps
  <2>6. CASE SendTask
    BY <2>6, SendSteps
  <2>7. CASE Receipt
    BY <2>7, ReceiptSteps
  <2>8. CASE Persist
    BY <2>8, PersistSteps
  <2>9. CASE HandOff \/ Publish \/ Stop
    BY <2>9, EndSteps
  <2>10. CASE CaptureRelease
    BY <2>10, CaptureSteps
  <2>11. CASE VerifyRelease
    BY <2>11, VerifySteps
  <2> QED BY <1>2, <2>1, <2>2, <2>3, <2>4, <2>5, <2>6, <2>7, <2>8, <2>9, <2>10, <2>11 DEF CeremonyNext
<1> QED BY <1>1, <1>2

LEMMA CeremonyProves == CeremonyInv => NeverUngoverned
<1> SUFFICES ASSUME CeremonyInv, NEW a \in DOMAIN Latest, Latest[a].kind # "gate"
             PROVE  Latest[a].holders["default"] \cap {"deployer", "governance"} # {}
  BY DEF NeverUngoverned
<1>1. a \in 1..Len(Latest)
  BY BlockOf
<1>2. PICK history, born, at : Explained(history, born, at)
  BY DEF CeremonyInv
<1>3. Governed(Latest[a])
  BY <1>1, <1>2, ExplainedAt DEF BlockExplained
<1> QED BY <1>3 DEF Governed

\* What a published manifest says holds of every block from the one it names.
LEMMA ManifestTruthful ==
    ASSUME CeremonyInv, [CeremonyNext]_ceremonyVars
    PROVE  PublishedTrue
<1> SUFFICES ASSUME manifest' # manifest PROVE PublishedTrue
  BY DEF PublishedTrue
<1>1. Publish
  BY DEF CeremonyNext, ceremonyVars, Mined, Replaced, AcceptOwnership, RevokeDeployer, Governance, StartBootstrap,
       StartFinalize, Skip, SendTask, Receipt, Persist, HandOff, CaptureRelease, VerifyRelease, Stop
<1> DEFINE v == run.block.number
<1>2. run.at = "publish" /\ StillMined(run.block) /\ manifest' = run.block
  BY <1>1 DEF Publish, PublicationBoundary
<1>3. v \in 1..Len(devnet)
  BY <1>2, BlockOf DEF StillMined
<1>4. /\ \A k \in Kinds : RecordTrue(k) /\ checkpoint[k].number \in 1..v
      /\ StateVerified(devnet[v].contracts, FALSE)
  BY <1>2 DEF CeremonyInv, ReleaseStands
<1>5. ASSUME NEW n \in v..Len(devnet), NEW k \in Kinds
      PROVE  LET c == devnet[n].contracts[checkpoint[k].address] IN
             /\ c.kind = k /\ c.configured
             /\ \A r \in CoreRoles : "deployer" \notin c.holders[r]
             /\ k = "gate" => c.owner = "governance"
  <2> DEFINE r == checkpoint[k]  a == r.address  A == devnet[r.number].contracts
             V == devnet[v].contracts  B == devnet[n].contracts
  <2>1. /\ r \in Records /\ r.number \in 1..v /\ r.number \in 1..Len(devnet) /\ n \in 1..Len(devnet)
        /\ v <= n /\ r.number <= v /\ a \in 1..Len(V) /\ V \in Seq(CoreContract) /\ A \in Seq(CoreContract)
    <3>1. a \in DOMAIN V
      BY <1>4 DEF StateVerified
    <3>2. r \in Records /\ r.number \in 1..v
      BY <1>4, RunFields
    <3>3. Len(devnet) \in Nat /\ v \in Nat /\ n \in Int /\ v <= n /\ n <= Len(devnet) /\ r.number \in Nat
      BY <1>3, <3>2, BlockOf
    <3>4. r.number \in 1..Len(devnet) /\ n \in 1..Len(devnet) /\ r.number <= v
      BY <1>3, <3>2, <3>3
    <3>5. V \in Seq(CoreContract) /\ A \in Seq(CoreContract)
      BY <1>3, <3>4, BlockOf
    <3> QED BY <3>1, <3>2, <3>3, <3>4, <3>5
  <2>2. devnet[r.number].tx = [do |-> "deploy", kind |-> k] /\ Len(A) = a
    <3>1. r # NotDeployed
      BY <2>1 DEF NotDeployed
    <3> QED BY <1>4, <3>1 DEF RecordTrue
  <2>3. Len(A) >= 1 /\ A[Len(A)].kind = k
    BY <2>1, <2>2 DEF CeremonyInv, BlocksLinked
  <2>4. Later(A, V) /\ Later(V, B)
    BY <1>3, <2>1 DEF CeremonyInv, BlocksLinked
  <2>5. V[a].kind = k
    <3>1. a \in 1..Len(A)
      BY <2>1, <2>2, <2>3
    <3> QED BY <2>2, <2>3, <2>4, <3>1 DEF Later
  <2>6. /\ V[a].configured /\ (k = "gate" => V[a].owner = "governance")
    BY <1>4 DEF StateVerified, ConfiguredAndAccepted
  <2>7. \A e \in CoreRoles : "deployer" \notin V[a].holders[e]
    <3>1. CASE k = "gate"
      <4>1. Governed(V[a])
        <5>1. PICK history, born, at : Explained(history, born, at)
          BY DEF CeremonyInv
        <5> QED BY <1>3, <2>1, <5>1 DEF Explained, BlockExplained
      <4> QED BY <2>5, <3>1, <4>1 DEF Governed
    <3>2. CASE k # "gate"
      <4>1. \A e \in CoreRoles : V[a].holders[e] \subseteq {Final[e]}
        BY <1>4, <3>2 DEF StateVerified, OnlyFinalRoles
      <4>2. \A e \in CoreRoles : Final[e] # "deployer"
        BY DEF CoreRoles, Final
      <4> QED BY <4>1, <4>2
    <3> QED BY <3>1, <3>2
  <2>8. /\ B[a].kind = k /\ B[a].configured /\ (k = "gate" => B[a].owner = "governance")
        /\ \A e \in CoreRoles : "deployer" \notin B[a].holders[e]
    BY <2>1, <2>4, <2>5, <2>6, <2>7 DEF Later
  <2> QED BY <2>8
<1> QED BY <1>2, <1>4, <1>5 DEF PublishedTrue

----------------------------------------------------------------------------
(***************************************************************************)
(* The provisioning of tokens (scripts/provision-testnet-tokens.mjs).      *)
(* What deploys a token has the nonce the checkpoint file has for it, and  *)
(* a nonce names one token.                                                *)
(***************************************************************************)
TokenRow == [status : Statuses, nonce : Nat, fork : Nat]
TokenBlock == [what : Tokens \cup {Elsewhere}, fork : Nat]
RunAts == {"ended", "token", "code", "nonce", "send", "sent", "receipt", "verify", "manifest"}

ProvisionTypes ==
    /\ testnet \in Seq(TokenBlock) /\ Len(testnet) <= MaxNonce
    /\ DOMAIN mempool \subseteq 1..MaxNonce
    /\ \A n \in DOMAIN mempool : mempool[n] \in Tokens \cup {Elsewhere}
    /\ replaced \in 0..MaxReplaced /\ existing \subseteq Tokens
    /\ file \in [Tokens -> TokenRow] /\ published \in [Tokens -> TokenRow]
    /\ locked \in BOOLEAN
    /\ ceremony \in [at : RunAts, token : 1..2, tokens : [Tokens -> TokenRow]]

\* The file names the only nonce a token can have been deployed with, and no two
\* tokens by one; a run goes by what is in the file; a manifest is the file, and
\* no run comes after it.
ProvisionInv ==
    /\ ProvisionTypes
    /\ \A s \in Tokens : file[s].status = "absent" => file[s] = Absent
    /\ \A s \in Tokens : \A n \in Deployments(s) : n = file[s].nonce
    /\ \A s, t \in Tokens : s # t /\ file[s].nonce = file[t].nonce => file[s].nonce = 0
    /\ ceremony.at # "ended" => ceremony.tokens = file
    /\ published # Ended.tokens => ceremony.at = "ended" /\ published = file

LEMMA TokensAre ==
    /\ Tokens = {"USDC", "USDT"} /\ Elsewhere \notin Tokens
    /\ Len(Symbols) = 2 /\ \A k \in 1..2 : Symbols[k] \in Tokens
<1>1. Symbols = <<"USDC", "USDT">> /\ DOMAIN Symbols = 1..2 /\ Len(Symbols) = 2 /\ Symbols[1] = "USDC" /\ Symbols[2] = "USDT"
  BY DEF Symbols
<1> QED BY <1>1 DEF Tokens, Elsewhere

LEMMA AbsentRow ==
    /\ Absent \in TokenRow /\ Absent.nonce = 0 /\ Absent.status = "absent"
    /\ \A status \in Statuses, nonce, fork \in Nat :
          Record(status, nonce, fork) \in TokenRow /\ Record(status, nonce, fork).nonce = nonce
          /\ Record(status, nonce, fork).status = status
    /\ Ended.at = "ended" /\ Ended.token = 1 /\ Ended.tokens = [s \in Tokens |-> Absent]
BY DEF Absent, Record, TokenRow, Statuses, Ended

LEMMA ProvisionStart == ProvisionInit => ProvisionInv
<1> SUFFICES ASSUME ProvisionInit PROVE ProvisionInv
  OBVIOUS
<1>1. /\ testnet \in Seq(TokenBlock) /\ Len(testnet) = 0 /\ DOMAIN testnet = {} /\ DOMAIN mempool = {}
      /\ replaced = 0 /\ locked = FALSE /\ ceremony = Ended
      /\ file = Ended.tokens /\ published = Ended.tokens
  BY AbsentRow DEF ProvisionInit
<1>2. existing \subseteq Tokens
  BY TokensAre DEF ProvisionInit
<1>3. /\ Ended \in [at : RunAts, token : 1..2, tokens : [Tokens -> TokenRow]]
      /\ Ended.tokens \in [Tokens -> TokenRow] /\ \A s \in Tokens : Ended.tokens[s].nonce = 0
  <2>1. Ended.tokens \in [Tokens -> TokenRow] /\ \A s \in Tokens : Ended.tokens[s].nonce = 0
    BY AbsentRow
  <2>2. Ended = [at |-> "ended", token |-> 1, tokens |-> Ended.tokens]
    BY DEF Ended
  <2> QED BY <2>1, <2>2 DEF RunAts
<1>4. ProvisionTypes
  <2>1. MaxNonce \in Nat /\ MaxReplaced \in Nat
    BY ProvisionAssumption
  <2>2. 0 <= MaxNonce /\ 0 \in 0..MaxReplaced
    BY <2>1
  <2> QED BY <1>1, <1>2, <1>3, <2>2 DEF ProvisionTypes
<1>5. \A s \in Tokens : Deployments(s) = {}
  BY <1>1 DEF Deployments
<1> QED BY <1>1, <1>3, <1>4, <1>5, AbsentRow DEF ProvisionInv

\* There is a next nonce: the first after the chain's that nothing waits with.
LEMMA PendingIs ==
    ASSUME ProvisionTypes
    PROVE  /\ PendingNonce \in 1..(MaxNonce + 1)
           /\ PendingNonce > Len(testnet) /\ PendingNonce \notin DOMAIN mempool
<1> DEFINE Free(n) == n > Len(testnet) /\ n \notin DOMAIN mempool
           T == {n \in 1..(MaxNonce + 1) : Free(n)}
           R == OpToRel(<, Nat)
<1>1. Len(testnet) \in Nat /\ Len(testnet) <= MaxNonce /\ DOMAIN mempool \subseteq 1..MaxNonce
      /\ MaxNonce \in Nat
  BY ProvisionAssumption DEF ProvisionTypes
<1>2. T \subseteq Nat /\ T # {}
  <2>1. MaxNonce + 1 \in T
    BY <1>1
  <2> QED BY <2>1
<1>3. PICK n \in T : \A m \in T : ~(m < n)
  <2>1. IsWellFoundedOn(R, Nat)
    BY NatLessThanWellFounded
  <2> HIDE DEF T, R
  <2>2. \E n \in T : \A m \in T : ~(<<m, n>> \in R)
    BY <1>2, <2>1, WFMin
  <2>3. \A m, n \in Nat : m < n => <<m, n>> \in R
    BY DEF R, OpToRel
  <2> QED BY <1>2, <2>2, <2>3
<1>4. \A m \in (Len(testnet) + 1)..(n - 1) : m \in DOMAIN mempool
  <2>1. n \in 1..(MaxNonce + 1)
    BY <1>3
  <2> SUFFICES ASSUME NEW m \in (Len(testnet) + 1)..(n - 1), m \notin DOMAIN mempool PROVE FALSE
    OBVIOUS
  <2>2. m \in 1..(MaxNonce + 1) /\ m > Len(testnet) /\ m < n
    BY <1>1, <2>1
  <2> QED BY <1>3, <2>2
<1>5. \E k \in 1..MaxNonce + 1 :
          /\ k > Len(testnet) /\ k \notin DOMAIN mempool
          /\ \A m \in Len(testnet) + 1..k - 1 : m \in DOMAIN mempool
  BY <1>3, <1>4
<1> QED BY <1>5 DEF PendingNonce

\* A transaction of one kind more, or the run alone.
LEMMA RunMoves ==
    ASSUME ProvisionInv, ceremony' \in [at : RunAts, token : 1..2, tokens : [Tokens -> TokenRow]],
           ceremony'.at # "ended" => ceremony.at # "ended" /\ ceremony'.tokens = ceremony.tokens,
           locked' \in BOOLEAN,
           UNCHANGED <<testnet, mempool, replaced, existing, file, published>>
    PROVE  ProvisionInv'
<1>1. \A s \in Tokens : Deployments(s)' = Deployments(s)
  BY DEF Deployments
<1>2. ProvisionTypes'
  BY DEF ProvisionInv, ProvisionTypes
<1> QED BY <1>1, <1>2 DEF ProvisionInv, Ended

\* Something that is no token, or a token deployed already, is sent or mined.
LEMMA ChainMoves ==
    ASSUME ProvisionInv, testnet' \in Seq(TokenBlock), Len(testnet') <= MaxNonce,
           DOMAIN mempool' \subseteq 1..MaxNonce,
           \A n \in DOMAIN mempool' : mempool'[n] \in Tokens \cup {Elsewhere},
           replaced' \in 0..MaxReplaced,
           \A s \in Tokens : Deployments(s)' \subseteq Deployments(s),
           UNCHANGED <<existing, file, locked, ceremony, published>>
    PROVE  ProvisionInv'
<1>1. ProvisionTypes'
  BY DEF ProvisionInv, ProvisionTypes
<1> QED BY <1>1 DEF ProvisionInv, Ended

\* The row of a token that was not sent yet, or was with the same nonce.
LEMMA TokenMoves ==
    ASSUME ProvisionInv, NEW s \in Tokens, NEW row \in TokenRow, row.status # "absent",
           ceremony.at # "ended", NEW at \in RunAts,
           ceremony' = [ceremony EXCEPT !.tokens[s] = row, !.at = at],
           file' = [file EXCEPT ![s] = row],
           \/ row.nonce = file[s].nonce \/ row.nonce = 0
           \/ \A t \in Tokens \ {s} : file[t].nonce # row.nonce,
           row.nonce # file[s].nonce => Deployments(s) = {},
           UNCHANGED <<testnet, mempool, replaced, existing, locked, published>>
    PROVE  ProvisionInv'
<1>1. /\ file \in [Tokens -> TokenRow] /\ ceremony.tokens = file /\ published = Ended.tokens
      /\ ceremony \in [at : RunAts, token : 1..2, tokens : [Tokens -> TokenRow]]
  BY DEF ProvisionInv, ProvisionTypes
<1>2. /\ file' \in [Tokens -> TokenRow] /\ file'[s] = row
      /\ \A t \in Tokens \ {s} : file'[t] = file[t]
  BY <1>1
<1>3. ceremony' \in [at : RunAts, token : 1..2, tokens : [Tokens -> TokenRow]] /\ ceremony'.tokens = file'
  BY <1>1, <1>2
<1>4. ProvisionTypes'
  BY <1>2, <1>3 DEF ProvisionInv, ProvisionTypes
<1>5. \A t \in Tokens : Deployments(t)' = Deployments(t)
  BY DEF Deployments
<1>6. \A t \in Tokens : \A n \in Deployments(t)' : n = file'[t].nonce
  BY <1>2, <1>5 DEF ProvisionInv
<1>7. \A t, u \in Tokens : t # u /\ file'[t].nonce = file'[u].nonce => file'[t].nonce = 0
  BY <1>2 DEF ProvisionInv
<1> QED BY <1>1, <1>3, <1>4, <1>6, <1>7 DEF ProvisionInv, Ended

LEMMA TokensOfRun ==
    ASSUME ProvisionInv
    PROVE  /\ ceremony \in [at : RunAts, token : 1..2, tokens : [Tokens -> TokenRow]]
           /\ Current \in Tokens
           /\ ceremony.at # "ended" => \A s \in Tokens : Recorded(s) = file[s]
           /\ file \in [Tokens -> TokenRow]
BY TokensAre DEF ProvisionInv, ProvisionTypes, Current, Recorded

LEMMA ProvisionStep == ProvisionInv /\ [ProvisionNext]_provisionVars => ProvisionInv'
<1> SUFFICES ASSUME ProvisionInv, [ProvisionNext]_provisionVars PROVE ProvisionInv'
  OBVIOUS
<1> DEFINE CeremonyRow == [at : RunAts, token : 1..2, tokens : [Tokens -> TokenRow]]
<1>0. /\ ProvisionTypes /\ ceremony \in CeremonyRow /\ Current \in Tokens
      /\ (ceremony.at # "ended" => \A s \in Tokens : Recorded(s) = file[s])
      /\ file \in [Tokens -> TokenRow] /\ MaxNonce \in Nat /\ MaxReplaced \in Nat
      /\ testnet \in Seq(TokenBlock) /\ Len(testnet) \in Nat /\ DOMAIN testnet = 1..Len(testnet)
  BY TokensOfRun, ProvisionAssumption DEF ProvisionInv, ProvisionTypes
<1>1. CASE MineNext
  <2> DEFINE n == Len(testnet) + 1
             b == [what |-> mempool[n], fork |-> replaced]
  <2>1. /\ n \in DOMAIN mempool /\ testnet' = Append(testnet, b) /\ mempool' = Without(n)
        /\ UNCHANGED <<replaced, existing, file, locked, ceremony, published>>
    BY <1>1 DEF MineNext
  <2>2. b \in TokenBlock
    BY <1>0, <2>1 DEF ProvisionTypes, TokenBlock
  <2>3. /\ testnet' \in Seq(TokenBlock) /\ Len(testnet') = n /\ testnet'[n] = b
        /\ \A i \in 1..Len(testnet) : testnet'[i] = testnet[i]
    BY <1>0, <2>1, <2>2, AppendProperties
  <2>4. /\ DOMAIN mempool' = DOMAIN mempool \ {n}
        /\ \A m \in DOMAIN mempool' : mempool'[m] = mempool[m]
    BY <2>1 DEF Without
  <2>5. ASSUME NEW s \in Tokens, NEW m \in Deployments(s)' PROVE m \in Deployments(s)
    <3>1. CASE m \in DOMAIN testnet' /\ testnet'[m].what = s
      <4>1. DOMAIN testnet' = 1..n
        BY <2>3
      <4>2. CASE m = n
        BY <2>1, <2>3, <3>1, <4>2 DEF Deployments
      <4>3. CASE m # n
        <5>1. m \in 1..Len(testnet)
          BY <1>0, <3>1, <4>1, <4>3
        <5> QED BY <1>0, <2>3, <3>1, <5>1 DEF Deployments
      <4> QED BY <4>2, <4>3
    <3>2. CASE m \in DOMAIN mempool' /\ mempool'[m] = s
      BY <2>4, <3>2 DEF Deployments
    <3> QED BY <2>5, <3>1, <3>2 DEF Deployments
  <2>6. n <= MaxNonce
    BY <1>0, <2>1 DEF ProvisionTypes
  <2> QED BY <1>0, <2>1, <2>3, <2>4, <2>5, <2>6, ChainMoves DEF ProvisionTypes
<1>2. CASE ReplaceBlock
  <2> DEFINE n == Len(testnet)
  <2>1. /\ replaced < MaxReplaced /\ n > 0 /\ replaced' = replaced + 1
        /\ testnet' = SubSeq(testnet, 1, n - 1)
        /\ mempool' = mempool \/ mempool' = Sent(n, testnet[n].what)
        /\ UNCHANGED <<existing, file, locked, ceremony, published>>
    BY <1>2 DEF ReplaceBlock
  <2>2. /\ testnet' \in Seq(TokenBlock) /\ Len(testnet') = n - 1
        /\ \A i \in 1..(n - 1) : testnet'[i] = testnet[i]
    BY <1>0, <2>1, SubSeqProperties
  <2>3. n \in DOMAIN testnet /\ testnet[n] \in TokenBlock
    BY <1>0, <2>1, ElementOfSeq
  <2>4. \A m \in DOMAIN mempool' :
           \/ m \in DOMAIN mempool /\ mempool'[m] = mempool[m]
           \/ m = n /\ mempool'[m] = testnet[n].what
    BY <2>1 DEF Sent
  <2>5. ASSUME NEW s \in Tokens, NEW m \in Deployments(s)' PROVE m \in Deployments(s)
    <3>1. CASE m \in DOMAIN testnet' /\ testnet'[m].what = s
      <4>1. m \in 1..(n - 1) /\ m \in DOMAIN testnet
        BY <1>0, <2>2, <3>1
      <4> QED BY <2>2, <3>1, <4>1 DEF Deployments
    <3>2. CASE m \in DOMAIN mempool' /\ mempool'[m] = s
      BY <2>3, <2>4, <3>2 DEF Deployments
    <3> QED BY <2>5, <3>1, <3>2 DEF Deployments
  <2>6. /\ n \in 1..MaxNonce /\ n - 1 <= MaxNonce /\ replaced' \in 0..MaxReplaced
    BY <1>0, <2>1 DEF ProvisionTypes
  <2>7. /\ DOMAIN mempool' \subseteq 1..MaxNonce
        /\ \A m \in DOMAIN mempool' : mempool'[m] \in Tokens \cup {Elsewhere}
    BY <1>0, <2>3, <2>4, <2>6 DEF ProvisionTypes, TokenBlock
  <2> QED BY <2>1, <2>2, <2>5, <2>6, <2>7, ChainMoves
<1>3. CASE UseElsewhere
  <2> DEFINE n == PendingNonce
  <2>1. /\ n <= MaxNonce /\ n > Len(testnet) /\ n \notin DOMAIN mempool
        /\ mempool' = Sent(n, Elsewhere)
        /\ UNCHANGED <<testnet, replaced, existing, file, locked, ceremony, published>>
    BY <1>3 DEF UseElsewhere, Sendable
  <2>2. n \in 1..MaxNonce
    BY <1>0, <2>1, PendingIs
  <2> HIDE DEF n
  <2>3. /\ DOMAIN mempool' = DOMAIN mempool \cup {n} /\ mempool'[n] = Elsewhere
        /\ \A m \in DOMAIN mempool : mempool'[m] = mempool[m]
    BY <2>1 DEF Sent
  <2>4. \A s \in Tokens : Deployments(s)' \subseteq Deployments(s)
    BY <2>1, <2>3, TokensAre DEF Deployments
  <2> QED BY <1>0, <2>1, <2>2, <2>3, <2>4, ChainMoves DEF ProvisionTypes
<1>4. CASE StartRun
  <2>1. /\ ceremony' = [Ended EXCEPT !.at = "token", !.tokens = file] /\ locked' = TRUE
        /\ published = Ended.tokens
        /\ UNCHANGED <<testnet, mempool, replaced, existing, file, published>>
    BY <1>4 DEF StartRun
  <2>2. ceremony' = [at |-> "token", token |-> 1, tokens |-> file]
    BY <2>1 DEF Ended
  <2>3. ceremony' \in CeremonyRow /\ ceremony'.at # "ended" /\ ceremony'.tokens = file
    BY <1>0, <2>2 DEF RunAts
  <2>4. ProvisionTypes'
    BY <1>0, <2>1, <2>3 DEF ProvisionTypes
  <2>5. \A s \in Tokens : Deployments(s)' = Deployments(s)
    BY <2>1 DEF Deployments
  <2> QED BY <2>1, <2>3, <2>4, <2>5 DEF ProvisionInv, Ended
<1>5. CASE Adopt
  <2>1. /\ ceremony.at = "token" /\ file[Current] = Absent
        /\ ceremony' = [ceremony EXCEPT !.tokens[Current] = Record("confirmed", 0, 0), !.at = "verify"]
        /\ file' = [file EXCEPT ![Current] = Record("confirmed", 0, 0)]
        /\ UNCHANGED <<testnet, mempool, replaced, existing, locked, published>>
    BY <1>0, <1>5 DEF Adopt, Write
  <2>2. Record("confirmed", 0, 0) \in TokenRow /\ Record("confirmed", 0, 0).nonce = 0
        /\ Record("confirmed", 0, 0).status # "absent"
    BY AbsentRow DEF Statuses
  <2> QED BY <1>0, <2>1, <2>2, TokenMoves, AbsentRow DEF RunAts
<1>6. CASE Prepare
  <2> DEFINE n == PendingNonce
             row == Record("prepared", n, 0)
  <2>1. /\ ceremony.at = "token" /\ file[Current] = Absent
        /\ \A t \in Tokens \ {Current} : file[t].nonce # n
        /\ ceremony' = [ceremony EXCEPT !.tokens[Current] = row, !.at = "code"]
        /\ file' = [file EXCEPT ![Current] = row]
        /\ UNCHANGED <<testnet, mempool, replaced, existing, locked, published>>
    BY <1>0, <1>6 DEF Prepare, DistinctAddress, PreparedInFile
  <2>2. n \in 1..(MaxNonce + 1)
    BY <1>0, PendingIs
  <2> HIDE DEF n
  <2>3. row \in TokenRow /\ row.nonce = n /\ row.status # "absent"
    <3>1. n \in Nat
      BY <1>0, <2>2
    <3> QED BY <3>1, AbsentRow DEF Statuses
  <2>4. Deployments(Current) = {}
    <3>1. \A m \in Deployments(Current) : m = 0
      BY <1>0, <2>1, AbsentRow DEF ProvisionInv
    <3>2. \A m \in Deployments(Current) : m >= 1
      BY <1>0 DEF Deployments, ProvisionTypes
    <3> QED BY <3>1, <3>2
  <2> HIDE DEF row
  <2> QED BY <1>0, <2>1, <2>3, <2>4, TokenMoves DEF RunAts
<1>7. CASE Resume \/ CheckCode \/ CheckNonce \/ VerifyConfirmedToken
  <2>1. /\ ceremony.at # "ended"
        /\ \/ \E at \in RunAts : ceremony' = [ceremony EXCEPT !.at = at]
           \/ ceremony.token < 2 /\ ceremony' = [ceremony EXCEPT !.token = @ + 1, !.at = "token"]
        /\ UNCHANGED <<testnet, mempool, replaced, existing, file, locked, published>>
    <3>1. CASE Resume
      <4>1. ceremony.at = "token" /\ Recorded(Current) \in TokenRow /\ Recorded(Current) # Absent
        BY <1>0, <3>1 DEF Resume
      <4>2. CASE Recorded(Current).status = "prepared"
        BY <3>1, <4>1, <4>2 DEF Resume, Step, RunAts
      <4>3. CASE Recorded(Current).status = "broadcast"
        BY <3>1, <4>1, <4>3 DEF Resume, Step, RunAts
      <4>4. CASE Recorded(Current).status = "confirmed"
        BY <3>1, <4>1, <4>4 DEF Resume, Step, RunAts
      <4>5. Recorded(Current).status # "absent"
        BY <1>0, <4>1 DEF ProvisionInv
      <4> QED BY <4>1, <4>2, <4>3, <4>4, <4>5 DEF TokenRow, Statuses
    <3>2. CASE CheckCode
      BY <3>2 DEF CheckCode, Step, RunAts
    <3>3. CASE CheckNonce
      BY <3>3 DEF CheckNonce, Step, RunAts
    <3>4. CASE VerifyConfirmedToken
      BY <1>0, <3>4, TokensAre DEF VerifyConfirmedToken, RunAts
    <3> QED BY <1>7, <3>1, <3>2, <3>3, <3>4
  <2>2. ceremony' \in CeremonyRow /\ ceremony'.tokens = ceremony.tokens
    <3>1. CASE \E at \in RunAts : ceremony' = [ceremony EXCEPT !.at = at]
      BY <1>0, <3>1
    <3>2. CASE ceremony.token < 2 /\ ceremony' = [ceremony EXCEPT !.token = @ + 1, !.at = "token"]
      <4>1. ceremony.token + 1 \in 1..2 /\ "token" \in RunAts
        BY <1>0, <3>2 DEF RunAts
      <4> QED BY <1>0, <3>2, <4>1
    <3> QED BY <2>1, <3>1, <3>2
  <2> QED BY <1>0, <2>1, <2>2, RunMoves DEF ProvisionTypes
<1>8. CASE DeployToken
  <2> DEFINE n == file[Current].nonce
  <2>1. /\ ceremony.at = "send" /\ n <= MaxNonce /\ n > Len(testnet) /\ n \notin DOMAIN mempool
        /\ mempool' = Sent(n, Current) /\ ceremony' = [ceremony EXCEPT !.at = "sent"]
        /\ UNCHANGED <<testnet, replaced, existing, file, locked, published>>
    BY <1>0, <1>8 DEF DeployToken, Sendable, Step
  <2>2. n \in 1..MaxNonce
    BY <1>0, <2>1 DEF TokenRow
  <2> HIDE DEF n
  <2>3. /\ DOMAIN mempool' = DOMAIN mempool \cup {n} /\ mempool'[n] = Current
        /\ \A m \in DOMAIN mempool : mempool'[m] = mempool[m]
    BY <2>1 DEF Sent
  <2>4. \A s \in Tokens : \A m \in Deployments(s)' : m = file[s].nonce
    BY <1>0, <2>1, <2>3 DEF Deployments, ProvisionInv, n
  <2>5. ceremony' \in CeremonyRow /\ ceremony'.tokens = ceremony.tokens /\ ceremony'.at # "ended"
    BY <1>0, <2>1 DEF RunAts
  <2>6. ProvisionTypes'
    BY <1>0, <2>1, <2>2, <2>3, <2>5 DEF ProvisionTypes
  <2> QED BY <2>1, <2>4, <2>5, <2>6 DEF ProvisionInv, Ended
<1>9. CASE RecordBroadcast
  <2> DEFINE row == [file[Current] EXCEPT !.status = "broadcast"]
  <2>1. /\ ceremony.at = "sent"
        /\ ceremony' = [ceremony EXCEPT !.tokens[Current] = row, !.at = "receipt"]
        /\ file' = [file EXCEPT ![Current] = row]
        /\ UNCHANGED <<testnet, mempool, replaced, existing, locked, published>>
    BY <1>0, <1>9 DEF RecordBroadcast, Write
  <2>2. row \in TokenRow /\ row.nonce = file[Current].nonce /\ row.status # "absent"
    <3>1. file[Current] \in TokenRow
      BY <1>0
    <3> QED BY <3>1 DEF TokenRow, Statuses
  <2> HIDE DEF row
  <2> QED BY <1>0, <2>1, <2>2, TokenMoves DEF RunAts
<1>10. CASE ConfirmBroadcast
  <2> DEFINE n == file[Current].nonce
             row == Record("confirmed", n, testnet[n].fork)
  <2>1. /\ ceremony.at = "receipt" /\ n \in DOMAIN testnet
        /\ ceremony' = [ceremony EXCEPT !.tokens[Current] = row, !.at = "verify"]
        /\ file' = [file EXCEPT ![Current] = row]
        /\ UNCHANGED <<testnet, mempool, replaced, existing, locked, published>>
    BY <1>0, <1>10 DEF ConfirmBroadcast, Created, Write
  <2>2. row \in TokenRow /\ row.nonce = n /\ row.status # "absent"
    <3>1. n \in Nat /\ testnet[n].fork \in Nat
      <4>1. testnet[n] \in TokenBlock
        BY <1>0, <2>1, ElementOfSeq
      <4> QED BY <1>0, <4>1 DEF TokenBlock, TokenRow
    <3> QED BY <3>1, AbsentRow DEF Statuses
  <2> HIDE DEF row
  <2> QED BY <1>0, <2>1, <2>2, TokenMoves DEF RunAts
<1>11. CASE WriteManifest
  <2>1. /\ ceremony.at = "manifest" /\ published' = file /\ ceremony' = Ended /\ locked' = FALSE
        /\ UNCHANGED <<testnet, mempool, replaced, existing, file>>
    BY <1>11 DEF WriteManifest, ProvisionInv
  <2>2. Ended \in CeremonyRow
    BY AbsentRow DEF Ended, RunAts
  <2>3. ProvisionTypes'
    BY <1>0, <2>1, <2>2 DEF ProvisionTypes
  <2>4. \A s \in Tokens : Deployments(s)' = Deployments(s)
    BY <2>1 DEF Deployments
  <2> QED BY <2>1, <2>3, <2>4, AbsentRow DEF ProvisionInv
<1>12. CASE EndRun \/ RemoveLock
  <2>1. Ended \in CeremonyRow
    BY AbsentRow DEF Ended, RunAts
  <2> QED BY <1>0, <1>12, <2>1, RunMoves, AbsentRow DEF EndRun, RemoveLock
<1>13. CASE UNCHANGED provisionVars
  <2>1. UNCHANGED <<testnet, mempool, replaced, existing, file, locked, ceremony, published>>
    BY <1>13 DEF provisionVars
  <2> QED BY <1>0, <2>1, RunMoves DEF ProvisionTypes
<1> QED BY <1>1, <1>2, <1>3, <1>4, <1>5, <1>6, <1>7, <1>8, <1>9, <1>10, <1>11, <1>12, <1>13 DEF ProvisionNext

LEMMA ProvisionProves == ProvisionInv => OneContractPerToken
<1> SUFFICES ASSUME ProvisionInv, NEW s \in Tokens
             PROVE  /\ \A m, n \in Deployments(s) : m = n
                    /\ \A n \in Deployments(s), t \in Tokens \ {s} :
                          file[t].nonce # n /\ published[t].nonce # n
  BY DEF OneContractPerToken
<1>1. \A n \in Deployments(s) : n = file[s].nonce /\ n # 0
  <2>1. /\ \A n \in DOMAIN testnet : n # 0
        /\ \A n \in DOMAIN mempool : n # 0
    BY ProvisionAssumption DEF ProvisionInv, ProvisionTypes
  <2> QED BY <2>1 DEF ProvisionInv, Deployments
<1>2. \A t \in Tokens : published[t].nonce \in {0, file[t].nonce}
  BY AbsentRow DEF ProvisionInv
<1> QED BY <1>1, <1>2 DEF ProvisionInv

----------------------------------------------------------------------------
(***************************************************************************)
(* The settings of a release (scripts/validate-production-config.mjs).     *)
(* What is in force passed the checks of its start, and comes from the one *)
(* finalized manifest.                                                     *)
(***************************************************************************)
ReleaseValues == ReleaseSettings \cup {Template}
EnvFile == [rpc : {"https", "http"}, service : {"external", "none", "private", "reserved", "loopback"},
            evaluation : BOOLEAN, plaintext : BOOLEAN, apiKey : BOOLEAN, secrets : BOOLEAN,
            maxAge : {"24", "0"}, threshold : {"1000", "0"}, keys : SUBSET KeyIds, active : KeyIds,
            origin : {"exact", "slash", "none"}, release : ReleaseValues]

ReleaseInv ==
    /\ finalized \in ReleaseValues /\ edits \in 0..MaxEdits
    /\ {envFile, update, server} \subseteq EnvFile
    /\ \A e \in {envFile, update, server} : e.release \in {finalized, Template}
    /\ envFile.origin # "none" /\ (update # Unbuilt => update.origin = "exact")
    /\ site \in {finalized, Template}
    /\ site.publicRpc = "http" => site.network = "testnet" /\ site.chain = Testnet
    /\ server # Unbuilt => /\ server.release.chain > 0
                           /\ server.service = "none" => server.release.chain = Testnet

LEMMA TemplateIs ==
    /\ Template.network = "testnet" /\ Template.chain = 0 /\ Template.publicRpc = "https"
    /\ \A r \in ReleaseSettings : r # Template /\ r.chain \in Nat /\ r.chain > 0
    /\ \A r \in ReleaseValues : r.chain \in Nat
BY DEF Template, ReleaseSettings, ReleaseValues, Testnet

LEMMA FilesAtFirst ==
    /\ Filled \in EnvFile /\ Filled.release = Template /\ Filled.origin = "exact"
    /\ Unbuilt \in EnvFile /\ Unbuilt.release = Template /\ Unbuilt.origin = "none"
<1>1. (CHOOSE k \in KeyIds : TRUE) \in KeyIds
  BY ReleaseAssumption
<1> QED BY <1>1 DEF Filled, Unbuilt, EnvFile, ReleaseValues

LEMMA ReleaseStart == ReleaseInit => ReleaseInv
BY FilesAtFirst, TemplateIs, ReleaseAssumption DEF ReleaseInit, ReleaseInv, ReleaseValues

\* What a build and a start have checked.
LEMMA BuiltPasses ==
    ASSUME NEW e \in EnvFile, validateProductionEnvironment(e) = {}
    PROVE  /\ e.release.chain > 0
           /\ e.release.publicRpc = "https" \/ (e.release.network = "testnet" /\ e.release.chain = Testnet)
<1> DEFINE acknowledged == e.plaintext /\ e.release.network = "testnet" /\ e.release.chain = Testnet
           checks == [chain |-> e.release.chain > 0,
                      publicRpc |-> e.release.publicRpc = "https" \/ acknowledged]
<1>1. \A s \in DOMAIN checks : checks[s]
  BY DEF validateProductionEnvironment, Faults
<1>2. checks["chain"] /\ checks["publicRpc"]
  BY <1>1
<1> QED BY <1>2

LEMMA StartedPasses ==
    ASSUME NEW e \in EnvFile, collectProductionEnvErrors(e) = {}
    PROVE  /\ e.release.chain > 0
           /\ e.service = "none" => e.release.chain = Testnet
<1> DEFINE evaluation == complianceEvaluationAcknowledged(e)
           checks == [secrets   |-> e.secrets,
                      apiKey    |-> evaluation \/ e.apiKey,
                      rpc       |-> e.rpc = "https",
                      chain     |-> loadNoblePayChainConfiguration(e),
                      service   |-> \/ evaluation /\ e.service = "none"
                                    \/ parseExternalComplianceUrl(e),
                      maxAge    |-> e.maxAge # "0",
                      keyring   |-> loadTravelRuleEncryptionConfiguration(e),
                      threshold |-> e.threshold # "0",
                      origin    |-> e.origin = "exact"]
<1>1. \A s \in DOMAIN checks : checks[s]
  BY DEF collectProductionEnvErrors, Faults
<1>2. checks["chain"] /\ checks["service"]
  BY <1>1
<1> QED BY <1>2 DEF loadNoblePayChainConfiguration, complianceEvaluationAcknowledged,
                    parseExternalComplianceUrl

\* One setting is edited.
LEMMA SettingEdited ==
    ASSUME NEW e \in EnvFile, NEW s \in DOMAIN OperatorSettings, NEW v \in OperatorSettings[s]
    PROVE  LET f == [e EXCEPT ![s] = v]
           IN f \in EnvFile /\ f.release = e.release /\ f.origin = e.origin
<1>1. s \in {"rpc", "service", "evaluation", "plaintext", "apiKey", "secrets", "maxAge", "threshold",
             "keys", "active"}
  BY DEF OperatorSettings
<1>2. CASE s = "rpc"
  BY <1>2 DEF OperatorSettings, EnvFile
<1>3. CASE s = "service"
  BY <1>3 DEF OperatorSettings, EnvFile
<1>4. CASE s = "evaluation"
  BY <1>4 DEF OperatorSettings, EnvFile
<1>5. CASE s = "plaintext"
  BY <1>5 DEF OperatorSettings, EnvFile
<1>6. CASE s = "apiKey"
  BY <1>6 DEF OperatorSettings, EnvFile
<1>7. CASE s = "secrets"
  BY <1>7 DEF OperatorSettings, EnvFile
<1>8. CASE s = "maxAge"
  BY <1>8 DEF OperatorSettings, EnvFile
<1>9. CASE s = "threshold"
  BY <1>9 DEF OperatorSettings, EnvFile
<1>10. CASE s = "keys"
  BY <1>10 DEF OperatorSettings, EnvFile
<1>11. CASE s = "active"
  BY <1>11 DEF OperatorSettings, EnvFile
<1> QED BY <1>1, <1>2, <1>3, <1>4, <1>5, <1>6, <1>7, <1>8, <1>9, <1>10, <1>11

LEMMA ReleaseStep == ReleaseInv /\ [ReleaseNext]_releaseVars => ReleaseInv'
<1> SUFFICES ASSUME ReleaseInv, [ReleaseNext]_releaseVars PROVE ReleaseInv'
  OBVIOUS
<1>1. CASE Edit
  <2>1. envFile' \in EnvFile /\ envFile'.release = envFile.release /\ envFile'.origin # "none"
    <3>1. CASE \E s \in DOMAIN OperatorSettings : \E v \in OperatorSettings[s] \ {envFile[s]} :
                  envFile' = [envFile EXCEPT ![s] = v]
      <4>1. PICK s \in DOMAIN OperatorSettings : \E v \in OperatorSettings[s] :
                    envFile' = [envFile EXCEPT ![s] = v]
        BY <3>1
      <4>2. PICK v \in OperatorSettings[s] : envFile' = [envFile EXCEPT ![s] = v]
        BY <4>1
      <4>3. envFile \in EnvFile /\ envFile.origin # "none"
        BY DEF ReleaseInv
      <4> QED BY <4>2, <4>3, SettingEdited
    <3>2. CASE envFile' = [envFile EXCEPT !.origin = "slash"]
      BY <3>2 DEF ReleaseInv, EnvFile
    <3> QED BY <1>1, <3>1, <3>2 DEF Edit
  <2> QED BY <1>1, <2>1, ReleaseAssumption DEF Edit, ReleaseInv
<1>2. CASE Finalize
  <2>1. finalized = Template /\ finalized' \in ReleaseValues
        /\ UNCHANGED <<envFile, update, site, server, edits>>
    BY <1>2 DEF Finalize, ReleaseValues
  <2>2. server = Unbuilt
    BY <2>1, TemplateIs DEF ReleaseInv
  <2> QED BY <2>1, <2>2, FilesAtFirst, TemplateIs DEF ReleaseInv
<1>3. CASE WriteUpdate
  <2>1. /\ update' \in EnvFile /\ update'.release = finalized /\ update'.origin = "exact"
        /\ UNCHANGED <<envFile, finalized, site, server, edits>>
    BY <1>3 DEF WriteUpdate, applyFinalizedEnvironment, ReleaseInv, EnvFile
  <2> QED BY <2>1 DEF ReleaseInv
<1>4. CASE RenameUpdate
  BY <1>4, FilesAtFirst DEF RenameUpdate, ReleaseInv
<1>5. CASE StopApplying
  BY <1>5, FilesAtFirst DEF StopApplying, ReleaseInv
<1>6. CASE BuildFrontend
  <2>1. /\ envFile.release.chain > 0 /\ envFile.release \in {finalized, Template}
        /\ \/ envFile.release.publicRpc = "https"
           \/ envFile.release.network = "testnet" /\ envFile.release.chain = Testnet
        /\ site' = envFile.release /\ UNCHANGED <<envFile, finalized, update, server, edits>>
    BY <1>6, BuiltPasses DEF BuildFrontend, ReleaseInv
  <2> QED BY <2>1 DEF ReleaseInv
<1>7. CASE StartBackend
  <2>1. CASE server' = Unbuilt
    BY <1>7, <2>1, FilesAtFirst DEF StartBackend, ReleaseInv
  <2>2. CASE server' = envFile /\ collectProductionEnvErrors(envFile) = {}
    <3>1. /\ envFile.release.chain > 0
          /\ envFile.service = "none" => envFile.release.chain = Testnet
      BY <2>2, StartedPasses DEF ReleaseInv
    <3> QED BY <1>7, <2>2, <3>1 DEF StartBackend, ReleaseInv
  <2> QED BY <1>7, <2>1, <2>2 DEF StartBackend
<1>8. CASE UNCHANGED releaseVars
  BY <1>8 DEF releaseVars, ReleaseInv
<1> QED BY <1>1, <1>2, <1>3, <1>4, <1>5, <1>6, <1>7, <1>8 DEF ReleaseNext

\* The preflight looks at all a build looks at, and a start but for what it is not shown.
LEMMA PreflightEnough ==
    ASSUME NEW e \in EnvFile, e.origin # "none", Faults(PreflightChecks(e)) = {}
    PROVE  /\ validateProductionEnvironment(e) = {}
           /\ collectProductionEnvErrors(e) \subseteq
                  {"secrets", "apiKey"}
                  \cup (IF e.service = "private" THEN {"service"} ELSE {})
                  \cup (IF e.origin = "slash" THEN {"origin"} ELSE {})
<1>1. \A s \in DOMAIN PreflightChecks(e) : PreflightChecks(e)[s]
  BY DEF Faults
<1>2. /\ e.rpc = "https" /\ e.maxAge # "0" /\ e.threshold # "0" /\ TravelRuleKeyring(e)
      /\ e.release.chain > 0 /\ e.release.publicRpc = "https"
      /\ IF e.service = "none" THEN complianceEvaluation(e) ELSE validateExternalComplianceOrigin(e)
  BY <1>1 DEF PreflightChecks, validatePrivateRPCURL, validatePublicURL
<1>3. validateProductionEnvironment(e) = {}
  <2> DEFINE acknowledged == e.plaintext /\ e.release.network = "testnet" /\ e.release.chain = Testnet
             checks == [chain |-> e.release.chain > 0,
                        publicRpc |-> e.release.publicRpc = "https" \/ acknowledged]
  <2>1. ASSUME NEW s \in DOMAIN checks PROVE checks[s]
    <3>1. s = "chain" \/ s = "publicRpc"
      OBVIOUS
    <3>2. checks["chain"] /\ checks["publicRpc"]
      BY <1>2
    <3> QED BY <3>1, <3>2
  <2>2. validateProductionEnvironment(e) = {s \in DOMAIN checks : ~checks[s]}
    BY DEF validateProductionEnvironment, Faults
  <2> HIDE DEF checks
  <2> QED BY <2>1, <2>2
<1> DEFINE evaluation == complianceEvaluationAcknowledged(e)
<1>4. /\ e.service \in {"external", "none", "private", "reserved", "loopback"}
      /\ e.origin \in {"exact", "slash"}
  BY DEF EnvFile
<1>5. e.service # "private" => (evaluation /\ e.service = "none") \/ parseExternalComplianceUrl(e)
  BY <1>2, <1>4 DEF complianceEvaluation, complianceEvaluationAcknowledged,
       validateExternalComplianceOrigin, parseExternalComplianceUrl
<1>6. loadNoblePayChainConfiguration(e) /\ loadTravelRuleEncryptionConfiguration(e)
  BY <1>2 DEF loadNoblePayChainConfiguration, loadTravelRuleEncryptionConfiguration, TravelRuleKeyring
<1>7. ASSUME NEW s \in collectProductionEnvErrors(e)
      PROVE  s \in {"secrets", "apiKey"} \/ (s = "service" /\ e.service = "private")
                \/ (s = "origin" /\ e.origin = "slash")
  <2> DEFINE checks == [secrets   |-> e.secrets,
                        apiKey    |-> evaluation \/ e.apiKey,
                        rpc       |-> e.rpc = "https",
                        chain     |-> loadNoblePayChainConfiguration(e),
                        service   |-> \/ evaluation /\ e.service = "none"
                                      \/ parseExternalComplianceUrl(e),
                        maxAge    |-> e.maxAge # "0",
                        keyring   |-> loadTravelRuleEncryptionConfiguration(e),
                        threshold |-> e.threshold # "0",
                        origin    |-> e.origin = "exact"]
  <2>1. s \in DOMAIN checks /\ ~checks[s]
    BY <1>7 DEF collectProductionEnvErrors, Faults
  <2>2. s \in {"secrets", "apiKey", "rpc", "chain", "service", "maxAge", "keyring", "threshold", "origin"}
    BY <2>1
  <2>3. /\ s \notin {"rpc", "chain", "maxAge", "keyring", "threshold"}
        /\ s = "service" => e.service = "private"
        /\ s = "origin" => e.origin = "slash"
    <3>1. checks["rpc"] /\ checks["chain"] /\ checks["maxAge"] /\ checks["keyring"] /\ checks["threshold"]
      BY <1>2, <1>6
    <3>2. /\ e.service # "private" => checks["service"]
          /\ e.origin = "exact" => checks["origin"]
      BY <1>5
    <3> HIDE DEF checks
    <3> QED BY <1>4, <2>1, <3>1, <3>2
  <2> QED BY <2>2, <2>3
<1> QED BY <1>3, <1>7

LEMMA ReleaseProves == ReleaseInv => ReleaseHolds
<1> SUFFICES ASSUME ReleaseInv PROVE ReleaseHolds
  OBVIOUS
<1>1. PreflightSuffices
  BY PreflightEnough DEF ReleaseInv, PreflightSuffices
<1>2. UnscreenedOnTestnet
  BY DEF ReleaseInv, UnscreenedOnTestnet
<1>3. PlaintextOnTestnet
  BY TemplateIs DEF ReleaseInv, PlaintextOnTestnet
<1>4. ReleaseWhole
  BY TemplateIs DEF ReleaseInv, ReleaseWhole
<1> QED BY <1>1, <1>2, <1>3, <1>4 DEF ReleaseHolds

----------------------------------------------------------------------------
(***************************************************************************)
(* The parts together.  The requests and the audit entries are those of    *)
(* the part the scenario exercises; what the other parts keep, and tell    *)
(* them by, stays as it was at first.                                      *)
(***************************************************************************)
Serving == {"audit", "sessions", "limits", "travel", "views", "sockets", "reports", "feeds"}

PartsHold ==
    /\ IF scenario = "audit" THEN AuditInv ELSE AuditInit
    /\ IF scenario = "sessions" THEN SessionInv ELSE SessionInit
    /\ IF scenario = "limits" THEN LimitInv ELSE LimitInit
    /\ IF scenario = "travel" THEN TravelInv ELSE TravelInit
    /\ IF scenario = "views" THEN ViewInv ELSE ViewInit
    /\ IF scenario = "sockets" THEN SocketInv ELSE SocketInit
    /\ IF scenario = "reports" THEN ReportInv ELSE ReportInit
    /\ IF scenario = "feeds" THEN FeedInv ELSE FeedInit
    /\ IF scenario = "client" THEN ClientInv ELSE ClientInit
    /\ IF scenario = "lists" THEN ListInv ELSE ListingInit
    /\ IF scenario = "ceremony" THEN CeremonyInv ELSE CeremonyInit
    /\ IF scenario = "provisioning" THEN ProvisionInv ELSE ProvisionInit
    /\ IF scenario = "release" THEN ReleaseInv ELSE ReleaseInit
    /\ scenario \notin Serving => RequestsInit

\* At first every part holds.
LEMMA PartsStart == MCInit => PartsHold
<1> SUFFICES ASSUME MCInit PROVE PartsHold
  OBVIOUS
<1>1. /\ RequestsInit /\ AuditInit /\ SessionInit /\ LimitInit /\ TravelInit /\ ViewInit /\ SocketInit
      /\ ReportInit /\ FeedInit /\ ClientInit /\ ListingInit /\ CeremonyInit /\ ProvisionInit
      /\ ReleaseInit
  BY DEF MCInit
<1>2. /\ AuditInv /\ SessionInv /\ LimitInv /\ TravelInv /\ ViewInv /\ SocketInv /\ ReportInv
      /\ FeedInv /\ ClientInv /\ ListInv /\ CeremonyInv /\ ProvisionInv /\ ReleaseInv
  BY <1>1, AuditStart, SessionStart, LimitStart, TravelStart, ViewStart, SocketStart, ReportStart,
       FeedStart, ClientStart, ListStart, CeremonyStart, ProvisionStart, ReleaseStart
<1> QED BY <1>1, <1>2 DEF PartsHold

\* A step is one of the part exercised; the others' state stays.
LEMMA PartsMove ==
    ASSUME [MCNext /\ UNCHANGED scenario]_allVars
    PROVE  /\ scenario' = scenario
           /\ IF scenario = "audit" THEN [AuditNext]_<<shared, log>> ELSE UNCHANGED log
           /\ IF scenario = "sessions" THEN [SessionNext]_<<shared, sessionVars>> ELSE UNCHANGED sessionVars
           /\ IF scenario = "limits" THEN [LimitNext]_<<shared, limitVars>> ELSE UNCHANGED limitVars
           /\ IF scenario = "travel" THEN [TravelNext]_<<shared, travelVars>> ELSE UNCHANGED travelVars
           /\ IF scenario = "views" THEN [ViewNext]_<<shared, blocks>> ELSE UNCHANGED blocks
           /\ IF scenario = "sockets" THEN [SocketNext]_<<shared, socketVars>> ELSE UNCHANGED socketVars
           /\ IF scenario = "reports" THEN [ReportNext]_<<shared, reportVars>> ELSE UNCHANGED reportVars
           /\ IF scenario = "feeds" THEN [FeedNext]_<<shared, feedVars>> ELSE UNCHANGED feedVars
           /\ IF scenario = "client" THEN [ClientNext]_clientVars ELSE UNCHANGED clientVars
           /\ IF scenario = "lists" THEN [ListingNext]_listingVars ELSE UNCHANGED listingVars
           /\ IF scenario = "ceremony" THEN [CeremonyNext]_ceremonyVars ELSE UNCHANGED ceremonyVars
           /\ IF scenario = "provisioning" THEN [ProvisionNext]_provisionVars ELSE UNCHANGED provisionVars
           /\ IF scenario = "release" THEN [ReleaseNext]_releaseVars ELSE UNCHANGED releaseVars
           /\ scenario \notin Serving => UNCHANGED shared
<1>1. CASE UNCHANGED allVars
  <2>1. /\ UNCHANGED scenario /\ UNCHANGED shared /\ UNCHANGED log /\ UNCHANGED sessionVars
        /\ UNCHANGED limitVars /\ UNCHANGED travelVars /\ UNCHANGED blocks /\ UNCHANGED socketVars
        /\ UNCHANGED reportVars /\ UNCHANGED feedVars /\ UNCHANGED clientVars /\ UNCHANGED listingVars
        /\ UNCHANGED ceremonyVars /\ UNCHANGED provisionVars /\ UNCHANGED releaseVars
    BY <1>1 DEF allVars, services
  <2> QED BY <2>1
<1>2. CASE MCNext /\ UNCHANGED scenario
  BY <1>2 DEF MCNext, Serving
<1> QED BY <1>1, <1>2

\* Every step keeps every part.
LEMMA PartsStep == PartsHold /\ [MCNext /\ UNCHANGED scenario]_allVars => PartsHold'
<1> SUFFICES ASSUME PartsHold, [MCNext /\ UNCHANGED scenario]_allVars PROVE PartsHold'
  OBVIOUS
<1>1. scenario' = scenario
  BY PartsMove
<1>2. (IF scenario = "audit" THEN AuditInv ELSE AuditInit)'
  BY <1>1, PartsMove, AuditStep DEF PartsHold, AuditInit
<1>3. (IF scenario = "sessions" THEN SessionInv ELSE SessionInit)'
  BY <1>1, PartsMove, SessionStep DEF PartsHold, SessionInit, sessionVars
<1>4. (IF scenario = "limits" THEN LimitInv ELSE LimitInit)'
  BY <1>1, PartsMove, LimitStep DEF PartsHold, LimitInit, limitVars
<1>5. (IF scenario = "travel" THEN TravelInv ELSE TravelInit)'
  BY <1>1, PartsMove, TravelStep DEF PartsHold, TravelInit, travelVars
<1>6. (IF scenario = "views" THEN ViewInv ELSE ViewInit)'
  BY <1>1, PartsMove, ViewStep DEF PartsHold, ViewInit
<1>7. (IF scenario = "sockets" THEN SocketInv ELSE SocketInit)'
  BY <1>1, PartsMove, SocketStep DEF PartsHold, SocketInit, socketVars
<1>8. (IF scenario = "reports" THEN ReportInv ELSE ReportInit)'
  BY <1>1, PartsMove, ReportStep DEF PartsHold, ReportInit, reportVars
<1>9. (IF scenario = "feeds" THEN FeedInv ELSE FeedInit)'
  BY <1>1, PartsMove, FeedStep DEF PartsHold, FeedInit, feedVars
<1>10. (IF scenario = "client" THEN ClientInv ELSE ClientInit)'
  BY <1>1, PartsMove, ClientStep DEF PartsHold, ClientInit, clientVars, socketState
<1>11. (IF scenario = "lists" THEN ListInv ELSE ListingInit)'
  BY <1>1, PartsMove, ListStep DEF PartsHold, ListingInit, listingVars
<1>12. (scenario \notin Serving => RequestsInit)'
  BY <1>1, PartsMove DEF PartsHold, RequestsInit, shared
<1>13. (IF scenario = "ceremony" THEN CeremonyInv ELSE CeremonyInit)'
  BY <1>1, PartsMove, CeremonyStep DEF PartsHold, CeremonyInit, ceremonyVars
<1>14. (IF scenario = "provisioning" THEN ProvisionInv ELSE ProvisionInit)'
  BY <1>1, PartsMove, ProvisionStep DEF PartsHold, ProvisionInit, provisionVars
<1>15. (IF scenario = "release" THEN ReleaseInv ELSE ReleaseInit)'
  BY <1>1, PartsMove, ReleaseStep DEF PartsHold, ReleaseInit, releaseVars
<1> QED BY <1>2, <1>3, <1>4, <1>5, <1>6, <1>7, <1>8, <1>9, <1>10, <1>11, <1>12, <1>13, <1>14, <1>15 DEF PartsHold

\* A request is at a step of the part exercised, and no other part's entry is written.
LEMMA StepsOfOne ==
    ASSUME PartsHold, NEW w \in Workers
    PROVE  /\ scenario # "audit" => req[w].at \notin {"verified", "exported"}
           /\ scenario # "sessions" => req[w].at \notin Handlers
           /\ scenario # "sockets" => req[w].at # "delivered"
           /\ scenario # "reports" => req[w].at # "stored"
           /\ scenario # "views" => req[w].at # "shown"
           /\ scenario # "feeds" => req[w].at \notin {"settled", "quoted"}
<1>1. CASE scenario = "audit"
  BY <1>1, IdleRests DEF PartsHold, AuditInv, AtRest, AuditHeld, Appending, Verifying, Judged,
       Exporting, Handlers
<1>2. CASE scenario = "sessions"
  BY <1>2, IdleRests DEF PartsHold, SessionInv, SessionTypes, AtRest, SessionHeld, SigningIn, BeingAdmitted, Handlers
<1>3. CASE scenario = "limits"
  BY <1>3, IdleRests DEF PartsHold, LimitInv, LimitTypes, AtRest, LimitHeld, Handlers
<1>4. CASE scenario = "travel"
  BY <1>4, IdleRests DEF PartsHold, TravelInv, TravelTypes, AtRest, TravelHeld, Authorizing, Loading,
       Loaded, Sending, Answering, Handlers
<1>5. CASE scenario = "views"
  BY <1>5, IdleRests DEF PartsHold, ViewInv, ViewTypes, ViewHeld, Viewing, Handlers
<1>6. CASE scenario = "sockets"
  BY <1>6, IdleRests DEF PartsHold, SocketInv, SocketTypes, AtRest, SocketHeld, Visiting, Handlers
<1>7. CASE scenario = "reports"
  BY <1>7, IdleRests DEF PartsHold, ReportInv, ReportTypes, ReportHeld, Reading, Storing, Filing,
       Receiving, Handlers
<1>8. CASE scenario = "feeds"
  BY <1>8, IdleRests DEF PartsHold, FeedInv, FeedTypes, FeedHeld, Asking, Reporting, Probed, Pricing,
       Quoted, EntryRow, Handlers
<1>9. CASE scenario \notin Serving
  BY <1>9, IdleRests DEF PartsHold, RequestsInit, Handlers
<1> QED BY <1>1, <1>2, <1>3, <1>4, <1>5, <1>6, <1>7, <1>8, <1>9 DEF Serving

LEMMA EntriesOfOne ==
    ASSUME PartsHold, NEW e \in trail
    PROVE  /\ scenario # "reports" => e.event # "submitted"
           /\ scenario # "feeds" => e.event # "SANCTIONS_UPDATED"
<1>1. CASE scenario = "reports"
  BY <1>1 DEF PartsHold, ReportInv, ReportTypes
<1>2. CASE scenario = "feeds"
  BY <1>2 DEF PartsHold, FeedInv, FeedTypes, EntryRow
<1>3. CASE scenario \notin {"reports", "feeds"}
  <2>1. trail = {}
    BY <1>3 DEF PartsHold, Serving, AuditInv, SessionInv, SessionTypes, LimitInv, LimitTypes, TravelInv,
         TravelTypes, ViewInv, ViewTypes, SocketInv, SocketTypes, AtRest, RequestsInit
  <2> QED BY <2>1
<1> QED BY <1>1, <1>2, <1>3

LEMMA AuditEverywhere == PartsHold => AuditHolds
<1> SUFFICES ASSUME PartsHold, scenario # "audit" PROVE AuditHolds
  BY AuditProves DEF PartsHold
<1>1. log = <<>> /\ Len(log) = 0
  BY DEF PartsHold, AuditInit
<1>2. \A w \in Workers : ~At(w, "verified") /\ ~At(w, "exported")
  BY StepsOfOne DEF At
<1>3. Chain = <<>>
  BY <1>1 DEF Chain, Ordered
<1>4. Linked(Chain, GENESIS_HASH)
  BY <1>3 DEF Linked
<1> QED BY <1>1, <1>2, <1>4 DEF AuditHolds, AuditChainIntact, ExportComplete

LEMMA AccessEverywhere == PartsHold => AccessHolds
<1> SUFFICES ASSUME PartsHold PROVE AccessHolds
  OBVIOUS
<1>1. OneSessionPerChallenge /\ AdmittedInStanding
  <2>1. CASE scenario = "sessions"
    BY <2>1, SessionProves DEF PartsHold
  <2>2. CASE scenario # "sessions"
    <3>1. sessions = <<>> /\ DOMAIN sessions = {}
      BY <2>2 DEF PartsHold, SessionInit
    <3> QED BY <2>2, <3>1, StepsOfOne DEF OneSessionPerChallenge, AdmittedInStanding
  <2> QED BY <2>1, <2>2
<1>2. WithinLimit
  <2>1. CASE scenario = "limits"
    BY <2>1, LimitProves DEF PartsHold
  <2>2. CASE scenario # "limits"
    <3>1. \A k \in Windows : admitted[k] = 0
      BY <2>2 DEF PartsHold, LimitInit
    <3> QED BY <3>1, LimitAssumption DEF WithinLimit
  <2> QED BY <2>1, <2>2
<1>3. DeliveredInStanding
  <2>1. CASE scenario = "sockets"
    BY <2>1, SocketProves DEF PartsHold
  <2>2. CASE scenario # "sockets"
    BY <2>2, StepsOfOne DEF DeliveredInStanding, At
  <2> QED BY <2>1, <2>2
<1> QED BY <1>1, <1>2, <1>3 DEF AccessHolds

LEMMA FilingsEverywhere == PartsHold => FilingsHold
<1> SUFFICES ASSUME PartsHold PROVE FilingsHold
  OBVIOUS
<1>1. FiledOnce /\ SuspicionReported
  <2>1. CASE scenario = "reports"
    BY <2>1, ReportProves DEF PartsHold
  <2>2. CASE scenario # "reports"
    <3>1. DOMAIN filings = {} /\ \A r \in ReportIds : reports[r].status = "NONE"
      BY <2>2 DEF PartsHold, ReportInit, NoReport
    <3>2. \A w \in Workers : ~At(w, "stored")
      BY <2>2, StepsOfOne DEF At
    <3>3. ASSUME NEW r \in ReportIds
          PROVE  LET ours == {ref \in DOMAIN filings : filings[ref].report = r}
                     entries == {e \in trail : e.event = "submitted" /\ e.report = r}
                 IN ours = {} /\ entries = {}
      BY <2>2, <3>1, EntriesOfOne
    <3>4. Cardinality({}) <= 1
      BY FS_EmptySet
    <3>5. FiledOnce
      BY <3>1, <3>3, <3>4 DEF FiledOnce
    <3> QED BY <3>2, <3>5 DEF SuspicionReported
  <2> QED BY <2>1, <2>2
<1>2. TravelDataAccounted
  <2>1. CASE scenario = "travel"
    BY <2>1, TravelProves DEF PartsHold
  <2>2. CASE scenario # "travel"
    <3>1. /\ Len(sent) = 0 /\ DOMAIN sent = {} /\ record.attempts = 0 /\ payment = "PENDING"
      BY <2>2 DEF PartsHold, TravelInit, NoRecord
    <3> QED BY <3>1 DEF TravelDataAccounted
  <2> QED BY <2>1, <2>2
<1> QED BY <1>1, <1>2 DEF FilingsHold

LEMMA ViewsEverywhere == PartsHold => ViewsTrue
<1> SUFFICES ASSUME PartsHold PROVE ViewsTrue
  OBVIOUS
<1>1. OneBlockPerView
  <2>1. CASE scenario = "views"
    BY <2>1, ViewProves DEF PartsHold
  <2>2. CASE scenario # "views"
    BY <2>2, StepsOfOne DEF OneBlockPerView, At
  <2> QED BY <2>1, <2>2
<1>2. FeedsTrue
  <2>1. CASE scenario = "feeds"
    BY <2>1, FeedProves DEF PartsHold
  <2>2. CASE scenario # "feeds"
    BY <2>2, StepsOfOne, EntriesOfOne DEF FeedsTrue, At
  <2> QED BY <2>1, <2>2
<1>3. NothingSkipped
  BY ListStart, ListProves DEF PartsHold
<1>4. OneLiveSocket
  BY ClientStart, ClientProves DEF PartsHold
<1> QED BY <1>1, <1>2, <1>3, <1>4 DEF ViewsTrue

\* What the deployments promise of each state and of each step.
LEMMA DeploymentsEverywhere ==
    PartsHold => NeverUngoverned /\ OneContractPerToken /\ ReleaseHolds
BY CeremonyStart, CeremonyProves, ProvisionStart, ProvisionProves, ReleaseStart, ReleaseProves DEF PartsHold

LEMMA DeploymentsMove ==
    PartsHold /\ [MCNext /\ UNCHANGED scenario]_allVars => [PublishedTrue]_ceremonyVars
<1> SUFFICES ASSUME PartsHold, [MCNext /\ UNCHANGED scenario]_allVars PROVE [PublishedTrue]_ceremonyVars
  OBVIOUS
<1>1. CASE scenario = "ceremony"
  BY <1>1, PartsMove, ManifestTruthful DEF PartsHold
<1>2. CASE scenario # "ceremony"
  BY <1>2, PartsMove
<1> QED BY <1>1, <1>2

\* What the types ask for besides: the bounds of what only counts, or is read.
BlocksBounded == blocks \in 0..MaxBlocks /\ deep \in 0..Len(mined)

FeedsDated ==
    /\ hour \in 0..LastHour /\ {dataset, digest} \subseteq Datasets
    /\ engine \in [Cells -> Datasets]
    /\ \A w \in Workers : refreshes[w].at \in Read => refreshes[w].data \in Datasets

ClientBounded ==
    /\ timers \in [named : BOOLEAN, stray : 0..MaxStray] /\ attempts \in 0..(MaxReconnects + 1)
    /\ shown \in {"connecting", "connected", "disconnected", "reconnecting"}

BoundsHold ==
    /\ scenario = "views" => BlocksBounded
    /\ scenario = "travel" => signable \in BOOLEAN
    /\ scenario = "feeds" => FeedsDated
    /\ scenario = "client" => ClientBounded
    /\ scenario = "lists" => filter \in Filters
    /\ IF scenario = "registry" THEN RegistryInv ELSE RegistryInit
    /\ IF scenario = "gate" THEN GateInv ELSE GateInit

LEMMA BoundsStart == MCInit => BoundsHold
<1> SUFFICES ASSUME MCInit PROVE BoundsHold
  OBVIOUS
<1>1. BlocksBounded
  BY ViewAssumption DEF MCInit, RequestsInit, ViewInit, BlocksBounded
<1>2. signable \in BOOLEAN
  BY DEF MCInit, TravelInit
<1>3. FeedsDated
  <2>1. First \in Datasets
    BY FeedAssumption DEF First, Datasets
  <2>2. FeedInit
    BY DEF MCInit
  <2> QED BY <2>1, <2>2, FeedAssumption DEF FeedInit, FeedsDated, Cells, NoRefresh, Read
<1>4. ClientBounded
  BY ClientAssumption DEF MCInit, ClientInit, ClientBounded
<1>5. filter \in Filters
  BY ListingAssumption DEF MCInit, ListingInit
<1>6. RegistryInit /\ RegistryInv /\ GateInit /\ GateInv
  BY RegistryInitInv, GateInitInv DEF MCInit
<1> QED BY <1>1, <1>2, <1>3, <1>4, <1>5, <1>6 DEF BoundsHold

LEMMA BlocksStay ==
    ASSUME ViewInv, BlocksBounded, [ViewNext]_<<shared, blocks>>
    PROVE  BlocksBounded'
<1>0. mined \in Seq(Nat) /\ Len(mined) \in Nat /\ blocks \in 0..MaxBlocks /\ deep \in 0..Len(mined)
  BY DEF ViewInv, ViewTypes, BlocksBounded
<1>1. CASE NewBlock
  <2>1. /\ blocks < MaxBlocks /\ blocks' = blocks + 1 /\ deep' = deep
        /\ mined' = Append(mined, blocks + 1)
    BY <1>1 DEF NewBlock, Mine
  <2>2. Len(mined') = Len(mined) + 1
    BY <1>0, <2>1
  <2> QED BY <1>0, <2>1, <2>2, ViewAssumption DEF BlocksBounded
<1>2. CASE Replace
  <2>1. UNCHANGED <<deep, blocks>>
    BY <1>2 DEF Replace
  <2>2. PICK keep \in deep..(Len(mined) - 1) : mined' = SubSeq(mined, 1, keep)
    BY <1>2 DEF Replace, DropUnconfirmed
  <2>3. Len(mined') = keep
    BY <1>0, <2>2, SubSeqProperties
  <2> QED BY <1>0, <2>1, <2>2, <2>3 DEF BlocksBounded
<1>3. CASE Confirm /\ UNCHANGED blocks
  BY <1>0, <1>3 DEF Confirm, BlocksBounded
<1>4. CASE RequestStep /\ UNCHANGED blocks
  BY <1>0, <1>4 DEF RequestStep, Audit, Fail, Done, BlocksBounded
<1>5. CASE \E w \in Workers : OpenView(w) \/ Answer(w) \/ \E c \in Head(req[w].calls) : Call(w, c)
  BY <1>0, <1>5 DEF OpenView, Answer, Call, BlocksBounded
<1>6. CASE UNCHANGED <<shared, blocks>>
  BY <1>0, <1>6 DEF shared, BlocksBounded
<1> QED BY <1>1, <1>2, <1>3, <1>4, <1>5, <1>6 DEF ViewNext

LEMMA FeedsStay ==
    ASSUME FeedInv, FeedsDated, [FeedNext]_<<shared, feedVars>>
    PROVE  FeedsDated'
<1>0. /\ hour \in 0..LastHour /\ LastHour \in Nat /\ dataset \in Datasets /\ digest \in Datasets
      /\ engine \in [Cells -> Datasets] /\ refreshes \in [Workers -> RefreshHeld]
      /\ \A w \in Workers : refreshes[w].at \in Read => refreshes[w].data \in Datasets
  BY FeedAssumption DEF FeedsDated, FeedInv, FeedTypes
<1>1. ASSUME NEW w \in Workers, NEW f, refreshes' = [refreshes EXCEPT ![w] = f],
             f.at \in Read => f.data \in Datasets, UNCHANGED <<hour, dataset, digest>>,
             engine' \in [Cells -> Datasets]
      PROVE  FeedsDated'
  <2>1. \A v \in Workers : refreshes'[v] = IF v = w THEN f ELSE refreshes[v]
    BY <1>0, <1>1
  <2> QED BY <1>0, <1>1, <2>1 DEF FeedsDated
<1>2. CASE HourPasses \/ PublishFile \/ PublishDigest
  <2>1. hour' \in 0..LastHour /\ dataset' \in Datasets /\ digest' \in Datasets
    <3>1. CASE HourPasses
      BY <1>0, <3>1 DEF HourPasses
    <3>2. CASE PublishFile
      BY <1>0, <3>2 DEF PublishFile, Datasets
    <3>3. CASE PublishDigest
      BY <1>0, <3>3 DEF PublishDigest
    <3> QED BY <1>2, <3>1, <3>2, <3>3
  <2>2. UNCHANGED <<engine, refreshes>>
    BY <1>2 DEF HourPasses, PublishFile, PublishDigest
  <2> QED BY <1>0, <2>1, <2>2 DEF FeedsDated
<1>3. CASE RestartService
  <2>1. engine' \in [Cells -> Datasets] /\ \A w \in Workers : refreshes'[w] = NoRefresh
    BY <1>0, <1>3 DEF RestartService
  <2> QED BY <1>0, <1>3, <2>1 DEF RestartService, FeedsDated, NoRefresh, Read
<1>4. ASSUME NEW w \in Workers, ReadDataset(w) \/ CheckDataset(w)
      PROVE  FeedsDated'
  <2>1. CASE ReadDataset(w)
    BY <1>0, <1>1, <2>1 DEF ReadDataset, Refresh
  <2>2. CASE CheckDataset(w)
    <3>1. refreshes[w].at = "check" /\ refreshes[w] \in Running
      BY <2>2, FeedRequest DEF CheckDataset, Lives, Read
    <3> DEFINE f == IF Loadable(refreshes[w].data) THEN [refreshes[w] EXCEPT !.at = "lists"]
                    ELSE [at |-> "refused"]
    <3>2. f.at \in Read => f.data \in Datasets
      BY <1>0, <3>1 DEF Running, Read
    <3>3. refreshes' = [refreshes EXCEPT ![w] = f] /\ UNCHANGED <<hour, dataset, digest, engine>>
      BY <2>2 DEF CheckDataset, Refresh
    <3> HIDE DEF f
    <3> QED BY <1>0, <1>1, <3>2, <3>3
  <2> QED BY <1>4, <2>1, <2>2
<1>5. ASSUME NEW w \in Workers, PublishCell(w)
      PROVE  FeedsDated'
  <2>1. PICK cell \in DOMAIN engine :
          /\ Lives(w, cell)
          /\ engine' = [engine EXCEPT ![cell] = refreshes[w].data]
          /\ Refresh(w, [refreshes[w] EXCEPT
                 !.at = CASE cell = "lists" -> "stamps" [] cell = "stamps" -> "metadata"
                          [] cell = "metadata" -> "acknowledged"])
    BY <1>5 DEF PublishCell
  <2> DEFINE f == [refreshes[w] EXCEPT
                 !.at = CASE cell = "lists" -> "stamps" [] cell = "stamps" -> "metadata"
                          [] cell = "metadata" -> "acknowledged"]
  <2>2. cell \in Cells /\ refreshes[w].at \in Read /\ refreshes[w] \in Running
    BY <1>0, <2>1, FeedRequest DEF Lives, Cells, Read
  <2>3. refreshes[w].data \in Datasets /\ f.data = refreshes[w].data
    BY <1>0, <2>2 DEF Running
  <2>4. refreshes' = [refreshes EXCEPT ![w] = f] /\ UNCHANGED <<hour, dataset, digest>>
    BY <2>1 DEF Refresh
  <2> HIDE DEF f
  <2>5. engine' \in [Cells -> Datasets]
    BY <1>0, <2>1, <2>2, <2>3
  <2> QED BY <1>1, <2>3, <2>4, <2>5
<1>6. ASSUME NEW w \in Workers, AskUpdate(w) \/ Acknowledged(w)
      PROVE  FeedsDated'
  BY <1>0, <1>1, <1>6 DEF AskUpdate, Acknowledged, Keep, NoRefresh, Read
<1>7. CASE \E w \in Workers : HealthStamps(w) \/ HealthMetadata(w) \/ Judge(w) \/ AskReadiness(w)
                              \/ Settled(w) \/ AskRates(w) \/ RatesArrive(w)
  <2>1. UNCHANGED feedVars
    BY <1>7 DEF HealthStamps, HealthMetadata, Judge, AskReadiness, Settled, AskRates, RatesArrive
  <2> QED BY <1>0, <2>1 DEF feedVars, FeedsDated
<1>8. CASE (RequestStep /\ UNCHANGED feedVars) \/ UNCHANGED <<shared, feedVars>>
  BY <1>0, <1>8 DEF feedVars, FeedsDated
<1> QED BY <1>2, <1>3, <1>4, <1>5, <1>6, <1>7, <1>8 DEF FeedNext

LEMMA ClientStays ==
    ASSUME ClientBounded, [ClientNext]_clientVars
    PROVE  ClientBounded'
<1> DEFINE Timers == [named : BOOLEAN, stray : 0..MaxStray]
           Shown == {"connecting", "connected", "disconnected", "reconnecting"}
<1>0. /\ timers \in Timers /\ attempts \in 0..(MaxReconnects + 1) /\ shown \in Shown
      /\ MaxStray \in Nat /\ MaxReconnects \in Nat
  BY ClientAssumption DEF ClientBounded
<1>1. \A t \in Timers : NoTimer(t) \in Timers /\ [t EXCEPT !.named = TRUE] \in Timers
  BY DEF NoTimer
<1>2. ASSUME timers' \in Timers, attempts' \in 0..(MaxReconnects + 1), shown' \in Shown
      PROVE  ClientBounded'
  BY <1>2 DEF ClientBounded
<1>3. ASSUME NEW cur, NEW lines, NEW beat, NEW left \in Timers, connect(cur, lines, beat, left)
      PROVE  ClientBounded'
  <2>1. timers' \in {left, NoTimer(left)} /\ attempts' = attempts
        /\ shown' \in {shown, "reconnecting", "connecting"}
    BY <1>3 DEF connect
  <2> HIDE DEF Timers
  <2> QED BY <1>0, <1>1, <1>2, <1>3, <2>1
<1>4. CASE Mount
  <2>1. NoTimer(timers) \in Timers
    BY <1>0, <1>1
  <2> HIDE DEF Timers
  <2> QED BY <1>3, <1>4, <2>1 DEF Mount
<1>5. CASE TimerFires
  <2>1. PICK left \in (IF timers.named THEN {NoTimer(timers)} ELSE {})
                      \cup (IF timers.stray > 0 THEN {[timers EXCEPT !.stray = @ - 1]} ELSE {}) :
           IF mounted THEN connect(current, line, heartbeat, left)
           ELSE timers' = left /\ UNCHANGED <<attempts, shown>>
    BY <1>5 DEF TimerFires
  <2>2. [timers EXCEPT !.stray = @ - 1] \in Timers \/ ~(timers.stray > 0)
    BY <1>0
  <2>3. left \in Timers
    <3>1. NoTimer(timers) \in Timers
      BY <1>0, <1>1
    <3> HIDE DEF Timers
    <3> QED BY <2>1, <2>2, <3>1
  <2> HIDE DEF Timers
  <2> QED BY <1>0, <1>2, <1>3, <2>1, <2>3
<1>6. CASE Unmount \/ disconnect \/ reconnect
  <2>1. timers' \in {NoTimer(timers), [timers EXCEPT !.named = TRUE]}
        /\ attempts' \in {0, attempts} /\ shown' \in {shown, "disconnected"}
    BY <1>6 DEF Unmount, disconnect, reconnect, HangUp
  <2>2. NoTimer(timers) \in Timers /\ [timers EXCEPT !.named = TRUE] \in Timers
    BY <1>0, <1>1
  <2>3. attempts' \in 0..(MaxReconnects + 1)
    BY <1>0, <2>1
  <2> HIDE DEF Timers
  <2> QED BY <1>0, <1>2, <2>1, <2>2, <2>3
<1>7. ASSUME NEW s \in Lines, OnClose(s)
      PROVE  ClientBounded'
  <2>1. /\ attempts' \in {attempts} \cup {a \in {attempts + 1} : ~(attempts > MaxReconnects)}
        /\ shown' \in {"disconnected", "reconnecting"}
        /\ timers' \in {timers, Named(timers)} /\ timers'.stray <= MaxStray
    BY <1>7 DEF OnClose
  <2>2. attempts' \in 0..(MaxReconnects + 1)
    BY <1>0, <2>1
  <2>3. timers' \in Timers
    <3>1. timers.stray \in 0..MaxStray /\ timers.stray + 0 = timers.stray
          /\ timers.stray + (IF timers.named THEN 1 ELSE 0) \in Nat
      BY <1>0
    <3>2. Named(timers).stray <= MaxStray => Named(timers) \in Timers
      BY <1>0, <3>1 DEF Named
    <3> HIDE DEF Timers
    <3>3. CASE timers' = Named(timers)
      BY <2>1, <3>2, <3>3
    <3> QED BY <1>0, <2>1, <3>3
  <2> HIDE DEF Timers
  <2> QED BY <1>2, <2>1, <2>2, <2>3
<1>8. ASSUME NEW s \in Lines, OnOpen(s) \/ Breaks(s)
      PROVE  ClientBounded'
  <2>1. timers' = timers /\ attempts' \in {0, attempts} /\ shown' \in {shown, "connected"}
    BY <1>8 DEF OnOpen, Breaks
  <2>2. attempts' \in 0..(MaxReconnects + 1)
    BY <1>0, <2>1
  <2> HIDE DEF Timers
  <2> QED BY <1>0, <1>2, <2>1, <2>2
<1>9. CASE (\E c \in Channels, f \in Callbacks : subscribe(c, f) \/ unsubscribe(c, f))
           \/ UNCHANGED clientVars
  <2>1. UNCHANGED <<timers, attempts, shown>>
    BY <1>9 DEF subscribe, unsubscribe, Quietly, clientVars, socketState
  <2> QED BY <2>1 DEF ClientBounded
<1> QED BY <1>4, <1>5, <1>6, <1>7, <1>8, <1>9 DEF ClientNext

LEMMA FilterStays ==
    ASSUME filter \in Filters, [ListingNext]_listingVars
    PROVE  filter' \in Filters
BY DEF ListingNext, AddRow, MoveRow, Choose, ReadRows, CountRows, ShowPage, Turn, Refetch, listingVars

\* The chain is the views' alone.
LEMMA ChainAtRest == PartsHold => scenario = "views" \/ (mined = <<>> /\ deep = 0)
<1> SUFFICES ASSUME PartsHold, scenario # "views" PROVE mined = <<>> /\ deep = 0
  OBVIOUS
<1>1. CASE scenario \notin Serving
  BY <1>1 DEF PartsHold, RequestsInit
<1>2. CASE scenario \in Serving
  BY <1>2 DEF PartsHold, Serving, AuditInv, SessionInv, SessionTypes, LimitInv, LimitTypes,
       TravelInv, TravelTypes, SocketInv, SocketTypes, ReportInv, ReportTypes, FeedInv, FeedTypes, AtRest
<1> QED BY <1>1, <1>2

LEMMA BoundsStep ==
    PartsHold /\ BoundsHold /\ [MCNext /\ UNCHANGED scenario]_allVars => BoundsHold'
<1> SUFFICES ASSUME PartsHold, BoundsHold, [MCNext /\ UNCHANGED scenario]_allVars PROVE BoundsHold'
  OBVIOUS
<1>1. scenario' = scenario
  BY PartsMove
<1>2. scenario = "views" => BlocksBounded'
  BY BlocksStay, PartsMove DEF PartsHold, BoundsHold
<1>3. scenario = "travel" => signable' \in BOOLEAN
  <2>1. CASE scenario = "travel"
    <3>1. [TravelNext]_<<shared, travelVars>> /\ signable \in BOOLEAN
      BY <2>1, PartsMove DEF BoundsHold
    <3>2. signable' = signable \/ signable' = FALSE
      BY <3>1 DEF TravelNext, ServiceMoves, WalletRotates, CancelMirrored, FormExpires, CreateChallenge,
           Authorize, CheckWallet, BindData, Screen, LoadAuthorizedPayload, RecordOutboundAttempt,
           Send, StoreAnswer, CommitScreening, travelVars
    <3> QED BY <3>1, <3>2
  <2> QED BY <2>1
<1>4. scenario = "feeds" => FeedsDated'
  BY FeedsStay, PartsMove DEF PartsHold, BoundsHold
<1>5. scenario = "client" => ClientBounded'
  BY ClientStays, PartsMove DEF BoundsHold
<1>6. scenario = "lists" => filter' \in Filters
  BY FilterStays, PartsMove DEF BoundsHold
<1>7. IF scenario = "registry" THEN [RegistryNext]_registryVars ELSE UNCHANGED registryVars
  <2>1. CASE UNCHANGED allVars
    <3>1. UNCHANGED registryVars
      BY <2>1 DEF allVars, services
    <3> QED BY <3>1
  <2>2. CASE MCNext
    BY <2>2 DEF MCNext, RegistryStep, RegistryNext
  <2> QED BY <2>1, <2>2
<1>8. IF scenario = "gate" THEN [GateCall]_gateVars ELSE UNCHANGED gateVars
  <2>1. CASE UNCHANGED allVars
    <3>1. UNCHANGED gateVars
      BY <2>1 DEF allVars, services
    <3> QED BY <3>1
  <2>2. CASE MCNext
    BY <2>2 DEF MCNext
  <2> QED BY <2>1, <2>2
<1>9. IF scenario = "registry" THEN RegistryInv' ELSE RegistryInit'
  BY <1>7, RegistryStepInv DEF BoundsHold, RegistryInit, registryVars
<1>10. IF scenario = "gate" THEN GateInv' ELSE GateInit'
  BY <1>8, GateStepInv DEF BoundsHold, GateInit, gateVars
<1> QED BY <1>1, <1>2, <1>3, <1>4, <1>5, <1>6, <1>9, <1>10 DEF BoundsHold

LEMMA TypesEverywhere == PartsHold /\ BoundsHold => TypesOK
<1> SUFFICES ASSUME PartsHold, BoundsHold PROVE TypesOK
  OBVIOUS
<1>1. RequestsTypeOK
  <2>1. DOMAIN req = Workers
    <3>1. CASE scenario \notin Serving
      BY <3>1 DEF PartsHold, RequestsInit
    <3>2. CASE scenario \in Serving
      BY <3>2 DEF PartsHold, Serving, AuditInv, SessionInv, SessionTypes, LimitInv, LimitTypes,
           TravelInv, TravelTypes, SocketInv, SocketTypes, ReportInv, ReportTypes, FeedInv, FeedTypes,
           ViewInv, ViewTypes
    <3> QED BY <3>1, <3>2
  <2>2. deep \in 0..Len(mined)
    BY ChainAtRest DEF BoundsHold, BlocksBounded
  <2> QED BY <2>1, <2>2 DEF RequestsTypeOK
<1>2. scenario = "audit" => AuditTypeOK
  <2> SUFFICES ASSUME scenario = "audit", NEW i \in 1..Len(log)
               PROVE  log[i] = Entry(i, log[i].previous, log[i].createdAt)
    BY DEF AuditTypeOK
  <2>1. log[i] \in AuditRow /\ log[i].hash = i
    BY DEF PartsHold, AuditInv, Chained, Increasing
  <2> QED BY <2>1 DEF AuditRow, Entry
<1>3. scenario = "sessions" => SessionTypeOK
  BY DEF PartsHold, SessionInv, SessionTypes
<1>4. scenario = "limits" => LimitTypeOK
  BY DEF PartsHold, LimitInv, LimitTypes
<1>5. scenario = "travel" => TravelTypeOK
  <2> SUFFICES ASSUME scenario = "travel" PROVE TravelTypeOK
    OBVIOUS
  <2>1. TravelTypes /\ signable \in BOOLEAN
    BY DEF PartsHold, TravelInv, BoundsHold
  <2>2. \A c \in Forms : forms[c] # NoForm => forms[c].data \in TravelData
    BY <2>1 DEF TravelTypes, FormRow
  <2>3. record.attempts \in 0..MaxAttempts
    BY <2>1, TravelAssumption DEF TravelTypes, RecordRow, NoRecord
  <2> QED BY <2>1, <2>2, <2>3 DEF TravelTypes, TravelTypeOK
<1>6. scenario = "views" => ViewTypeOK
  BY DEF BoundsHold, BlocksBounded, ViewTypeOK
<1>7. scenario = "sockets" => SocketTypeOK
  BY DEF PartsHold, SocketInv, SocketTypes
<1>8. scenario = "reports" => ReportTypeOK
  <2> SUFFICES ASSUME scenario = "reports" PROVE ReportTypeOK
    OBVIOUS
  <2>1. ReportTypes
    BY DEF PartsHold, ReportInv
  <2>2. Totals \subseteq 0..Cardinality(Period)
    <3>1. \A S \in SUBSET Period : Cardinality(S) \in Nat /\ Cardinality(S) <= Cardinality(Period)
      BY ReportAssumption, FS_Subset, FS_CardinalityType
    <3>2. Cardinality(Period) \in Nat
      BY ReportAssumption, FS_CardinalityType
    <3> QED BY <3>1, <3>2 DEF Totals
  <2>3. \A r \in ReportRow : r \in [status : {"NONE", "GENERATED", "SUBMITTED", "ACKNOWLEDGED"},
            listed : SUBSET Period, flagged : 0..Cardinality(Period), ref : References \cup {"none"}]
    BY <2>2 DEF ReportRow, FilingStates
  <2> QED BY <2>1, <2>3 DEF ReportTypes, ReportTypeOK, PaymentRow, PaymentStates
<1>9. scenario = "ceremony" => CeremonyTypeOK
  BY DEF PartsHold, CeremonyInv, CeremonyTypes, CeremonyTypeOK
<1>10. scenario = "provisioning" => ProvisionTypeOK
  BY DEF PartsHold, ProvisionInv, ProvisionTypes, ProvisionTypeOK, TokenRow
<1>11. scenario = "client" => ClientTypeOK
  BY DEF PartsHold, BoundsHold, ClientInv, ClientTypes, LineStates, ClientBounded, ClientTypeOK
<1>12. scenario = "feeds" => FeedTypeOK
  BY DEF BoundsHold, FeedsDated, FeedTypeOK, Cells
<1>13. scenario = "lists" => ListingTypeOK
  BY DEF PartsHold, BoundsHold, ListInv, ListTypes, ListingTypeOK, Present
<1>14. scenario = "release" => ReleaseTypeOK
  <2> SUFFICES ASSUME scenario = "release" PROVE ReleaseTypeOK
    OBVIOUS
  <2>1. ReleaseInv
    BY DEF PartsHold
  <2>2. \A e \in EnvFile : e.origin \in {"exact", "slash", "none"}
                           /\ \A s \in DOMAIN OperatorSettings : e[s] \in OperatorSettings[s]
    BY DEF EnvFile, OperatorSettings
  <2> QED BY <2>1, <2>2 DEF ReleaseInv, ReleaseTypeOK, ReleaseValues
<1>15. scenario = "registry" => RegistryTypeOK
  BY DEF BoundsHold, RegistryInv
<1>16. scenario = "gate" => GateTypeOK
  BY DEF BoundsHold, GateInv
<1> QED BY <1>1, <1>2, <1>3, <1>4, <1>5, <1>6, <1>7, <1>8, <1>9, <1>10, <1>11, <1>12, <1>13, <1>14,
           <1>15, <1>16 DEF TypesOK

\* Whatever the part exercised does, each part keeps its invariant, and the parts
\* at rest their initial state.
THEOREM PartsInvariant == MCSpec => []PartsHold
BY PartsStart, PartsStep, PTL DEF MCSpec

\* Rows, caches, sockets, checkpoint files, settings and the storage of the two
\* contracts hold values of their types, and what is bounded stays in its bound.
THEOREM TypesTheorem == MCSpec => []TypesOK
<1>1. MCInit => PartsHold /\ BoundsHold
  BY PartsStart, BoundsStart
<1>2. PartsHold /\ BoundsHold /\ [MCNext /\ UNCHANGED scenario]_allVars => (PartsHold /\ BoundsHold)'
  BY PartsStep, BoundsStep
<1> QED BY <1>1, <1>2, TypesEverywhere, PTL DEF MCSpec

\* While tenants' requests append from processes with clocks of their own,
\* verify the chain and export it by pages, the audit trail stays one chain, no
\* verification reports a break, and a delivered export has no gap
\* (services/audit.ts:createAuditEntry, verifyChainIntegrity, exportAuditLog).
THEOREM AuditTheorem == MCSpec => []AuditHolds
BY PartsInvariant, AuditEverywhere, PTL

\* One session per challenge, requests served only in the standing their wallet
\* has when looked at, no caller over its rate limit, and events only to sockets
\* of businesses in standing (routes/auth.ts, middleware/auth.ts and rbac.ts,
\* services/websocket.ts), whatever requests, expiries and suspensions do.
THEOREM AccessTheorem == MCSpec => []AccessHolds
BY PartsInvariant, AccessEverywhere, PTL

\* A report is filed once however often it is sent, every suspicion known when
\* it was made is in it, and every transmission of travel-rule data is of the
\* recorded data to the recorded destination (services/reporting.ts, travel-rule.ts).
THEOREM FilingsTheorem == MCSpec => []FilingsHold
BY PartsInvariant, FilingsEverywhere, PTL

\* A view's values are of one block, an accepted feed is whole and fresh, a list
\* read to its last page skips no row, and the page talks over one socket
\* (lib/strict-block-rpc.ts, services/compliance.ts, fx.ts, readiness.ts and
\* payment.ts, useWebSocket.ts).
THEOREM ViewsTheorem == MCSpec => []ViewsTrue
BY PartsInvariant, ViewsEverywhere, PTL

\* However the scripts that deploy stop and are run again, over reorganisations:
\* a published manifest is true of every block from the one it names, no contract
\* is without an account that governs it, a token has one contract, and the checks
\* of a release agree (scripts/deploy-devnet-core.mjs, provision-testnet-tokens.mjs
\* and validate-production-config.mjs).
THEOREM DeploymentsTheorem == MCSpec => DeploymentsHold
<1>1. PartsHold => NeverUngoverned /\ OneContractPerToken /\ ReleaseHolds
  BY DeploymentsEverywhere
<1>2. PartsHold /\ [MCNext /\ UNCHANGED scenario]_allVars => [PublishedTrue]_ceremonyVars
  BY DeploymentsMove
<1>3. MCSpec => [][PublishedTrue]_ceremonyVars
  BY <1>2, PartsInvariant, PTL DEF MCSpec
<1>4. MCSpec => []NeverUngoverned /\ []OneContractPerToken
  BY <1>1, PartsInvariant, PTL
<1>5. MCSpec => [][ReleaseHolds']_releaseVars
  BY <1>1, PartsInvariant, PTL
<1> QED BY <1>3, <1>4, <1>5, PTL DEF DeploymentsHold, ManifestTrue
=============================================================================
