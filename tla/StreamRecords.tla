--------------------------- MODULE StreamRecords ---------------------------
(***************************************************************************)
(* The backend's rows of one payment stream (services/streaming.ts), kept  *)
(* from receipts of StreamingPayments (services/streaming-execution.ts),   *)
(* and the balance the API computes from them.  The stream starts at time  *)
(* 0 and streams Rate a second for Duration seconds; Dust is what division *)
(* leaves over.  The caller sends the contract's amounts when it creates   *)
(* the row: the code compares only the parties.                            *)
(***************************************************************************)
EXTENDS Requests, Integers, FiniteSetsExt

CONSTANTS
    Streams,            \* rows of PaymentStream for this one stream
    Duration, Rate, Dust, Cliff,
    Horizon             \* bound: the clock stops here

ASSUME StreamAssumption ==
    /\ {Duration, Rate} \subseteq Nat \ {0}
    /\ {Dust, Cliff, Horizon} \subseteq Nat /\ Cliff < Duration

Total == Rate * Duration + Dust

VARIABLES
    clock,
    streams             \* the rows

streamVars == <<clock, streams>>

NoTime == -1
Never == [status |-> "NONE", withdrawn |-> 0, pausedAt |-> NoTime, paused |-> 0,
          end |-> 0, cliff |-> 0]
NoStream == [status |-> "NONE", pausedAt |-> NoTime, paused |-> 0, withdrawn |-> 0]
StreamStatus == {"NONE", "ACTIVE", "PAUSED", "CANCELLED", "COMPLETED"}

StreamInit == clock = 0 /\ streams = [r \in Streams |-> NoStream]

StreamTypeOK ==
    /\ clock \in 0..Horizon
    /\ streams \in [Streams -> [status : StreamStatus, pausedAt : {NoTime} \cup 0..Horizon,
                                paused : 0..Horizon, withdrawn : 0..Total]]

Tick == clock < Horizon /\ clock' = clock + 1 /\ UNCHANGED <<shared, streams>>

----------------------------------------------------------------------------
(* The contract.  A transaction keeps its events, its time and the stream   *)
(* it leaves, so the stream at the head is the last transaction's.          *)

OnChain == IF mined = <<>> THEN Never ELSE mined[Len(mined)].stream

\* A transaction emits events and leaves the stream at s.
Transact(events, s) ==
    /\ Mine([events |-> events, at |-> clock, stream |-> s])
    /\ UNCHANGED streamVars

\* _effectiveElapsed and the earned part of _withdrawableBalance
Elapsed(s) == Max({0, (IF s.status = "PAUSED" THEN s.pausedAt ELSE clock) - s.paused})
Earned(s) == IF Elapsed(s) >= s.end - s.paused THEN Total
             ELSE Min({Total, Rate * Elapsed(s)})

\* Mutant: what was withdrawn before is paid again
WithdrawableAgain(s) ==
    IF s.status \in {"CANCELLED", "COMPLETED"} \/ clock < s.cliff THEN 0 ELSE Earned(s)

Withdrawable(s) ==
    IF s.status \in {"CANCELLED", "COMPLETED"} \/ clock < s.cliff THEN 0
    ELSE Max({0, Earned(s) - s.withdrawn})

OpenStream ==
    /\ OnChain = Never /\ clock = 0
    /\ Transact({"CREATED"}, [Never EXCEPT !.status = "ACTIVE", !.end = Duration, !.cliff = Cliff])

PauseOnChain ==
    /\ OnChain.status = "ACTIVE"
    /\ Transact({"PAUSED"}, [OnChain EXCEPT !.status = "PAUSED", !.pausedAt = clock])

ResumeOnChain ==
    /\ OnChain.status = "PAUSED"
    /\ LET d == clock - OnChain.pausedAt IN
       Transact({"RESUMED"}, [OnChain EXCEPT !.status = "ACTIVE", !.pausedAt = NoTime,
                                             !.paused = @ + d, !.end = @ + d, !.cliff = @ + d])

CancelOnChain ==
    /\ OnChain.status \in {"ACTIVE", "PAUSED"}
    /\ Transact({"CANCELLED"}, [OnChain EXCEPT !.status = "CANCELLED"])

Withdraw ==
    /\ OnChain.status = "ACTIVE" /\ clock >= OnChain.cliff /\ Withdrawable(OnChain) > 0
    /\ LET taken == OnChain.withdrawn + Withdrawable(OnChain) IN
       IF taken >= Total
       THEN Transact({"WITHDRAWN", "COMPLETED"},
                     [OnChain EXCEPT !.withdrawn = taken, !.status = "COMPLETED"])
       ELSE Transact({"WITHDRAWN"}, [OnChain EXCEPT !.withdrawn = taken])

StreamContractStep ==
    OpenStream \/ PauseOnChain \/ ResumeOnChain \/ CancelOnChain \/ Withdraw

----------------------------------------------------------------------------
(* The balance of the API.  endTime and cliffEnd of a row are those of the  *)
(* creation for ever: no handler writes them again.                         *)

EffectiveTime(row) ==
    IF row.status \in {"PAUSED", "CANCELLED"} /\ row.pausedAt # NoTime THEN row.pausedAt
    ELSE Min({clock, Duration})

TotalSeconds(row) == Max({0, Duration - row.paused})
ElapsedSeconds(row) == Max({0, Min({TotalSeconds(row), EffectiveTime(row) - row.paused})})
\* Mutant: pause time is subtracted from the total alone
StreamedPauseIgnored(row) ==
    Min({Total, Rate * Max({0, Min({TotalSeconds(row), EffectiveTime(row)})})})

Streamed(row) == Min({Total, Rate * ElapsedSeconds(row)})

CalculateBalance(row) ==
    [streamed |-> Streamed(row),
     withdrawable |-> IF clock < Cliff THEN 0 ELSE Max({0, Streamed(row) - row.withdrawn})]

----------------------------------------------------------------------------
(* Verification: a confirmed receipt with the event, and the stream as the  *)
(* contract has it now.                                                     *)

StreamReceipts(kind) == {i \in Canonical : kind \in mined[i].events}

VerifyStreamCreation == StreamReceipts("CREATED") # {} /\ OnChain # Never
VerifyWithdrawal == StreamReceipts("WITHDRAWN") # {} /\ OnChain # Never

TerminalStatus(kind) == IF kind = "RESUMED" THEN "ACTIVE" ELSE kind
Transitions == {"PAUSED", "RESUMED", "CANCELLED", "COMPLETED"}

\* Mutant: the contract's present status is not compared with the transition
TransitionByEvent(i, kind) == i \in StreamReceipts(kind)

VerifyStreamTransition(i, kind) ==
    i \in StreamReceipts(kind) /\ OnChain.status = TerminalStatus(kind)

----------------------------------------------------------------------------
(* Handlers. *)

\* The look-up by onChainStreamId, which no unique index backs.
CreateStream(w) ==
    /\ req[w] = Idle /\ \A r \in Streams : streams[r].status = "NONE"
    /\ VerifyStreamCreation
    /\ Goto(w, [at |-> "create stream"])
    /\ UNCHANGED <<mined, deep, trail, streamVars>>

InsertStream(w, r) ==
    /\ At(w, "create stream") /\ streams[r].status = "NONE"
    /\ streams' = [streams EXCEPT ![r] = [NoStream EXCEPT !.status = "ACTIVE"]]
    /\ Goto(w, [at |-> "audit", entry |-> [event |-> "stream created", row |-> r]])
    /\ UNCHANGED <<mined, deep, trail, clock>>

\* pauseStream, resumeStream, cancelStream, completeStream
ApplyTransition(w, r, kind) ==
    /\ req[w] = Idle /\ streams[r].status # "NONE"
    /\ \E i \in Canonical :
          /\ VerifyStreamTransition(i, kind)
          /\ Goto(w, [at |-> "store transition", row |-> r, status |-> OnChain.status,
                      pausedAt |-> IF kind = "PAUSED" THEN mined[i].at ELSE NoTime,
                      paused |-> OnChain.paused])
    /\ UNCHANGED <<mined, deep, trail, streamVars>>

StoreTransition(w) ==
    /\ At(w, "store transition")
    /\ LET h == req[w] IN
       /\ streams' = [streams EXCEPT ![h.row].status = h.status,
                                     ![h.row].pausedAt = h.pausedAt,
                                     ![h.row].paused = h.paused]
       /\ Goto(w, [at |-> "audit", entry |-> [event |-> "stream moved", row |-> h.row]])
    /\ UNCHANGED <<mined, deep, trail, clock>>

RecordWithdrawal(w, r) ==
    /\ req[w] = Idle /\ streams[r].status # "NONE"
    /\ VerifyWithdrawal
    /\ Goto(w, [at |-> "store withdrawal", row |-> r, withdrawn |-> OnChain.withdrawn])
    /\ UNCHANGED <<mined, deep, trail, streamVars>>

StoreWithdrawal(w) ==
    /\ At(w, "store withdrawal")
    /\ LET h == req[w] IN
       /\ streams' = [streams EXCEPT ![h.row].withdrawn = h.withdrawn]
       /\ Goto(w, [at |-> "audit", entry |-> [event |-> "stream withdrawn", row |-> h.row]])
    /\ UNCHANGED <<mined, deep, trail, clock>>

StreamNext ==
    \/ Tick \/ StreamContractStep
    \/ \E w \in Workers :
          \/ CreateStream(w) \/ StoreTransition(w) \/ StoreWithdrawal(w)
          \/ \E r \in Streams :
                \/ InsertStream(w, r) \/ RecordWithdrawal(w, r)
                \/ \E kind \in Transitions : ApplyTransition(w, r, kind)
    \/ (RequestStep \/ ChainStep) /\ UNCHANGED streamVars

----------------------------------------------------------------------------
(* Properties. *)

\* A row agrees with the contract on the state of an open stream.
InStep(row) ==
    /\ row.status \in {"ACTIVE", "PAUSED"} /\ row.status = OnChain.status
    /\ row.paused = OnChain.paused

\* While a row agrees with the contract, the API never reports the stream as
\* further along than the contract, or more of it as due once the contract's
\* cliff is over: not after a replayed or out-of-order receipt, nor with the
\* time of an older pause.
NeverOverstated ==
    \A r \in Streams : InStep(streams[r]) =>
        LET balance == CalculateBalance(streams[r]) IN
        /\ balance.streamed <= Earned(OnChain)
        /\ streams[r].withdrawn = OnChain.withdrawn /\ clock >= OnChain.cliff =>
              balance.withdrawable <= Withdrawable(OnChain)

\* What the comment of calculateBalance says: pauses count exactly as in the
\* contract.  Violated for a running stream that was paused before: resumeStream
\* moves endTime on, and the row keeps the old one.
PausesAsContract ==
    \A r \in Streams : InStep(streams[r]) /\ streams[r].status = "ACTIVE" =>
        Streamed(streams[r]) = Earned(OnChain)
=============================================================================
