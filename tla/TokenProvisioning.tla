------------------------- MODULE TokenProvisioning -------------------------
(***************************************************************************)
(* The ceremony that gives a testnet its two tokens                        *)
(* (scripts/provision-testnet-tokens.mjs): each is adopted, if one exists, *)
(* or deployed by the provisioner's account.  A run goes token by token    *)
(* through a checkpoint file and may end anywhere; the next one starts     *)
(* from the file.  A lock file keeps two runs apart; what a run does       *)
(* between reading the file and taking the lock awaits nothing and is one  *)
(* step here.  The account may be used elsewhere at the same time.         *)
(* Nonces count from 1, and a contract is named by the nonce that creates  *)
(* it; a transaction of the account is a block of its own.                 *)
(***************************************************************************)
EXTENDS Naturals, Sequences

CONSTANTS
    MaxNonce,       \* bound: transactions of the account
    MaxReplaced     \* bound: blocks replaced

ASSUME ProvisionAssumption == {MaxNonce, MaxReplaced} \subseteq Nat

VARIABLES
    testnet,    \* the chain: what transaction n of the account was, in which fork
    mempool,    \* the transactions sent and not mined, by nonce
    replaced,   \* how many blocks were replaced
    existing,   \* the tokens the operator has an address for
    file,       \* the checkpoint file: a record per token
    locked,     \* the lock file
    ceremony,   \* the run: its step, its token, its copy of the checkpoint
    published   \* the manifest: the records it was made from, or none

provisionVars == <<testnet, mempool, replaced, existing, file, locked, ceremony, published>>

Symbols == <<"USDC", "USDT">>
Tokens == {Symbols[k] : k \in DOMAIN Symbols}
Elsewhere == "elsewhere"

\* validateTokenRecord: nonce 0 is an adopted token's.
Record(status, nonce, fork) == [status |-> status, nonce |-> nonce, fork |-> fork]
Absent == Record("absent", 0, 0)
Statuses == {"absent", "prepared", "broadcast", "confirmed"}

Ended == [at |-> "ended", token |-> 1, tokens |-> [s \in Tokens |-> Absent]]

ProvisionInit ==
    /\ testnet = <<>> /\ mempool = <<>> /\ replaced = 0
    /\ existing \in {{}, {"USDT"}}
    /\ file = [s \in Tokens |-> Absent] /\ locked = FALSE
    /\ ceremony = Ended
    /\ published = [s \in Tokens |-> Absent]

ProvisionTypeOK ==
    /\ Len(testnet) <= MaxNonce /\ DOMAIN mempool \subseteq 1..MaxNonce
    /\ replaced \in 0..MaxReplaced /\ existing \subseteq Tokens
    /\ \A s \in Tokens : file[s].status \in Statuses
    /\ locked \in BOOLEAN

----------------------------------------------------------------------------
(* The chain and the account. *)

PendingNonce ==
    CHOOSE n \in 1..MaxNonce + 1 :
        /\ n > Len(testnet) /\ n \notin DOMAIN mempool
        /\ \A m \in Len(testnet) + 1..n - 1 : m \in DOMAIN mempool

Sendable(n) == n <= MaxNonce /\ n > Len(testnet) /\ n \notin DOMAIN mempool
Sent(n, what) == [m \in DOMAIN mempool \cup {n} |-> IF m = n THEN what ELSE mempool[m]]
Without(n) == [m \in DOMAIN mempool \ {n} |-> mempool[m]]

MineNext ==
    LET n == Len(testnet) + 1 IN
    /\ n \in DOMAIN mempool
    /\ testnet' = Append(testnet, [what |-> mempool[n], fork |-> replaced])
    /\ mempool' = Without(n)
    /\ UNCHANGED <<replaced, existing, file, locked, ceremony, published>>

\* The last block is replaced; its transaction is waiting again, or lost.
ReplaceBlock ==
    LET n == Len(testnet) IN
    /\ replaced < MaxReplaced /\ n > 0
    /\ replaced' = replaced + 1
    /\ testnet' = SubSeq(testnet, 1, n - 1)
    /\ mempool' \in {mempool, Sent(n, testnet[n].what)}
    /\ UNCHANGED <<existing, file, locked, ceremony, published>>

UseElsewhere ==
    /\ Sendable(PendingNonce)
    /\ mempool' = Sent(PendingNonce, Elsewhere)
    /\ UNCHANGED <<testnet, replaced, existing, file, locked, ceremony, published>>

----------------------------------------------------------------------------
(* A run. *)

Current == Symbols[ceremony.token]
Recorded(s) == ceremony.tokens[s]
Step(at) == ceremony' = [ceremony EXCEPT !.at = at]

\* The record is written to memory, then the file is replaced by a rename.
Write(s, record, at) ==
    /\ ceremony' = [ceremony EXCEPT !.tokens[s] = record, !.at = at]
    /\ file' = [file EXCEPT ![s] = record]

StartRun ==
    /\ ceremony.at = "ended" /\ ~locked /\ published = Ended.tokens
    /\ locked' = TRUE
    /\ ceremony' = [Ended EXCEPT !.at = "token", !.tokens = file]
    /\ UNCHANGED <<testnet, mempool, replaced, existing, file, published>>

\* Mutant: two tokens may have one address
SharedAddress(s, n) == TRUE

DistinctAddress(s, n) == \A other \in Tokens \ {s} : Recorded(other).nonce # n

\* Mutant: what is about to be sent is not written to the file first
PreparedInMemory(s, record) == file

\* The nonce, and with it the address, is in the file before anything is sent.
PreparedInFile(s, record) == [file EXCEPT ![s] = record]

Adopt ==
    /\ ceremony.at = "token" /\ Recorded(Current) = Absent /\ Current \in existing
    /\ Write(Current, Record("confirmed", 0, 0), "verify")
    /\ UNCHANGED <<testnet, mempool, replaced, existing, locked, published>>

Prepare ==
    LET n == PendingNonce
        record == Record("prepared", n, 0)
    IN
    /\ ceremony.at = "token" /\ Recorded(Current) = Absent /\ Current \notin existing
    /\ DistinctAddress(Current, n)
    /\ ceremony' = [ceremony EXCEPT !.tokens[Current] = record, !.at = "code"]
    /\ file' = PreparedInFile(Current, record)
    /\ UNCHANGED <<testnet, mempool, replaced, existing, locked, published>>

\* A record found in the file is taken up where it was left.
Resume ==
    /\ ceremony.at = "token" /\ Recorded(Current) # Absent
    /\ Step(CASE Recorded(Current).status = "prepared" -> "code"
              [] Recorded(Current).status = "broadcast" -> "receipt"
              [] Recorded(Current).status = "confirmed" -> "verify")
    /\ UNCHANGED <<testnet, mempool, replaced, existing, file, locked, published>>

\* Code at the expected address, or a nonce used since, is for an operator.
CheckCode ==
    /\ ceremony.at = "code"
    /\ Recorded(Current).nonce \in DOMAIN testnet =>
          testnet[Recorded(Current).nonce].what = Elsewhere
    /\ Step("nonce")
    /\ UNCHANGED <<testnet, mempool, replaced, existing, file, locked, published>>

CheckNonce ==
    /\ ceremony.at = "nonce" /\ PendingNonce = Recorded(Current).nonce
    /\ Step("send")
    /\ UNCHANGED <<testnet, mempool, replaced, existing, file, locked, published>>

DeployToken ==
    /\ ceremony.at = "send" /\ Sendable(Recorded(Current).nonce)
    /\ mempool' = Sent(Recorded(Current).nonce, Current)
    /\ Step("sent")
    /\ UNCHANGED <<testnet, replaced, existing, file, locked, published>>

RecordBroadcast ==
    /\ ceremony.at = "sent"
    /\ Write(Current, [Recorded(Current) EXCEPT !.status = "broadcast"], "receipt")
    /\ UNCHANGED <<testnet, mempool, replaced, existing, locked, published>>

Created(record) ==
    record.nonce \in DOMAIN testnet /\ testnet[record.nonce].what = Current

ConfirmBroadcast ==
    /\ ceremony.at = "receipt" /\ Created(Recorded(Current))
    /\ Write(Current, Record("confirmed", Recorded(Current).nonce,
                             testnet[Recorded(Current).nonce].fork), "verify")
    /\ UNCHANGED <<testnet, mempool, replaced, existing, locked, published>>

\* The block of the record must still be canonical.
VerifyConfirmedToken ==
    LET record == Recorded(Current) IN
    /\ ceremony.at = "verify"
    /\ record.nonce # 0 => Created(record) /\ testnet[record.nonce].fork = record.fork
    /\ ceremony' = IF ceremony.token < Len(Symbols)
                   THEN [ceremony EXCEPT !.token = @ + 1, !.at = "token"]
                   ELSE [ceremony EXCEPT !.at = "manifest"]
    /\ UNCHANGED <<testnet, mempool, replaced, existing, file, locked, published>>

WriteManifest ==
    /\ ceremony.at = "manifest"
    /\ published' = ceremony.tokens
    /\ ceremony' = Ended /\ locked' = FALSE
    /\ UNCHANGED <<testnet, mempool, replaced, existing, file>>

\* A refusal or a timeout releases the lock; a process killed leaves it, and
\* an operator who has seen that nothing runs removes it.
EndRun ==
    /\ ceremony.at # "ended"
    /\ ceremony' = Ended /\ locked' \in BOOLEAN
    /\ UNCHANGED <<testnet, mempool, replaced, existing, file, published>>

RemoveLock ==
    /\ locked /\ ceremony.at = "ended"
    /\ locked' = FALSE
    /\ UNCHANGED <<testnet, mempool, replaced, existing, file, ceremony, published>>

ProvisionNext ==
    \/ MineNext \/ ReplaceBlock \/ UseElsewhere
    \/ StartRun \/ Adopt \/ Prepare \/ Resume \/ CheckCode \/ CheckNonce
    \/ DeployToken \/ RecordBroadcast \/ ConfirmBroadcast
    \/ VerifyConfirmedToken \/ WriteManifest \/ EndRun \/ RemoveLock

----------------------------------------------------------------------------
(* Properties. *)

Deployments(s) ==
    {n \in DOMAIN testnet : testnet[n].what = s} \cup {n \in DOMAIN mempool : mempool[n] = s}

\* What the runbook promises: an interrupted run resumes without deploying a
\* duplicate.  No token has two deployments, mined or on their way, and none
\* is where the checkpoint or a manifest has the other token, wherever runs
\* ended, whichever blocks were replaced and whatever else the account sent.
OneContractPerToken ==
    \A s \in Tokens :
        /\ \A m, n \in Deployments(s) : m = n
        /\ \A n \in Deployments(s), t \in Tokens \ {s} :
              file[t].nonce # n /\ published[t].nonce # n
=============================================================================
