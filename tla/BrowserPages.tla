---------------------------- MODULE BrowserPages ----------------------------
(***************************************************************************)
(* The page that writes to a contract from the user's wallet and then has  *)
(* the API record the transaction (src/hooks/usePayment.ts, useBusiness.ts *)
(* over useSafeWriteContract.ts, contexts/AuthContext.tsx), in a tab of a  *)
(* browser with several wallets.  Three flows share a pattern and differ   *)
(* in what a transaction not yet recorded does to the next order:          *)
(*   payment       refuses it until the transaction was recovered,         *)
(*   lifecycle     (settle, cancel, refund, recover; a tier upgrade) goes  *)
(*                 on with it for its own item and refuses another,        *)
(*   registration  goes on with it.                                        *)
(* What a function of the page does between two awaits is one step, with   *)
(* the wallet it started with; the page may be reloaded at any moment.     *)
(***************************************************************************)
EXTENDS Naturals, Sequences

CONSTANTS
    Wallets,    \* accounts of the user's wallet
    Items,      \* what an order is about: a payment to make, a payment's end
    MaxSent     \* bound: transactions sent

ASSUME PagesAssumption == MaxSent \in Nat

VARIABLES
    flow,       \* which page it is
    connected,  \* the account the wallet has selected
    session,    \* the API's cookie: whose session, or {}
    cached,     \* the accounts the page believes signed in (auth-session)
    slot,       \* localStorage: per account a transaction not recorded, or 0
    shown,      \* pendingReconciliation (txHash of a registration), or 0
    write,      \* the mutation that runs
    sent,       \* the transactions sent so far
    recorded,   \* those the API recorded
    seen,       \* those a page saw confirmed
    crossed     \* was another account selected while a mutation ran?

browser == <<connected, session, cached>>
pageVars == <<flow, browser, slot, shown, write, sent, recorded, seen, crossed>>

Flows == {"payment", "lifecycle", "registration"}
Idle0 == [at |-> "idle", tx |-> 0]

PageInit ==
    /\ flow \in Flows /\ connected \in Wallets
    /\ session = {} /\ cached = {} /\ crossed = FALSE
    /\ slot = [w \in Wallets |-> 0] /\ shown = 0
    /\ write = Idle0
    /\ sent = <<>> /\ recorded = {} /\ seen = {}

PageTypeOK ==
    /\ connected \in Wallets /\ session \subseteq Wallets /\ cached \subseteq Wallets
    /\ slot \in [Wallets -> 0..Len(sent)] /\ shown \in 0..Len(sent)
    /\ write.at \in {"idle", "send", "receipt", "api"}
    /\ Len(sent) <= MaxSent /\ recorded \cup seen \subseteq DOMAIN sent

----------------------------------------------------------------------------
(* The wallet and the session. *)

Fetched(w) == IF session = {w} THEN cached \cup {w} ELSE cached \ {w}

\* The page takes up what is stored for the account; what runs goes on.
SelectAccount(w) ==
    /\ w # connected /\ connected' = w
    /\ shown' = slot[w]
    /\ cached' \in {cached, {}, Fetched(w)}
    /\ crossed' = (crossed \/ write # Idle0)
    /\ UNCHANGED <<flow, session, slot, write, sent, recorded, seen>>

\* The account that signs is the one that was selected when it began.
SignIn(w) ==
    /\ session' = {w} /\ cached' = cached \cup {w}
    /\ UNCHANGED <<flow, connected, slot, shown, write, sent, recorded, seen, crossed>>

\* A sign-out that fails, and a session that expires, leave the two apart.
SignOut ==
    /\ session' \in {session, {}} /\ cached' \in {cached, {}}
    /\ UNCHANGED <<flow, connected, slot, shown, write, sent, recorded, seen, crossed>>

RefreshSession ==
    /\ cached' = Fetched(connected)
    /\ UNCHANGED <<flow, connected, session, slot, shown, write, sent, recorded, seen, crossed>>

----------------------------------------------------------------------------
(* The mutation. *)

persistPending(w, tx) == shown' = tx /\ slot' = [slot EXCEPT ![w] = tx]
Run(at, w, i, tx) == write' = [at |-> at, wallet |-> w, item |-> i, tx |-> tx]
Quiet == UNCHANGED <<flow, browser, crossed>>

\* SessionGate; a registration has no session yet.
Admitted == flow = "registration" \/ connected \in cached

Order(i) ==
    /\ write = Idle0 /\ Admitted /\ shown = 0
    /\ Run("send", connected, i, 0)
    /\ UNCHANGED <<slot, shown, sent, recorded, seen>> /\ Quiet

Resume(i) ==
    /\ write = Idle0 /\ Admitted /\ shown # 0
    /\ \/ flow = "registration" /\ UNCHANGED <<shown, slot>>
       \/ flow = "lifecycle" /\ sent[shown].item = i /\ persistPending(connected, shown)
    /\ Run("api", connected, i, shown)
    /\ UNCHANGED <<sent, recorded, seen>> /\ Quiet

Recover ==
    /\ write = Idle0 /\ Admitted /\ shown # 0 /\ flow = "payment"
    /\ Run("api", connected, sent[shown].item, shown)
    /\ UNCHANGED <<slot, shown, sent, recorded, seen>> /\ Quiet

\* useSafeWriteContract: the network is verified, then the wallet signs for
\* the account that is selected by then.
Send ==
    /\ write.at = "send" /\ Len(sent) < MaxSent
    /\ sent' = Append(sent, [wallet |-> connected, item |-> write.item, status |-> "waiting"])
    /\ Run("receipt", write.wallet, write.item, Len(sent'))
    /\ shown' = IF flow = "registration" THEN Len(sent') ELSE shown
    /\ UNCHANGED <<slot, recorded, seen>> /\ Quiet

MineSent(n) ==
    /\ sent[n].status = "waiting"
    /\ \E status \in {"mined", "reverted"} : sent' = [sent EXCEPT ![n].status = status]
    /\ UNCHANGED <<slot, shown, write, recorded, seen>> /\ Quiet

SeeConfirmed ==
    /\ write.at = "receipt" /\ sent[write.tx].status = "mined"
    /\ persistPending(write.wallet, write.tx)
    /\ seen' = seen \cup {write.tx}
    /\ write' = [write EXCEPT !.at = "api"]
    /\ UNCHANGED <<sent, recorded>> /\ Quiet

Reverted ==
    /\ write.at = "receipt" /\ sent[write.tx].status = "reverted"
    /\ shown' = IF flow = "registration" THEN 0 ELSE shown
    /\ write' = Idle0
    /\ UNCHANGED <<slot, sent, recorded, seen>> /\ Quiet

\* The API records a transaction for the wallet that sent it: the session's
\* business, or the wallet that signed the registration's challenge.
Recordable(tx) ==
    /\ sent[tx].status = "mined"
    /\ IF flow = "registration" THEN write.wallet = sent[tx].wallet
                                ELSE session = {sent[tx].wallet}

\* Mutant: the page forgets the transaction whatever the answer
ForgetsAnyway == persistPending(connected, 0)

\* A failed request leaves the transaction to the next attempt.
Keeps == UNCHANGED <<slot, shown>>

\* The answer arrives; onSuccess is the one of the page's newest rendering.
Answered ==
    /\ write.at = "api" /\ Recordable(write.tx)
    /\ recorded' = recorded \cup {write.tx}
    /\ persistPending(connected, 0)
    /\ write' = Idle0
    /\ UNCHANGED <<sent, seen>> /\ Quiet

\* A refusal, a timeout, a lost answer.
Unanswered ==
    /\ write.at = "api"
    /\ recorded' \in {recorded} \cup {recorded \cup {tx} : tx \in {write.tx} \cap {n \in DOMAIN sent : Recordable(n)}}
    /\ Keeps
    /\ write' = Idle0
    /\ UNCHANGED <<sent, seen>> /\ Quiet

\* The user declines, the network is another, the wait for the receipt ends.
GiveUp ==
    /\ write.at \in {"send", "receipt"}
    /\ write' = Idle0
    /\ UNCHANGED <<slot, shown, sent, recorded, seen>> /\ Quiet

Reload ==
    /\ write' = Idle0 /\ shown' = slot[connected]
    /\ UNCHANGED <<slot, sent, recorded, seen>> /\ Quiet

PageNext ==
    \/ \E w \in Wallets : SelectAccount(w) \/ SignIn(w)
    \/ SignOut \/ RefreshSession
    \/ \E i \in Items : Order(i) \/ Resume(i)
    \/ Recover \/ Send \/ SeeConfirmed \/ Reverted \/ Answered \/ Unanswered
    \/ GiveUp \/ Reload
    \/ \E n \in DOMAIN sent : MineSent(n)

PageSpec == PageInit /\ [][PageNext]_pageVars

----------------------------------------------------------------------------
(* Properties. *)

\* "A confirmed payment is awaiting API reconciliation. Recover it before
\* submitting another payment." (usePayment.ts:264)  What a page saw confirmed
\* is recorded, or stored for the account that sent it, whatever is reloaded,
\* lost or refused, whoever's session the cookie is and whichever account is
\* selected between two writes.  (During a write it may be lost: see README.)
KeptUntilRecorded ==
    crossed \/ \A n \in seen : n \in recorded \/ slot[sent[n].wallet] = n
=============================================================================
