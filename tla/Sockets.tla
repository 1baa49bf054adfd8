----------------------------- MODULE Sockets -----------------------------
(***************************************************************************)
(* The live channel to browsers (services/websocket.ts).  A connection     *)
(* holds the session of one business, or of none; a tenant's event goes to *)
(* that business's connections, each checked against the registry first.   *)
(* Handlers of one connection run side by side: while one awaits the       *)
(* registry, another may sign the connection in as a second business, sign *)
(* it out or close it.  The visits of one broadcast or heartbeat follow    *)
(* each other and carry nothing over, so each visit is a request here.     *)
(***************************************************************************)
EXTENDS Requests

CONSTANTS
    Connections,
    Tenants     \* businesses, each with one wallet and one session token

VARIABLES
    sockets,    \* per connection: the wire, and the entry in clients
    suspended,  \* businesses the registry reports inactive, at the head
    lapsed      \* businesses whose session token has expired

socketVars == <<sockets, suspended, lapsed>>

Anonymous == "anonymous"
ASSUME SocketAssumption == Anonymous \notin Tenants

Unborn == [wire |-> "none", listed |-> FALSE, business |-> Anonymous, subscribed |-> FALSE]

SocketInit ==
    /\ sockets = [c \in Connections |-> Unborn]
    /\ suspended = {} /\ lapsed = {}

SocketTypeOK ==
    /\ sockets \in [Connections ->
           [wire : {"none", "open", "closed"}, listed : BOOLEAN,
            business : Tenants \cup {Anonymous}, subscribed : BOOLEAN]]
    /\ suspended \subseteq Tenants /\ lapsed \subseteq Tenants

Suspend(b) ==
    /\ b \notin suspended /\ suspended' = suspended \cup {b}
    /\ UNCHANGED <<shared, sockets, lapsed>>

Lapse(b) ==
    /\ b \notin lapsed /\ lapsed' = lapsed \cup {b}
    /\ UNCHANGED <<shared, sockets, suspended>>

----------------------------------------------------------------------------
(* A connection's entry. *)

SignedOut(s) == [s EXCEPT !.business = Anonymous, !.subscribed = FALSE]
CleanedUp(s) == IF s.listed THEN [SignedOut(s) EXCEPT !.listed = FALSE] ELSE s
Dropped(s) == [CleanedUp(s) EXCEPT !.wire = "closed"]
SessionOver(s) == s.business \in lapsed

Set(c, s) ==
    /\ sockets' = [sockets EXCEPT ![c] = s]
    /\ UNCHANGED <<mined, deep, trail, suspended, lapsed>>

----------------------------------------------------------------------------
(* The registry's answer is the state at the head at some moment of the    *)
(* await; one that cannot be had counts as inactive.                       *)

Ask(w, step, c, b, job) ==
    /\ Goto(w, [at |-> step, connection |-> c, tenant |-> b, job |-> job, answer |-> "none",
                stood |-> {t \in Tenants : t \notin suspended \cup lapsed}])

RegistryAnswers(w) ==
    /\ req[w] # Idle /\ req[w].at # "delivered" /\ req[w].answer = "none"
    /\ \E a \in {"inactive"} \cup (IF req[w].tenant \in suspended THEN {} ELSE {"active"}) :
          Goto(w, [req[w] EXCEPT !.answer = a])
    /\ UNCHANGED <<mined, deep, trail, socketVars>>

Answered(w, step) == At(w, step) /\ req[w].answer # "none"
Here(w) == sockets[req[w].connection]

----------------------------------------------------------------------------
(* Connecting: the entry is made, and the wire's events are heard, only    *)
(* when the token in the upgrade request has been looked at.               *)

Connect(w, c) ==
    /\ sockets[c].wire = "none" /\ req[w] = Idle
    /\ \/ Done(w) /\ Set(c, [sockets[c] EXCEPT !.wire = "open", !.listed = TRUE])
       \/ /\ \E b \in Tenants \ lapsed : Ask(w, "connect", c, b, "join")
          /\ Set(c, [sockets[c] EXCEPT !.wire = "open"])

Connected(w) ==
    /\ Answered(w, "connect")
    /\ Set(req[w].connection,
           [Here(w) EXCEPT !.listed = TRUE,
              !.business = IF req[w].answer = "active" THEN req[w].tenant ELSE @])
    /\ Done(w)

WireCloses(c) ==
    /\ sockets[c].wire = "open"
    /\ Set(c, Dropped(sockets[c])) /\ UNCHANGED req

----------------------------------------------------------------------------
(* Checking a connection before it is used. *)

\* A message of the client, a heartbeat, or a business's event.
Jobs == {"message", "beat"} \cup Tenants

\* closeExpiredSession, then the first half of revalidateClient.
Visit(w, c, job) ==
    /\ req[w] = Idle /\ sockets[c].listed
    /\ IF SessionOver(sockets[c])
       THEN Set(c, Dropped(sockets[c])) /\ UNCHANGED req
       ELSE /\ Ask(w, "check", c, sockets[c].business, job)
            /\ UNCHANGED <<mined, deep, trail, socketVars>>

\* Mutant: the entry is not looked at again when the answer is there
VouchedAtVisit(w) == req[w].answer = "active"

\* The second half compares with the entry as it is now.
Vouched(w) == req[w].answer = "active" /\ Here(w).business = req[w].tenant

\* A connection nobody has signed in is used at once, without an await.
Checked(w) ==
    /\ At(w, "check")
    /\ IF req[w].tenant = Anonymous THEN Here(w).business = Anonymous
       ELSE req[w].answer # "none" /\ Vouched(w)

CheckFails(w) ==
    /\ Answered(w, "check") /\ req[w].tenant # Anonymous /\ ~Vouched(w)
    /\ Set(req[w].connection, Dropped(Here(w)))
    /\ Done(w)

----------------------------------------------------------------------------
(* What the connection was checked for. *)

\* handleMessage: subscribe, unsubscribe or authenticate.
Subscribe(w) ==
    /\ Checked(w) /\ req[w].job = "message"
    /\ \E wanted \in BOOLEAN :
          Set(req[w].connection,
              [Here(w) EXCEPT !.subscribed = wanted /\ Here(w).business # Anonymous])
    /\ Done(w)

SignIn(w) ==
    /\ Checked(w) /\ req[w].job = "message"
    /\ \E b \in Tenants :
          IF b \in lapsed
          THEN Set(req[w].connection, SignedOut(Here(w))) /\ Done(w)
          ELSE /\ Ask(w, "sign in", req[w].connection, b, "join")
               /\ UNCHANGED <<mined, deep, trail, socketVars>>

SignedIn(w) ==
    /\ Answered(w, "sign in")
    /\ Set(req[w].connection,
           IF req[w].answer = "active" THEN [Here(w) EXCEPT !.business = req[w].tenant]
           ELSE SignedOut(Here(w)))
    /\ Done(w)

\* A ping, a heartbeat that found the connection alive, a message refused or
\* over the rate limit.
Nothing(w) ==
    /\ Checked(w) /\ req[w].job \notin Tenants
    /\ Done(w) /\ UNCHANGED <<mined, deep, trail, socketVars>>

\* No pong for CLIENT_TIMEOUT_MS.
TimedOut(w) ==
    /\ Checked(w) /\ req[w].job = "beat"
    /\ Set(req[w].connection, Dropped(Here(w))) /\ Done(w)

\* broadcast: the event of the tenant named by the job.
Deliver(w) ==
    /\ Checked(w) /\ req[w].job \in Tenants
    /\ IF Here(w).subscribed /\ Here(w).wire = "open" /\ Here(w).business = req[w].job
       THEN Goto(w, [req[w] EXCEPT !.at = "delivered"])
       ELSE Done(w)
    /\ UNCHANGED <<mined, deep, trail, socketVars>>

\* close(), when the server shuts down.
ShutDown ==
    /\ sockets' = [c \in Connections |->
                     IF sockets[c].listed THEN Dropped(sockets[c]) ELSE sockets[c]]
    /\ UNCHANGED <<shared, suspended, lapsed>>

SocketNext ==
    \/ \E b \in Tenants : Suspend(b) \/ Lapse(b)
    \/ \E c \in Connections :
          \/ WireCloses(c)
          \/ \E w \in Workers : Connect(w, c) \/ \E job \in Jobs : Visit(w, c, job)
    \/ ShutDown
    \/ \E w \in Workers :
          \/ RegistryAnswers(w) \/ Connected(w) \/ CheckFails(w) \/ Subscribe(w) \/ SignIn(w)
          \/ SignedIn(w) \/ Nothing(w) \/ TimedOut(w) \/ Deliver(w)
    \/ RequestStep /\ UNCHANGED socketVars

----------------------------------------------------------------------------
(* Property. *)

\* A tenant's event reaches a connection only if the tenant was in standing,
\* active and with a session not expired, when the connection was looked at
\* for this event, however it was signed in, out or over in the meantime.
DeliveredInStanding ==
    \A w \in Workers :
        At(w, "delivered") => req[w].job \in req[w].stood
=============================================================================
