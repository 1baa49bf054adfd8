---------------------------- MODULE SocketClient ----------------------------
(***************************************************************************)
(* The browser's end of the live channel (src/hooks/useWebSocket.ts): one  *)
(* hook, the sockets it has opened, its reconnect timer and the channels   *)
(* its page subscribes to.  Sockets close late: after disconnect() or a    *)
(* new mount the closing of the old one is heard while a new one connects, *)
(* and sets a timer nobody can clear any more.                             *)
(***************************************************************************)
EXTENDS Naturals

CONSTANTS
    Lines,          \* bound: sockets at a time
    Channels,
    Callbacks,
    MaxReconnects,  \* MAX_RECONNECT_ATTEMPTS
    MaxStray        \* bound: timers whose handle was overwritten

VARIABLES
    mounted,    \* mountedRef
    manual,     \* manualDisconnectRef
    current,    \* wsRef
    line,       \* per socket its readyState, "none" once its close was heard
    asked,      \* per socket the channels it has asked the server for
    timers,     \* reconnectTimerRef runs, and how many others do
    attempts,   \* reconnectAttempts
    shown,      \* connectionState
    heartbeat,  \* heartbeatTimerRef runs
    subscribers \* subscriptionsRef

socketState == <<current, line, asked, timers, attempts, shown, heartbeat>>
clientVars == <<mounted, manual, socketState, subscribers>>

NoLine == "no socket"
ASSUME ClientAssumption == NoLine \notin Lines /\ {MaxReconnects, MaxStray} \subseteq Nat
NoTimer(t) == [t EXCEPT !.named = FALSE]
Named(t) == [named |-> TRUE, stray |-> t.stray + IF t.named THEN 1 ELSE 0]

ClientInit ==
    /\ mounted = FALSE /\ manual = FALSE /\ current = NoLine
    /\ line = [s \in Lines |-> "none"] /\ asked = [s \in Lines |-> {}]
    /\ timers = [named |-> FALSE, stray |-> 0]
    /\ attempts = 0 /\ shown = "disconnected" /\ heartbeat = FALSE
    /\ subscribers = [c \in Channels |-> {}]

ClientTypeOK ==
    /\ current \in Lines \cup {NoLine}
    /\ line \in [Lines -> {"none", "connecting", "open", "closing"}]
    /\ asked \in [Lines -> SUBSET Channels]
    /\ timers.stray \in 0..MaxStray /\ attempts \in 0..MaxReconnects + 1
    /\ shown \in {"connecting", "connected", "disconnected", "reconnecting"}
    /\ subscribers \in [Channels -> SUBSET Callbacks]

----------------------------------------------------------------------------
(* connect, with the timers that are left when it is called.               *)

\* Mutant: connect opens a socket whatever there is
NeverTalking(s) == FALSE

Talking(s) == s # NoLine /\ line[s] \in {"open", "connecting"}

\* cur, lines and beat are what the caller has made of current, line, heartbeat.
connect(cur, lines, beat, left) ==
    /\ heartbeat' = beat
    /\ IF Talking(cur)
       THEN timers' = left /\ UNCHANGED <<manual, current, line, asked, attempts, shown>>
       ELSE \E s \in Lines :
            /\ lines[s] = "none"
            /\ line' = [lines EXCEPT ![s] = "connecting"] /\ current' = s
            /\ manual' = FALSE /\ timers' = NoTimer(left)
            /\ shown' = IF attempts > 0 THEN "reconnecting" ELSE "connecting"
            /\ UNCHANGED <<asked, attempts>>

Closing == IF current = NoLine THEN line ELSE [line EXCEPT ![current] = "closing"]

\* The effect, run anew when the url changes (its cleanup first), never after
\* the unmount.
Mount ==
    /\ mounted \/ ~manual
    /\ mounted' = TRUE
    /\ connect(NoLine, Closing, FALSE, NoTimer(timers))
    /\ UNCHANGED subscribers

Unmount ==
    /\ mounted /\ mounted' = FALSE /\ manual' = TRUE
    /\ timers' = NoTimer(timers) /\ heartbeat' = FALSE /\ current' = NoLine
    /\ line' = Closing
    /\ UNCHANGED <<asked, attempts, shown, subscribers>>

\* A timer that connects for a page no longer there does nothing.
TimerFires ==
    \E left \in (IF timers.named THEN {NoTimer(timers)} ELSE {})
                \cup (IF timers.stray > 0 THEN {[timers EXCEPT !.stray = @ - 1]} ELSE {}) :
        /\ UNCHANGED <<mounted, subscribers>>
        /\ IF mounted THEN connect(current, line, heartbeat, left)
           ELSE timers' = left /\ UNCHANGED <<manual, current, line, asked, attempts, shown, heartbeat>>

----------------------------------------------------------------------------
(* A socket's events.                                                      *)

\* Mutant: the new socket asks for nothing, as if the server remembered
NothingAsked == {}

Subscribed == {c \in Channels : subscribers[c] # {}}
Resubscription == Subscribed

OnOpen(s) ==
    /\ line[s] = "connecting"
    /\ IF mounted /\ current = s
       THEN /\ line' = [line EXCEPT ![s] = "open"]
            /\ asked' = [asked EXCEPT ![s] = Resubscription]
            /\ attempts' = 0 /\ shown' = "connected" /\ heartbeat' = TRUE
       ELSE /\ line' = [line EXCEPT ![s] = "closing"]
            /\ UNCHANGED <<asked, attempts, shown, heartbeat>>
    /\ UNCHANGED <<mounted, manual, current, timers, subscribers>>

\* The server or the network ends it; its close is heard later.
Breaks(s) ==
    /\ line[s] \in {"connecting", "open"}
    /\ line' = [line EXCEPT ![s] = "closing"]
    /\ UNCHANGED <<mounted, manual, current, asked, timers, attempts, shown, heartbeat, subscribers>>

OnClose(s) ==
    /\ line[s] = "closing"
    /\ line' = [line EXCEPT ![s] = "none"] /\ asked' = [asked EXCEPT ![s] = {}]
    /\ current' = IF current = s THEN NoLine ELSE current
    /\ heartbeat' = FALSE
    /\ IF ~mounted \/ manual
       THEN shown' = "disconnected" /\ UNCHANGED <<attempts, timers>>
       ELSE /\ attempts' = IF attempts > MaxReconnects THEN attempts ELSE attempts + 1
            /\ IF attempts' > MaxReconnects
               THEN shown' = "disconnected" /\ UNCHANGED timers
               ELSE shown' = "reconnecting" /\ timers' = Named(timers)
    /\ timers'.stray <= MaxStray
    /\ UNCHANGED <<mounted, manual, subscribers>>

----------------------------------------------------------------------------
(* The page.                                                               *)

Open == current # NoLine /\ line[current] = "open"
Asks(channels) == asked' = IF Open THEN [asked EXCEPT ![current] = channels] ELSE asked
Quietly == UNCHANGED <<mounted, manual, current, line, timers, attempts, shown, heartbeat>>

subscribe(c, f) ==
    /\ subscribers' = [subscribers EXCEPT ![c] = @ \cup {f}]
    /\ IF subscribers[c] = {} THEN Asks(asked[current] \cup {c}) ELSE UNCHANGED asked
    /\ Quietly

\* The server does not let go of its system channel.
unsubscribe(c, f) ==
    /\ f \in subscribers[c]
    /\ subscribers' = [subscribers EXCEPT ![c] = @ \ {f}]
    /\ IF subscribers[c] = {f} /\ c # "system" THEN Asks(asked[current] \ {c}) ELSE UNCHANGED asked
    /\ Quietly

HangUp ==
    /\ attempts' = 0 /\ shown' = "disconnected" /\ heartbeat' = FALSE
    /\ current' = NoLine
    /\ line' = Closing
    /\ UNCHANGED <<mounted, asked, subscribers>>

disconnect == mounted /\ HangUp /\ manual' = TRUE /\ timers' = NoTimer(timers)
reconnect == mounted /\ HangUp /\ manual' = FALSE /\ timers' = [timers EXCEPT !.named = TRUE]

ClientNext ==
    \/ Mount \/ Unmount \/ TimerFires \/ disconnect \/ reconnect
    \/ \E s \in Lines : OnOpen(s) \/ Breaks(s) \/ OnClose(s)
    \/ \E c \in Channels, f \in Callbacks : subscribe(c, f) \/ unsubscribe(c, f)

----------------------------------------------------------------------------
(* Properties.                                                             *)

\* However closes, timers, mounts and the user's clicks overlap: at most one
\* socket talks to the server, every other one was told to close (events would
\* be dispatched twice otherwise); the one that is open has asked for exactly
\* the channels the page subscribes to, across every reconnection; and the page
\* says "connected" only of a socket that opened and whose close it has not heard.
OneLiveSocket ==
    /\ \A s \in Lines : line[s] \in {"connecting", "open"} => s = current
    /\ Open => asked[current] \ {"system"} = Subscribed \ {"system"}
               /\ Subscribed \subseteq asked[current]
    /\ mounted /\ shown = "connected" =>
           current # NoLine /\ line[current] \in {"open", "closing"}
=============================================================================
