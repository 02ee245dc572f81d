------------------------------- MODULE Sockets -------------------------------
(***************************************************************************)
(* The promises and events of a DgramSocket, a StreamSocket, a TcpSocket   *)
(* (or IpcSocket) or a TcpServer around a socket of Node (node/net).  A     *)
(* call that opens or closes the socket listens to its "error" event; an     *)
(* error that such a call has taken is not forwarded to the subscribers.     *)
(***************************************************************************)
EXTENDS Integers, FiniteSets

CONSTANTS SocketCalls, MaxErrors

VARIABLES
    kind,           \* "dgram", "stream", "tcp" or "server"
    socket,         \* that of Node: "new", "opening", "open", "closing" or "closed"
    call,           \* of each call: [op, state]
    errorListeners, \* the calls whose handleError still listens
    handledErrorEvents,
    errors,         \* history: so many errors;
    takenBy, dispatched,    \*   the calls that each one rejected; how often it was forwarded;
    thrown          \*   the calls that threw

socketVars == <<kind, socket, call, errorListeners, handledErrorEvents, errors, takenBy, dispatched,
                thrown>>
errorVars == <<handledErrorEvents, errors, takenBy, dispatched>>

SocketsInit ==
    /\ kind \in {"dgram", "stream", "tcp", "server"}
    /\ socket = "new"
    /\ call = [c \in SocketCalls |-> [op |-> "none", state |-> "idle"]]
    /\ errorListeners = {} /\ handledErrorEvents = {}
    /\ errors = 0 /\ takenBy = [e \in 1 .. MaxErrors |-> {}] /\ dispatched = [e \in 1 .. MaxErrors |-> 0]
    /\ thrown = {}

\* TcpSocket calls setupEventForwarding() once more than its super(), which calls
\* the one it overrides.
Forwarders == IF kind = "tcp" THEN 2 ELSE 1
Called(c, op, state) == call' = [call EXCEPT ![c] = [op |-> op, state |-> state]]
Pending(op) == {c \in SocketCalls : call[c] = [op |-> op, state |-> "pending"]}
Settle(calls, state) ==
    call' = [c \in SocketCalls |-> IF c \in calls THEN [call[c] EXCEPT !.state = state] ELSE call[c]]

\* bind(), connect() or listen().  It throws if the socket is open, and bind() then
\* removes its listener.
Open(c) ==
    /\ call[c].state = "idle"
    /\ IF \/ kind = "dgram" /\ socket # "new"
          \/ kind = "server" /\ socket \in {"opening", "open"}
       THEN /\ Called(c, "open", "rejected")
            /\ IF kind = "dgram" THEN UNCHANGED <<errorListeners, thrown>>
               ELSE errorListeners' = errorListeners \cup {c} /\ thrown' = thrown \cup {c}
            /\ UNCHANGED socket
       ELSE /\ socket \in {"new", "opening"} \/ (kind = "server" /\ socket = "closed")
            /\ Called(c, "open", "pending")
            /\ errorListeners' = errorListeners \cup {c}
            /\ socket' = "opening"
            /\ UNCHANGED thrown
    /\ UNCHANGED <<kind, errorVars>>

Opened ==
    /\ socket = "opening"
    /\ socket' = IF Pending("close") = {} THEN "open" ELSE "closing"
    /\ Settle(Pending("open"), "resolved")
    /\ errorListeners' = errorListeners \ Pending("open")
    /\ UNCHANGED <<kind, errorVars, thrown>>

\* close() of a DgramSocket throws if it is closed; a server does not listen to
\* errors in close(), which is rejected if it does not run; end() of a stream is over
\* at once if that is closed.
CloseThrows(c) ==
    /\ kind = "dgram" /\ socket \in {"closing", "closed"}
    /\ Called(c, "close", "rejected")
    /\ errorListeners' = errorListeners \cup {c} /\ thrown' = thrown \cup {c}
    /\ UNCHANGED socket
CloseSettles(c) ==
    /\ \/ kind = "server" /\ socket # "open" /\ Called(c, "close", "rejected")
       \/ kind \in {"stream", "tcp"} /\ socket = "closed" /\ Called(c, "close", "resolved")
    /\ UNCHANGED <<errorListeners, thrown, socket>>
CloseWaits(c) ==
    /\ socket \in (IF kind = "server" THEN {"opening", "open"} ELSE {"new", "opening", "open"})
       \/ (kind \in {"stream", "tcp"} /\ socket = "closing")
    /\ Called(c, "close", "pending")
    /\ errorListeners' = IF kind = "server" THEN errorListeners ELSE errorListeners \cup {c}
    /\ socket' = IF socket = "opening" /\ kind # "server" THEN "opening" ELSE "closing"
    /\ UNCHANGED thrown

Close(c) ==
    /\ call[c].state = "idle"
    /\ CloseThrows(c) \/ CloseSettles(c) \/ CloseWaits(c)
    /\ UNCHANGED <<kind, errorVars>>

\* A listen() that is pending then stays so.
Closed ==
    /\ socket = "closing"
    /\ socket' = "closed"
    /\ Settle(Pending("close"), "resolved")
    /\ errorListeners' = errorListeners \ Pending("close")
    /\ UNCHANGED <<kind, errorVars, thrown>>

\* Variant: nobody marks the error.
Unmarked(listeners, e) == {}

\* handleError() of the calls that listen, those that have thrown included.
Marked(listeners, e) == IF listeners = {} THEN {} ELSE {e}

\* "error": the calls that listen; then the forwarders, the first of which forgets
\* that the error was handled.
Error ==
    /\ socket \in {"opening", "open", "closing"} /\ errors < MaxErrors
    /\ errors' = errors + 1
    /\ LET e == errors'
           handled == handledErrorEvents \cup Marked(errorListeners, e) IN
        /\ takenBy' = [takenBy EXCEPT ![e] = errorListeners \ thrown]
        /\ dispatched' = [dispatched EXCEPT ![e] = IF e \in handled THEN Forwarders - 1 ELSE Forwarders]
        /\ handledErrorEvents' = handled \ {e}
    /\ Settle(errorListeners \ thrown, "rejected")
    /\ errorListeners' = {}
    /\ socket' = CASE kind \in {"stream", "tcp"} -> "closed"
                   [] kind \notin {"stream", "tcp"} /\ socket = "opening" -> "new"
                   [] OTHER -> socket
    /\ UNCHANGED <<kind, thrown>>

SocketsNext ==
    \/ \E c \in SocketCalls : Open(c) \/ Close(c)
    \/ Opened \/ Closed \/ Error

-----------------------------------------------------------------------------
(***************************************************************************)
(* An error rejects the calls that are pending, or it is forwarded to the   *)
(* subscribers: one or the other, once.  A TcpSocket forwards it once more, *)
(* so that its subscribers see an error that was handled; the listener that *)
(* a call left when it threw hides one error that nobody has handled.  No    *)
(* other call listens once it has settled, and no error stays marked.        *)
(***************************************************************************)
ErrorsReported ==
    /\ \A e \in 1 .. errors :
        IF takenBy[e] # {} THEN dispatched[e] = 0 \/ (kind = "tcp" /\ dispatched[e] = 1)
        ELSE dispatched[e] = 1 \/ (kind = "tcp" /\ dispatched[e] = 2) \/ (dispatched[e] = 0 /\ thrown # {})
    /\ handledErrorEvents = {}
    /\ \A c \in errorListeners : call[c].state = "pending" \/ c \in thrown
=============================================================================
