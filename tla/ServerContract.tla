---------------------------- MODULE ServerContract ----------------------------
(***************************************************************************)
(* What the serving loop promises about connections, with no routing:     *)
(* clients connect while the server listens and are queued; one           *)
(* connection at a time is taken and answered (a plain TCPServer with no   *)
(* threading mix-in, lines 482 and 529, which spec 5 allows); an answer    *)
(* is for the request that client sent, is given once and never replaced,  *)
(* and is a 501 exactly when the method has no do_ handler; stopping the   *)
(* server closes the connection in hand and drops the queued ones.  Which  *)
(* file a GET or HEAD delivers, and the headers and log lines, are         *)
(* invisible.                                                              *)
(***************************************************************************)
CONSTANTS
    Clients,    \* the client connections
    Methods,    \* the HTTP methods clients send
    Paths,      \* the request paths clients send
    None, Aborted, Reset

Request == [method: Methods, path: Paths]

\* The statuses an answer to a request with method m may carry.
StatusFor(m) == IF m \in {"GET", "HEAD"} THEN {200, 404} ELSE {501}

VARIABLES
    running,    \* the listening socket is open
    connected,  \* clients that have connected
    queued,     \* connected clients not yet taken
    serving,    \* the client being answered, or None
    req,        \* req[c]: the request c sent, or None
    outcome     \* outcome[c]: [req, status], Aborted, Reset or None

cvars == <<running, connected, queued, serving, req, outcome>>

Init ==
    /\ running = TRUE
    /\ connected = {} /\ queued = {} /\ serving = None
    /\ req = [c \in Clients |-> None]
    /\ outcome = [c \in Clients |-> None]

Connect(c) ==
    /\ running /\ c \notin connected
    /\ connected' = connected \cup {c} /\ queued' = queued \cup {c}
    /\ UNCHANGED <<running, serving, req, outcome>>

Send(c) ==
    /\ c \in connected /\ req[c] = None /\ outcome[c] = None
    /\ \E r \in Request : req' = [req EXCEPT ![c] = r]
    /\ UNCHANGED <<running, connected, queued, serving, outcome>>

Take(c) ==
    /\ running /\ serving = None /\ c \in queued
    /\ serving' = c /\ queued' = queued \ {c}
    /\ UNCHANGED <<running, connected, req, outcome>>

\* The client in hand, having sent its request, gets its one answer.
Answer ==
    /\ running /\ serving # None
    /\ req[serving] # None /\ outcome[serving] = None
    /\ \E s \in StatusFor(req[serving].method) :
          outcome' = [outcome EXCEPT ![serving] =
                        [req |-> req[serving], status |-> s]]
    /\ serving' = None
    /\ UNCHANGED <<running, connected, queued, req>>

Stop ==
    /\ running /\ running' = FALSE
    /\ outcome' = [c \in Clients |->
                     IF c = serving THEN Aborted
                     ELSE IF c \in queued THEN Reset ELSE outcome[c]]
    /\ serving' = None /\ queued' = {}
    /\ UNCHANGED <<connected, req>>

Next ==
    \/ \E c \in Clients : Connect(c) \/ Send(c) \/ Take(c)
    \/ Answer
    \/ Stop

Spec == Init /\ [][Next]_cvars
=============================================================================
