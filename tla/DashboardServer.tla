--------------------------- MODULE DashboardServer ---------------------------
(***************************************************************************)
(* The serving half of src/start_web_dashboard.py: a single-threaded       *)
(* socketserver.TCPServer whose request handler is DashboardHandler, a    *)
(* SimpleHTTPRequestHandler with alias routing (do_GET), CORS and cache    *)
(* headers (end_headers) and substring-based log classification           *)
(* (log_message).  The web_dashboard directory is shared with other        *)
(* processes that create and delete dashboard files while the server runs, *)
(* and the operator may interrupt the process at any moment.               *)
(*                                                                         *)
(* Data abstraction.  A file or URL segment is a record [name, ext]; a     *)
(* request path is a record [seg, slash, query, mentions] where slash and  *)
(* query say whether the raw path ends in '/' or carries '?...', and       *)
(* mentions is the set of the status-like digit runs ("200", "404") that   *)
(* occur in its text, which is all log_message's substring tests can see.  *)
(***************************************************************************)
EXTENDS Naturals, Sequences, FiniteSets

CONSTANTS
    Files,      \* the file names that may exist under web_dashboard/
    Mutable,    \* the files other processes create and delete while serving
    Clients,    \* the client connections, each of which sends one request
    Paths,      \* the request paths clients send
    Methods,    \* the HTTP methods clients send
    None,       \* a model value: no client, no request, no response
    Aborted,    \* a model value: connection closed mid-request by the interrupt
    Reset       \* a model value: queued connection dropped when the socket closed

Seg(n, e) == [name |-> n, ext |-> e]

\* The names the code spells out (lines 49-62 and 438-444).
Root            == Seg("", "")
DashboardIndex  == Seg("dashboard_index", ".html")
ClassicIndex    == Seg("index", ".html")
MemoryDash      == Seg("memory_analysis_dashboard", ".html")
UnsafeDashV2    == Seg("unsafe_ffi_dashboard_v2", ".html")
LifecycleDash   == Seg("lifecycle_dashboard", ".html")

\* Extensions that end_headers gives a public one-hour cache directive (line 43).
AssetExts == {".css", ".js", ".svg", ".png", ".jpg"}

\* The statuses this handler can produce.
Statuses == {200, 404, 501}

\* The shape of a file name and of a request path (see the header).
SegType  == [name: STRING, ext: STRING]
PathType == [seg: SegType, slash: BOOLEAN, query: BOOLEAN,
             mentions: SUBSET {"200", "404"}]

ASSUME ConstantsAssumption ==
    /\ Files \subseteq SegType
    /\ Paths \subseteq PathType
    /\ Mutable \subseteq Files
    /\ {DashboardIndex, ClassicIndex, MemoryDash, UnsafeDashV2, LifecycleDash}
          \subseteq Files
    /\ Root \notin Files
    /\ Methods \subseteq {"GET", "HEAD", "POST", "OPTIONS"}
    /\ None \notin Clients
    /\ Aborted # Reset

Request == [method: Methods, path: Paths]

\* The console line classes log_message prints (lines 71-76).
LogClasses == {"Success", "NotFound", "Other"}

\* What the handler writes back for one client connection.
Response == [req: Request, status: Statuses, served: Files \cup {Root, None},
             cache: BOOLEAN, lines: Seq(LogClasses),
             lc: BOOLEAN, stable: BOOLEAN, fs: [Files -> BOOLEAN]]

\* The sentinels are distinct from every value they stand in for.
ASSUME SentinelAssumption ==
    /\ None \notin Request \cup Files \cup {Root}
    /\ {None, Aborted, Reset} \cap Response = {}
    /\ None \notin {Aborted, Reset}

VARIABLES
    fs,         \* fs[f]: file f exists under web_dashboard/
    running,    \* serve_forever has not been interrupted
    srv,        \* where the serving thread is: "select", "read" or "open"
    cur,        \* the connection being handled, or None
    backlog,    \* connections accepted by the kernel, not yet by the server
    connected,  \* clients that have connected
    req,        \* req[c]: the request c has sent, or None
    route,      \* for cur: the path do_GET rewrote to, and what it observed
    resp        \* resp[c]: what c got back, or None

vars == <<fs, running, srv, cur, backlog, connected, req, route, resp>>

-----------------------------------------------------------------------------
(***************************************************************************)
(* DashboardHandler.do_GET's alias table (lines 49-62).  A raw path        *)
(* matches an alias only if it is exactly "/word" or "/word/": a query     *)
(* string defeats the match.  Root "/" is spelt with its slash.            *)
(***************************************************************************)
AliasWords == {Root, Seg("unsafe", ""), Seg("memory", ""), Seg("classic", ""),
               Seg("lifecycle", "")}

IsAlias(p) == p.seg \in AliasWords /\ ~p.query

\* Seeded fault for mutation checking: the lifecycle existence test inverted.
AliasTarget_inverted(seg, lifecycleExists) ==
    CASE seg = Root                 -> DashboardIndex
      [] seg = Seg("unsafe", "")    -> UnsafeDashV2
      [] seg = Seg("memory", "")    -> MemoryDash
      [] seg = Seg("classic", "")   -> ClassicIndex
      [] seg = Seg("lifecycle", "") -> IF lifecycleExists THEN MemoryDash
                                                          ELSE LifecycleDash

\* The file an alias is rewritten to, given whether os.path.exists found
\* lifecycle_dashboard.html (line 59).
AliasTarget(seg, lifecycleExists) ==
    CASE seg = Root                 -> DashboardIndex
      [] seg = Seg("unsafe", "")    -> UnsafeDashV2
      [] seg = Seg("memory", "")    -> MemoryDash
      [] seg = Seg("classic", "")   -> ClassicIndex
      [] seg = Seg("lifecycle", "") -> IF lifecycleExists THEN LifecycleDash
                                                          ELSE MemoryDash

\* self.path after do_GET's rewrite.
do_GET_path(p, lifecycleExists) ==
    IF IsAlias(p)
    THEN [seg |-> AliasTarget(p.seg, lifecycleExists), slash |-> FALSE,
          query |-> FALSE, mentions |-> {}]
    ELSE p

(***************************************************************************)
(* SimpleHTTPRequestHandler.send_head on self.path (line 65).  The root    *)
(* directory is served through index.html, or a listing when it is        *)
(* absent; a trailing slash on a file is a 404; otherwise the file is      *)
(* opened, and a failed open is a 404.                                     *)
(***************************************************************************)
send_head_status(p, disk) ==
    IF p.seg = Root THEN 200
    ELSE IF ~p.slash /\ p.seg \in Files /\ disk[p.seg] THEN 200 ELSE 404

\* Seeded fault for mutation checking: the failed open not checked.
send_head_served_unchecked(p, disk) ==
    IF p.seg = Root THEN (IF disk[ClassicIndex] THEN ClassicIndex ELSE Root)
    ELSE p.seg

send_head_served(p, disk) ==
    IF send_head_status(p, disk) = 404 THEN None
    ELSE IF p.seg = Root THEN (IF disk[ClassicIndex] THEN ClassicIndex ELSE Root)
    ELSE p.seg

\* end_headers (lines 37-45): the cache directive is keyed on the text of
\* self.path, so a query string or a trailing slash hides the extension.
end_headers_cache(p) == ~p.query /\ ~p.slash /\ p.seg.ext \in AssetExts

\* log_message (lines 67-76) classifies a line by the substrings it contains.
log_message(has200, has404) ==
    IF has200 THEN "Success" ELSE IF has404 THEN "NotFound" ELSE "Other"

\* The lines written for a request with raw path p answered with status s:
\* send_error first logs "code s, message ..." through log_error, then
\* send_response logs the request line "METHOD path HTTP/1.1" s -.
LogLines(p, s) ==
    LET reqLine == log_message("200" \in p.mentions \/ s = 200,
                               "404" \in p.mentions \/ s = 404)
    IN  IF s = 200 THEN <<reqLine>>
        ELSE <<log_message(FALSE, s = 404), reqLine>>

\* What do_GET leaves for send_head: the path and the directory it saw.
RouteType == [path: Paths \cup {do_GET_path(p, b) : p \in Paths, b \in BOOLEAN},
              lc: BOOLEAN, fs: [Files -> BOOLEAN]]

ASSUME RouteSentinelAssumption == None \notin RouteType

-----------------------------------------------------------------------------
TypeOK ==
    /\ fs \in [Files -> BOOLEAN]
    /\ running \in BOOLEAN
    /\ srv \in {"select", "read", "open"}
    /\ cur \in Clients \cup {None}
    /\ backlog \subseteq Clients
    /\ connected \subseteq Clients
    /\ req \in [Clients -> Request \cup {None}]
    /\ route \in RouteType \cup {None}
    /\ resp \in [Clients -> Response \cup {Aborted, Reset, None}]

\* The server is serving; dashboard_index.html was ensured at startup.
Init ==
    /\ fs \in {d \in [Files -> BOOLEAN] : d[DashboardIndex]}
    /\ running = TRUE
    /\ srv = "select"
    /\ cur = None
    /\ backlog = {}
    /\ connected = {}
    /\ req = [c \in Clients |-> None]
    /\ route = None
    /\ resp = [c \in Clients |-> None]

\* A client connects; the kernel queues it on the listening socket.
Connect(c) ==
    /\ running
    /\ c \notin connected
    /\ connected' = connected \cup {c}
    /\ backlog' = backlog \cup {c}
    /\ UNCHANGED <<fs, running, srv, cur, req, route, resp>>

\* A connected client writes its request; it may do so before it is accepted.
Send(c) ==
    /\ c \in connected
    /\ req[c] = None
    /\ resp[c] = None
    /\ \E r \in Request : req' = [req EXCEPT ![c] = r]
    /\ UNCHANGED <<fs, running, srv, cur, backlog, connected, route, resp>>

\* Another process creates or deletes a dashboard file.
ChangeFile(f) ==
    /\ fs' = [fs EXCEPT ![f] = ~@]
    /\ UNCHANGED <<running, srv, cur, backlog, connected, req, route, resp>>

\* Seeded fault for mutation checking: accepting while a request is in hand,
\* as a threading server without per-connection state would.
Accept_concurrent(c) ==
    /\ running
    /\ c \in backlog
    /\ cur' = c
    /\ backlog' = backlog \ {c}
    /\ srv' = "read"
    /\ UNCHANGED <<fs, running, connected, req, route, resp>>

\* serve_forever's select returns and _handle_request_noblock accepts.
Accept(c) ==
    /\ running
    /\ srv = "select"
    /\ c \in backlog
    /\ cur' = c
    /\ backlog' = backlog \ {c}
    /\ srv' = "read"
    /\ UNCHANGED <<fs, running, connected, req, route, resp>>

(***************************************************************************)
(* handle_one_request reads the request line (blocking until the client    *)
(* sends) and dispatches on the method.  GET runs do_GET's alias check,    *)
(* which stats lifecycle_dashboard.html now; HEAD goes to send_head on the *)
(* raw path; a method without a do_ handler is answered 501 at once.      *)
(***************************************************************************)
ReadRequest ==
    /\ running
    /\ srv = "read"
    /\ req[cur] # None
    /\ LET r == req[cur] IN
       IF r.method \in {"GET", "HEAD"}
       THEN /\ route' = [path |-> IF r.method = "GET"
                                  THEN do_GET_path(r.path, fs[LifecycleDash])
                                  ELSE r.path,
                         lc |-> fs[LifecycleDash], fs |-> fs]
            /\ srv' = "open"
            /\ UNCHANGED <<cur, resp>>
       ELSE /\ resp' = [resp EXCEPT ![cur] =
                 [req |-> r, status |-> 501, served |-> None,
                  cache |-> end_headers_cache(r.path),
                  lines |-> LogLines(r.path, 501),
                  lc |-> fs[LifecycleDash], stable |-> TRUE, fs |-> fs]]
            /\ srv' = "select"
            /\ cur' = None
            /\ UNCHANGED route
    /\ UNCHANGED <<fs, running, backlog, connected, req>>

\* Seeded fault for mutation checking: the handler never returns to select.
Open_stuck ==
    /\ running
    /\ srv = "open"
    /\ LET p == route.path
           s == send_head_status(p, fs)
       IN resp' = [resp EXCEPT ![cur] =
                 [req |-> req[cur], status |-> s,
                  served |-> send_head_served(p, fs),
                  cache |-> end_headers_cache(p),
                  lines |-> LogLines(req[cur].path, s),
                  lc |-> route.lc, stable |-> route.fs = fs, fs |-> fs]]
    /\ UNCHANGED <<fs, running, srv, cur, route, backlog, connected, req>>

\* send_head opens the file on the current disk, the headers and body are
\* written, the request is logged and the connection is closed.
Open ==
    /\ running
    /\ srv = "open"
    /\ LET p == route.path
           s == send_head_status(p, fs)
       IN resp' = [resp EXCEPT ![cur] =
                 [req |-> req[cur], status |-> s,
                  served |-> send_head_served(p, fs),
                  cache |-> end_headers_cache(p),
                  lines |-> LogLines(req[cur].path, s),
                  lc |-> route.lc, stable |-> route.fs = fs, fs |-> fs]]
    /\ srv' = "select"
    /\ cur' = None
    /\ route' = None
    /\ UNCHANGED <<fs, running, backlog, connected, req>>

(***************************************************************************)
(* Ctrl+C raises KeyboardInterrupt in the serving thread wherever it is.   *)
(* socketserver re-raises it after closing the current connection, the     *)
(* with-block closes the listening socket (dropping the backlog), and      *)
(* start_server prints the goodbye and returns: exit status 0 (531-533).   *)
(***************************************************************************)
Interrupt ==
    /\ running
    /\ running' = FALSE
    /\ resp' = [c \in Clients |->
                  IF c = cur THEN Aborted
                  ELSE IF c \in backlog THEN Reset ELSE resp[c]]
    /\ cur' = None
    /\ backlog' = {}
    /\ route' = None
    /\ srv' = "select"
    /\ UNCHANGED <<fs, connected, req>>

Next ==
    \/ \E c \in Clients : Connect(c) \/ Send(c) \/ Accept(c)
    \/ \E f \in Mutable : ChangeFile(f)
    \/ ReadRequest
    \/ Open
    \/ Interrupt

\* serve_forever is a loop of one thread that never blocks except on a
\* client that has not yet written its request.
Serving == ReadRequest \/ Open \/ \E c \in Clients : Accept(c)

Spec == Init /\ [][Next]_vars

\* Only the serving thread is fair: clients may stay silent forever, since
\* the handler sets no timeout on its read.
FairSpec == Spec /\ WF_vars(Serving)
-----------------------------------------------------------------------------
(***************************************************************************)
(* The routing contract of spec section 4.2 and the end-to-end examples of *)
(* section 8: an alias is served from the file its table row names (the   *)
(* lifecycle row depending on that file's existence), any other plain     *)
(* file path from that file, and either is a 404 exactly when the file is  *)
(* absent.                                                                 *)
(***************************************************************************)
SpecAliasRows(disk) ==
    {<<Root, DashboardIndex>>, <<Seg("unsafe", ""), UnsafeDashV2>>,
     <<Seg("memory", ""), MemoryDash>>, <<Seg("classic", ""), ClassicIndex>>,
     <<Seg("lifecycle", ""),
       IF disk[LifecycleDash] THEN LifecycleDash ELSE MemoryDash>>}

\* The file the contract serves for path p on disk, or None if p is
\* neither an alias nor a plain file path (the contract does not say).
SpecTarget(p, disk) ==
    IF \E row \in SpecAliasRows(disk) : row[1] = p.seg /\ ~p.query
    THEN (CHOOSE row \in SpecAliasRows(disk) : row[1] = p.seg)[2]
    ELSE IF p.seg \in Files /\ ~p.query /\ ~p.slash THEN p.seg ELSE None

SpecAgrees(r) ==
    LET t == SpecTarget(r.req.path, r.fs) IN
    t # None => /\ r.status = (IF r.fs[t] THEN 200 ELSE 404)
                /\ r.status = 200 => r.served = t

Answered(c) == resp[c] \notin {None, Aborted, Reset}

(***************************************************************************)
(* RequestDeterministic: every GET answered while no other process changed *)
(* the directory during the request was answered as the routing contract   *)
(* says for that directory.  It covers do_GET's alias chain together with  *)
(* send_head's trailing-slash, root and open-failure paths.               *)
(***************************************************************************)
RequestDeterministic ==
    \A c \in Clients :
        Answered(c) /\ resp[c].req.method = "GET" /\ resp[c].stable
            => SpecAgrees(resp[c])

(***************************************************************************)
(* AliasResolvedAtResponse: the response to a GET alias is what the        *)
(* routing contract says for the directory as it is when the response is   *)
(* produced (section 8: "/lifecycle when lifecycle_dashboard.html is      *)
(* absent returns memory_analysis_dashboard.html").  do_GET stats the     *)
(* lifecycle file one step before send_head opens it.                      *)
(***************************************************************************)
AliasResolvedAtResponse ==
    \A c \in Clients :
        Answered(c) /\ resp[c].req.method = "GET" => SpecAgrees(resp[c])

\* The classification section 4.3 asks for: 2xx, 404, anything else.
StatusClass(s) ==
    IF s \in 200..299 THEN "Success" ELSE IF s = 404 THEN "NotFound" ELSE "Other"

(***************************************************************************)
(* LogClassifiedByStatus: every console line log_message writes for a     *)
(* request carries the classification of the request's status (section    *)
(* 4.3 and design note 9), whatever digits occur in the request path.     *)
(***************************************************************************)
LogClassifiedByStatus ==
    \A c \in Clients :
        Answered(c) =>
            \A i \in 1..Len(resp[c].lines) :
                resp[c].lines[i] = StatusClass(resp[c].status)

(***************************************************************************)
(* AssetsCached: a successful response that delivers a stylesheet, script *)
(* or image file carries the public one-hour cache directive (section 4.3: *)
(* keyed on the resolved file's extension).  end_headers tests the raw     *)
(* self.path text instead.                                                  *)
(***************************************************************************)
AssetsCached ==
    \A c \in Clients :
        Answered(c) /\ resp[c].status = 200 /\ resp[c].served \in Files
        /\ resp[c].served.ext \in AssetExts
            => resp[c].cache

(***************************************************************************)
(* NoInFlightAbort: an interrupt never aborts a request the client has     *)
(* already sent (section 5: "no in-flight request is forcibly aborted").   *)
(* The handler runs in the thread that receives KeyboardInterrupt.         *)
(***************************************************************************)
NoInFlightAbort ==
    \A c \in Clients : resp[c] = Aborted => req[c] = None

\* The serving thread holds a connection whose client never writes: the
\* read of handle_one_request blocks with no timeout.
SilentInHand == cur # None /\ req[cur] = None

(***************************************************************************)
(* OnlySilentClientsStarve: every client that connects is eventually      *)
(* answered or has its connection closed by the interrupt, unless the     *)
(* single serving thread (serve_forever, line 529) ends up blocked for     *)
(* good on a connection that never sends.  No fairness is assumed of       *)
(* clients, so that blocking is the hazard this property isolates: the     *)
(* serving loop itself never leaves a connection waiting.                  *)
(***************************************************************************)
OnlySilentClientsStarve ==
    \A c \in Clients : c \in connected ~> (resp[c] # None \/ []SilentInHand)
-----------------------------------------------------------------------------
(***************************************************************************)
(* Refinement of ServerContract.  The contract's queue is the kernel       *)
(* backlog and the client in hand is cur; an answer is a response's       *)
(* request and status.  do_GET's alias check (ReadRequest of a GET or      *)
(* HEAD) and other processes' file changes are stutters of the contract;  *)
(* a 501, and send_head's response, are its Answer step.                  *)
(***************************************************************************)
Outcome ==
    [c \in Clients |-> IF Answered(c)
                       THEN [req |-> resp[c].req, status |-> resp[c].status]
                       ELSE resp[c]]

Contract == INSTANCE ServerContract
    WITH queued <- backlog, serving <- cur, outcome <- Outcome

(***************************************************************************)
(* ImplementsServerContract: the serving loop answers one connection at a *)
(* time, each once, for the request it sent, with 501 exactly for methods *)
(* without a do_ handler, and the interrupt closes only the connection in *)
(* hand and the queued ones (serve_forever, handle_one_request, 529-533). *)
(***************************************************************************)
ImplementsServerContract == Contract!Spec
=============================================================================
