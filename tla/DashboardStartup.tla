--------------------------- MODULE DashboardStartup ---------------------------
(***************************************************************************)
(* The startup path of src/start_web_dashboard.py: start_server (lines    *)
(* 453-536) with the helpers it calls -- create_dashboard_index (78-394),  *)
(* check_data_files (396-416), find_available_port (418-430),              *)
(* list_available_dashboards (432-451) -- and the daemon browser thread    *)
(* (514-526).  The main thread is one process whose program counter pc    *)
(* names the next statement; every filesystem or socket call is a step of *)
(* its own, so that the environment (a data producer, other programs       *)
(* taking ports, the operator's Ctrl+C) can act between two calls.  The   *)
(* operator may run the script again after it exits: the web_dashboard    *)
(* directory and other programs' sockets persist across runs.             *)
(***************************************************************************)
EXTENDS Integers, Sequences, FiniteSets

CONSTANTS
    StartPorts,   \* values of --port the operator may pass (main, line 582)
    PortRange,    \* ports find_available_port tries: 100 in the code (line 422)
    ChurnPorts,   \* ports other programs open and close while we start
    Built,        \* dashboard files the build left in web_dashboard/
    Volatile,     \* dashboard files another process may add or remove
    MaxRuns,      \* bound on how often the operator runs the script
    MaxDataVer    \* bound on how often the data producer rewrites data.json

\* TCP ports are 16-bit: socket.bind raises OverflowError outside 0..65535.
MaxPort == 65535

\* known_dashboards of list_available_dashboards, in order (lines 438-444).
KnownDashboards == <<"dashboard_index.html", "index.html",
                     "memory_analysis_dashboard.html",
                     "unsafe_ffi_dashboard.html",
                     "unsafe_ffi_dashboard_v2.html">>
Dashboards == {KnownDashboards[i] : i \in 1..Len(KnownDashboards)}

\* The dashboard cards the generated index page links to (lines 275-345),
\* written whatever is on disk.
IndexCards == {"unsafe_ffi_dashboard_v2.html", "memory_analysis_dashboard.html",
               "unsafe_ffi_dashboard.html", "index.html"}

\* --port is a TCP port from 1 (spec 8: "for all start >= 1"); argparse
\* would accept any int, and values outside 1..65535 are not modelled.
\* A scan that runs past 65535 still is.
ASSUME StartupAssumption ==
    /\ StartPorts \subseteq 1 .. MaxPort
    /\ PortRange \in Nat \ {0}
    /\ Built \subseteq Dashboards
    /\ Volatile \subseteq Dashboards
    /\ MaxRuns \in Nat \ {0}
    /\ MaxDataVer \in Nat

\* Every port a scan can reach, and those a socket can hold.
ScanPorts == UNION {s .. (s + PortRange - 1) : s \in StartPorts}
ScanSpan  == UNION {s .. (s + PortRange) : s \in StartPorts}
RealPorts == ScanPorts \cap 0..MaxPort
ASSUME ChurnAssumption == ChurnPorts \subseteq RealPorts

\* Who holds a port: nobody, another program on loopback or on all
\* interfaces ("loopback": a localhost probe fails too), another program on
\* a different interface only ("elsewhere": the localhost probe succeeds,
\* the bind to "" does not), or this process.
Holders == {"free", "loopback", "elsewhere", "self"}

\* How a run ended: "graceful" is exit 0 (lines 531-533), "fatal" exit 1
\* with a message (lines 459-461, 477-478, 534-536), "traceback" exit 1
\* from an exception nothing catches, "sigint" the exit of an uncaught
\* KeyboardInterrupt.
Exits == {"running", "graceful", "fatal", "traceback", "sigint"}

\* pc values whose statements lie inside the try of lines 481-535.
InTry == {"bind", "spawn", "serve"}

VARIABLES
    pc,        \* main thread: next statement of start_server
    runs,      \* runs of the script so far
    exit,      \* how the current run ended
    rootExists, autoOpen, start,   \* the run's environment and arguments
    index,     \* web_dashboard/dashboard_index.html: "absent" | "empty" | "written"
    cards,     \* the dashboards the index page links to
    cardsDisk, \* the dashboards on disk when the page was generated
    dash,      \* dashboard files on disk
    data,      \* web_dashboard/data.json: [present, ver]
    status,    \* the DataStatus dict check_data_files builds (lines 399-403)
    li,        \* list_available_dashboards: position in KnownDashboards
    listed,    \* the dashboards it collected
    pp,        \* find_available_port: the port being probed
    port,      \* the port start_server binds
    occ,       \* holder of each real port
    blocker,   \* who held the port when the bind of line 482 failed
    browser,   \* the daemon thread of lines 515-526
    shown,     \* what the browser thread printed: "none" | "opened" | "warning"
    launched   \* whether a browser window really opened

vars == <<pc, runs, exit, rootExists, autoOpen, start, index, cards, cardsDisk,
          dash, data, status, li, listed, pp, port, occ, blocker, browser, shown,
          launched>>

NoStatus == [has |-> FALSE, size |-> 0, mtime |-> 0, sized |-> FALSE, timed |-> FALSE]

TypeOK ==
    /\ pc \in {"dircheck", "indexcheck", "indexopen", "indexwrite", "probe1",
               "probe2", "statsize", "statmtime", "listexists", "liststat",
               "scan", "bind", "spawn", "serve", "exited"}
    /\ runs \in 1..MaxRuns
    /\ exit \in Exits
    /\ rootExists \in BOOLEAN /\ autoOpen \in BOOLEAN /\ start \in StartPorts
    /\ index \in {"absent", "empty", "written"}
    /\ cards \subseteq Dashboards /\ cardsDisk \subseteq Dashboards
    /\ dash \subseteq Dashboards
    /\ data \in [present: BOOLEAN, ver: 0..MaxDataVer]
    /\ status \in [has: BOOLEAN, size: 0..MaxDataVer, mtime: 0..MaxDataVer,
                   sized: BOOLEAN, timed: BOOLEAN]
    /\ li \in 1..(Len(KnownDashboards) + 1)
    /\ listed \subseteq Dashboards
    /\ pp \in ScanSpan /\ port \in RealPorts
    /\ occ \in [RealPorts -> Holders]
    /\ blocker \in Holders
    /\ browser \in {"off", "sleeping", "done"}
    /\ shown \in {"none", "opened", "warning"}
    /\ launched \in BOOLEAN

\* The per-run state when main() calls start_server (lines 582-584): the
\* arguments parsed, nothing probed, listed or bound yet.
RunFresh ==
    /\ pc = "dircheck" /\ exit = "running"
    /\ autoOpen \in BOOLEAN /\ start \in StartPorts
    /\ status = NoStatus /\ li = 1 /\ listed = {}
    /\ pp = start /\ port = start
    /\ blocker = "free" /\ browser = "off" /\ shown = "none" /\ launched = FALSE

\* The directory as earlier runs and the build left it: the built
\* dashboards, an index page written or not, data.json present or not,
\* other programs holding any ports.
Init ==
    /\ runs = 1 /\ rootExists \in BOOLEAN
    /\ index \in {"absent", "written"} /\ cards = IndexCards /\ cardsDisk = Dashboards
    /\ dash = Built
    /\ data \in [present: BOOLEAN, ver: {0}]
    /\ occ \in [RealPorts -> {"free", "loopback", "elsewhere"}]
    /\ RunFresh

-----------------------------------------------------------------------------
(***************************************************************************)
(* The main thread.  Each action is one statement of start_server or of    *)
(* the helper it is in; Goto moves to the next one.                       *)
(***************************************************************************)
Goto(l) == pc' = l

\* Leaving start_server: the `with` of line 482 closes the server socket
\* and the process exit ends the daemon browser thread.
Leave(how) ==
    /\ pc' = "exited" /\ exit' = how
    /\ occ' = [p \in RealPorts |-> IF occ[p] = "self" THEN "free" ELSE occ[p]]
    /\ browser' = IF browser = "sleeping" THEN "done" ELSE browser

\* Lines 457-461: no web_dashboard directory, exit 1.
DirCheck ==
    /\ pc = "dircheck"
    /\ IF rootExists THEN Goto("indexcheck") /\ UNCHANGED <<exit, occ, browser>>
                     ELSE Leave("fatal")
    /\ UNCHANGED <<runs, rootExists, autoOpen, start, index, cards, cardsDisk, dash,
                   data, status, li, listed, pp, port, blocker, shown, launched>>

\* Lines 464-465: the index is created only when no file of that name
\* exists, whatever the file holds.
IndexCheck ==
    /\ pc = "indexcheck"
    /\ Goto(IF index = "absent" THEN "indexopen" ELSE "probe1")
    /\ UNCHANGED <<runs, exit, rootExists, autoOpen, start, index, cards, cardsDisk,
                   dash, data, status, li, listed, pp, port, occ, blocker, browser, shown, launched>>

\* Line 393: open(..., "w") creates or truncates the file.
IndexOpen ==
    /\ pc = "indexopen"
    /\ index' = "empty"
    /\ Goto("indexwrite")
    /\ UNCHANGED <<runs, exit, rootExists, autoOpen, start, cards, cardsDisk, dash,
                   data, status, li, listed, pp, port, occ, blocker, browser, shown, launched>>

\* Line 394: the fixed page, with its four cards, is written.
IndexWrite ==
    /\ pc = "indexwrite"
    /\ index' = "written" /\ cards' = IndexCards /\ cardsDisk' = dash
    /\ Goto("probe1")
    /\ UNCHANGED <<runs, exit, rootExists, autoOpen, start, dash, data, status,
                   li, listed, pp, port, occ, blocker, browser, shown, launched>>

\* Line 400: 'has_data': data_file.exists().
Probe1 ==
    /\ pc = "probe1"
    /\ status' = [status EXCEPT !.has = data.present]
    /\ Goto("probe2")
    /\ UNCHANGED <<runs, exit, rootExists, autoOpen, start, index, cards, cardsDisk,
                   dash, data, li, listed, pp, port, occ, blocker, browser, shown, launched>>

\* Line 405: a second exists(); if false the warning of lines 409-414.
Probe2 ==
    /\ pc = "probe2"
    /\ Goto(IF data.present THEN "statsize" ELSE "listexists")
    /\ UNCHANGED <<runs, exit, rootExists, autoOpen, start, index, cards, cardsDisk,
                   dash, data, status, li, listed, pp, port, occ, blocker, browser, shown, launched>>

\* Lines 406 and 407: two stat() calls; a file gone by then raises
\* FileNotFoundError, which nothing in start_server catches (line 468).
StatCall(field, flag, next) ==
    /\ IF data.present
       THEN /\ status' = [status EXCEPT ![field] = data.ver, ![flag] = TRUE]
            /\ Goto(next) /\ UNCHANGED <<exit, occ, browser>>
       ELSE Leave("traceback") /\ UNCHANGED status
    /\ UNCHANGED <<runs, rootExists, autoOpen, start, index, cards, cardsDisk, dash,
                   data, li, listed, pp, port, blocker, shown, launched>>

StatSize  == pc = "statsize"  /\ StatCall("size", "sized", "statmtime")
StatMtime == pc = "statmtime" /\ StatCall("mtime", "timed", "listexists")

\* Lines 446-449: for each known dashboard, exists() and then stat(); the
\* stat of a file removed in between raises, uncaught (line 471).
ListExists ==
    /\ pc = "listexists"
    /\ IF li > Len(KnownDashboards) THEN Goto("scan")
       ELSE IF KnownDashboards[li] \in dash THEN Goto("liststat")
       ELSE Goto("listexists")
    /\ li' = IF li <= Len(KnownDashboards) /\ KnownDashboards[li] \notin dash
             THEN li + 1 ELSE li
    /\ UNCHANGED <<runs, exit, rootExists, autoOpen, start, index, cards, cardsDisk,
                   dash, data, status, listed, pp, port, occ, blocker, browser, shown, launched>>

ListStat ==
    /\ pc = "liststat"
    /\ IF KnownDashboards[li] \in dash
       THEN /\ listed' = listed \cup {KnownDashboards[li]} /\ li' = li + 1
            /\ Goto("listexists") /\ UNCHANGED <<exit, occ, browser>>
       ELSE Leave("traceback") /\ UNCHANGED <<listed, li>>
    /\ UNCHANGED <<runs, rootExists, autoOpen, start, index, cards, cardsDisk, dash,
                   data, status, pp, port, blocker, shown, launched>>

\* Seeded faults for mutation checking of Scan: the probe socket left open
\* (no `with`), the port not advanced after an OSError, and OverflowError
\* taken for a successful probe.
Scan_leaky ==
    /\ pc = "scan"
    /\ \/ pp >= start + PortRange /\ Leave("fatal") /\ UNCHANGED <<pp, port>>
       \/ /\ pp < start + PortRange /\ pp \notin 0..MaxPort
          /\ Leave("traceback") /\ UNCHANGED <<pp, port>>
       \/ /\ pp < start + PortRange /\ pp \in 0..MaxPort /\ occ[pp] = "loopback"
          /\ pp' = pp + 1 /\ UNCHANGED <<pc, exit, occ, browser, port>>
       \/ /\ pp < start + PortRange /\ pp \in 0..MaxPort /\ occ[pp] # "loopback"
          /\ port' = pp /\ Goto("bind") /\ occ' = [occ EXCEPT ![pp] = "self"]
          /\ UNCHANGED <<exit, browser, pp>>
    /\ UNCHANGED <<runs, rootExists, autoOpen, start, index, cards, cardsDisk, dash,
                   data, status, li, listed, blocker, shown, launched>>

Scan_stuck ==
    /\ pc = "scan"
    /\ \/ pp >= start + PortRange /\ Leave("fatal") /\ UNCHANGED <<pp, port>>
       \/ /\ pp < start + PortRange /\ pp \notin 0..MaxPort
          /\ Leave("traceback") /\ UNCHANGED <<pp, port>>
       \/ /\ pp < start + PortRange /\ pp \in 0..MaxPort /\ occ[pp] = "loopback"
          /\ UNCHANGED <<pp, pc, exit, occ, browser, port>>
       \/ /\ pp < start + PortRange /\ pp \in 0..MaxPort /\ occ[pp] # "loopback"
          /\ port' = pp /\ Goto("bind") /\ UNCHANGED <<exit, occ, browser, pp>>
    /\ UNCHANGED <<runs, rootExists, autoOpen, start, index, cards, cardsDisk, dash,
                   data, status, li, listed, blocker, shown, launched>>

Scan_overflow_unchecked ==
    /\ pc = "scan"
    /\ \/ pp >= start + PortRange /\ Leave("fatal") /\ UNCHANGED <<pp, port>>
       \/ /\ pp < start + PortRange /\ pp \notin 0..MaxPort
          /\ port' = pp /\ Goto("bind") /\ UNCHANGED <<exit, occ, browser, pp>>
       \/ /\ pp < start + PortRange /\ pp \in 0..MaxPort /\ occ[pp] = "loopback"
          /\ pp' = pp + 1 /\ UNCHANGED <<pc, exit, occ, browser, port>>
       \/ /\ pp < start + PortRange /\ pp \in 0..MaxPort /\ occ[pp] # "loopback"
          /\ port' = pp /\ Goto("bind") /\ UNCHANGED <<exit, occ, browser, pp>>
    /\ UNCHANGED <<runs, rootExists, autoOpen, start, index, cards, cardsDisk, dash,
                   data, status, li, listed, blocker, shown, launched>>

\* Lines 421-430: find_available_port binds ('localhost', port) and closes
\* the socket at once; OSError moves on to the next port, the end of
\* range() raises RuntimeError (exit 1 at lines 476-478), and a port
\* outside 0..65535 raises OverflowError, which is no OSError and escapes.
Scan ==
    /\ pc = "scan"
    /\ \/ pp >= start + PortRange /\ Leave("fatal") /\ UNCHANGED <<pp, port>>
       \/ /\ pp < start + PortRange /\ pp \notin 0..MaxPort
          /\ Leave("traceback") /\ UNCHANGED <<pp, port>>
       \/ /\ pp < start + PortRange /\ pp \in 0..MaxPort /\ occ[pp] = "loopback"
          /\ pp' = pp + 1 /\ UNCHANGED <<pc, exit, occ, browser, port>>
       \/ /\ pp < start + PortRange /\ pp \in 0..MaxPort /\ occ[pp] # "loopback"
          /\ port' = pp /\ Goto("bind") /\ UNCHANGED <<exit, occ, browser, pp>>
    /\ UNCHANGED <<runs, rootExists, autoOpen, start, index, cards, cardsDisk, dash,
                   data, status, li, listed, blocker, shown, launched>>

\* Seeded fault for mutation checking of Bind: a port another program
\* holds on a different interface taken as bindable.
Bind_elsewhere ==
    /\ pc = "bind"
    /\ IF occ[port] \in {"free", "elsewhere"}
       THEN /\ occ' = [occ EXCEPT ![port] = "self"] /\ Goto("spawn")
            /\ UNCHANGED <<exit, browser, blocker>>
       ELSE /\ blocker' = occ[port] /\ Leave("fatal")
    /\ UNCHANGED <<runs, rootExists, autoOpen, start, index, cards, cardsDisk, dash,
                   data, status, li, listed, pp, port, shown, launched>>

\* Line 482: TCPServer(("", port)) binds all interfaces, so a program
\* holding the port on any address makes it raise OSError, caught by the
\* generic handler of lines 534-536 (exit 1).
Bind ==
    /\ pc = "bind"
    /\ IF occ[port] = "free"
       THEN /\ occ' = [occ EXCEPT ![port] = "self"] /\ Goto("spawn")
            /\ UNCHANGED <<exit, browser, blocker>>
       ELSE /\ blocker' = occ[port] /\ Leave("fatal")
    /\ UNCHANGED <<runs, rootExists, autoOpen, start, index, cards, cardsDisk, dash,
                   data, status, li, listed, pp, port, shown, launched>>

\* Lines 513-526: with auto_open the daemon browser thread is started, then
\* serve_forever (line 529) blocks until an interrupt.
Spawn ==
    /\ pc = "spawn"
    /\ browser' = IF autoOpen THEN "sleeping" ELSE "off"
    /\ Goto("serve")
    /\ UNCHANGED <<runs, exit, rootExists, autoOpen, start, index, cards, cardsDisk,
                   dash, data, status, li, listed, pp, port, occ, blocker, shown, launched>>

\* Ctrl+C raises KeyboardInterrupt in the main thread at whatever statement
\* it is in.  Only the try of lines 481-535 catches it (exit 0); anywhere
\* earlier it escapes main().  An interrupt between the open and the write
\* of line 393 leaves the index page empty.
Interrupt ==
    /\ pc # "exited"
    /\ Leave(IF pc \in InTry THEN "graceful" ELSE "sigint")
    /\ UNCHANGED <<runs, rootExists, autoOpen, start, index, cards, cardsDisk, dash,
                   data, status, li, listed, pp, port, blocker, shown, launched>>

\* The browser thread after its sleep (lines 517-523): webbrowser.open
\* returns True, returns False when no browser can be started, or raises;
\* only the exception gives the warning.  The thread dies with the process.
BrowserOpen ==
    /\ browser = "sleeping" /\ pc # "exited"
    /\ \E outcome \in {"true", "false", "raise"} :
          /\ launched' = (outcome = "true")
          /\ shown' = IF outcome = "raise" THEN "warning" ELSE "opened"
    /\ browser' = "done"
    /\ UNCHANGED <<pc, runs, exit, rootExists, autoOpen, start, index, cards, cardsDisk,
                   dash, data, status, li, listed, pp, port, occ, blocker>>

\* The operator runs the script again; disk and other programs' ports stay.
Restart ==
    /\ pc = "exited" /\ runs < MaxRuns
    /\ runs' = runs + 1
    /\ pc' = "dircheck" /\ exit' = "running"
    /\ autoOpen' \in BOOLEAN /\ start' \in StartPorts
    /\ status' = NoStatus /\ li' = 1 /\ listed' = {}
    /\ pp' = start' /\ port' = start'
    /\ blocker' = "free" /\ browser' = "off" /\ shown' = "none" /\ launched' = FALSE
    /\ UNCHANGED <<rootExists, index, cards, cardsDisk, dash, data, occ>>

-----------------------------------------------------------------------------
(***************************************************************************)
(* The environment.                                                        *)
(***************************************************************************)

\* The external producer (a cargo example) writes a new data.json.
Produce ==
    /\ data.ver < MaxDataVer
    /\ data' = [present |-> TRUE, ver |-> data.ver + 1]
    /\ UNCHANGED <<pc, runs, exit, rootExists, autoOpen, start, index, cards, cardsDisk,
                   dash, status, li, listed, pp, port, occ, blocker, browser, shown, launched>>

\* data.json is removed (the producer replacing it, or the user).
RemoveData ==
    /\ data.present
    /\ data' = [data EXCEPT !.present = FALSE]
    /\ UNCHANGED <<pc, runs, exit, rootExists, autoOpen, start, index, cards, cardsDisk,
                   dash, status, li, listed, pp, port, occ, blocker, browser, shown, launched>>

\* Another program opens or closes a socket on port p.
Churn(p) ==
    /\ occ[p] # "self"
    /\ \E h \in {"free", "loopback", "elsewhere"} \ {occ[p]} : occ' = [occ EXCEPT ![p] = h]
    /\ UNCHANGED <<pc, runs, exit, rootExists, autoOpen, start, index, cards, cardsDisk,
                   dash, data, status, li, listed, pp, port, blocker, browser, shown, launched>>

\* A dashboard file is built or deleted.
DashToggle(f) ==
    /\ dash' = IF f \in dash THEN dash \ {f} ELSE dash \cup {f}
    /\ UNCHANGED <<pc, runs, exit, rootExists, autoOpen, start, index, cards, cardsDisk,
                   data, status, li, listed, pp, port, occ, blocker, browser, shown, launched>>

Main ==
    \/ DirCheck \/ IndexCheck \/ IndexOpen \/ IndexWrite \/ Probe1 \/ Probe2
    \/ StatSize \/ StatMtime \/ ListExists \/ ListStat \/ Scan \/ Bind \/ Spawn

Next ==
    \/ Main \/ Interrupt \/ BrowserOpen \/ Restart
    \/ Produce \/ RemoveData
    \/ \E p \in ChurnPorts : Churn(p)
    \/ \E f \in Volatile : DashToggle(f)

\* The main thread is never starved: it runs whenever it has a statement
\* to run.  The operator, the browser and the other programs owe nothing.
Spec == Init /\ [][Next]_vars
FairSpec == Spec /\ WF_vars(Main)

-----------------------------------------------------------------------------
(***************************************************************************)
(* Properties.                                                             *)
(***************************************************************************)

\* NoSelfConflict: when the bind of line 482 fails, the port is held by
\* another program, never by this process -- find_available_port's probe
\* socket is closed (the `with` of line 425) before start_server binds.
NoSelfConflict == exit = "fatal" /\ pc = "exited" => blocker # "self"

\* StartupSettles: every run of start_server either reaches serve_forever
\* or exits, whatever other programs do with the ports: the port search of
\* lines 422-428 is bounded and every other step is a single call.
StartupSettles == pc = "dircheck" ~> pc \in {"serve", "exited"}

\* InterruptIsGraceful (spec sections 5-7): an operator interrupt is a
\* graceful shutdown with exit status 0, wherever start_server is.
InterruptIsGraceful == exit # "sigint"

\* NoUncaughtException (spec section 7): every fatal condition of startup
\* is reported with a message and exit 1; none escapes as a traceback
\* (check_data_files, list_available_dashboards, find_available_port).
NoUncaughtException == exit # "traceback"

\* IndexIntactWhenServing: whenever the server is serving, the landing page
\* it serves for "/" is a complete page, across interrupted earlier runs.
IndexIntactWhenServing == pc = "serve" => index = "written"

-----------------------------------------------------------------------------
(***************************************************************************)
(* Refinement.  A run is "serving" from the successful bind of line 482    *)
(* on, and the abstract sockets are the real ones.                          *)
(***************************************************************************)
Phase == IF pc \in {"spawn", "serve"} THEN "serving"
         ELSE IF pc = "exited" THEN "exited" ELSE "starting"

Contract == INSTANCE StartupContract WITH phase <- Phase, Ports <- RealPorts

\* ImplementsContract: start_server, with its probe-and-release port search
\* (lines 421-428), the real bind (482) and every exit path (459-461,
\* 476-478, 531-536, uncaught exceptions, Ctrl+C), behaves as the contract:
\* it binds only a free port of [start, start + 100), holds nothing else,
\* and releases its socket whenever a run ends.
ImplementsContract == Contract!Spec

=============================================================================
