--------------------------- MODULE StartupContract ---------------------------
(***************************************************************************)
(* What startup promises about sockets, with no control flow: a run of    *)
(* the dashboard server is starting, serving or exited.  It serves only    *)
(* after binding, in one step, a port that nobody holds, taken from the    *)
(* range [start, start + PortRange) of its --port argument (spec 4.1,      *)
(* 4.2 "ServerConfig.port is validated free immediately before bind"); it  *)
(* holds that one port and no other while it serves (spec 5: "the only     *)
(* shared resource is the listening socket"); every way out of a run       *)
(* releases what it holds.  Other programs open and close sockets on the   *)
(* ports this process does not hold.  The probe-and-release port search    *)
(* and every diagnostic step of DashboardStartup are invisible here.       *)
(***************************************************************************)
EXTENDS Integers

CONSTANTS
    StartPorts,  \* values of --port
    PortRange,   \* width of the port search
    Ports        \* ports a socket can hold

VARIABLES
    phase,  \* "starting" | "serving" | "exited"
    start,  \* the run's --port
    occ     \* holder of each port: "free", "loopback", "elsewhere" or "self"

avars == <<phase, start, occ>>

Others == {"free", "loopback", "elsewhere"}

\* Release every port this process holds.
Released == [p \in Ports |-> IF occ[p] = "self" THEN "free" ELSE occ[p]]

Init ==
    /\ phase = "starting" /\ start \in StartPorts
    /\ occ \in [Ports -> Others]

\* The real bind: one free port of the run's range becomes ours.
Serve ==
    /\ phase = "starting"
    /\ \E p \in (start .. start + PortRange - 1) \cap Ports :
          /\ occ[p] = "free"
          /\ occ' = [occ EXCEPT ![p] = "self"]
    /\ phase' = "serving"
    /\ UNCHANGED start

\* Any exit -- fatal error, traceback, interrupt -- releases our socket.
Exit ==
    /\ phase # "exited"
    /\ phase' = "exited" /\ occ' = Released
    /\ UNCHANGED start

Restart ==
    /\ phase = "exited"
    /\ phase' = "starting" /\ start' \in StartPorts
    /\ UNCHANGED occ

\* Another program changes its hold on a port we do not hold.
Churn ==
    /\ \E p \in Ports :
          /\ occ[p] # "self"
          /\ \E h \in Others : occ' = [occ EXCEPT ![p] = h]
    /\ UNCHANGED <<phase, start>>

Next == Serve \/ Exit \/ Restart \/ Churn

Spec == Init /\ [][Next]_avars
=============================================================================
