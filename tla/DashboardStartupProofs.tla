------------------------ MODULE DashboardStartupProofs ------------------------
(***************************************************************************)
(* Proofs about DashboardStartup, for every value of the constants that    *)
(* StartupAssumption and ChurnAssumption allow: the type invariant, that a *)
(* failed bind never blames this process, and that start_server implements *)
(* StartupContract under the mapping Phase.                                 *)
(***************************************************************************)
EXTENDS DashboardStartup, TLAPS

\* Scanning: the port being probed never falls below the run's --port,
\* and goes at most one past the end of the range (the step that finds
\* the range exhausted).
ScanInRun == pp \in start .. start + PortRange

\* Ports: this process holds a socket exactly from the successful bind of
\* line 482 until the run ends, and it is the port it bound; the probe
\* socket of line 425 is never held across a step.
HeldOnlyWhileServing ==
    /\ \A p \in RealPorts : occ[p] = "self" => pc \in {"spawn", "serve"} /\ p = port
    /\ pc \in {"spawn", "serve"} => occ[port] = "self"

\* list_available_dashboards stats only a name it has just found.
ListInRange == pc = "liststat" => li \in 1 .. Len(KnownDashboards)

\* The port start_server binds was found by the search of this run.
BindInRange == pc = "bind" => port \in start .. start + PortRange - 1

IInv ==
    /\ TypeOK
    /\ ScanInRun
    /\ HeldOnlyWhileServing
    /\ BindInRange
    /\ ListInRange
    /\ blocker # "self"

USE StartupAssumption, ChurnAssumption

\* Where a port of the run's range lies among the sets TypeOK uses.
LEMMA RangePorts ==
    ASSUME NEW s \in StartPorts, NEW q \in s .. s + PortRange
    PROVE  /\ q \in ScanSpan
           /\ q \in 0 .. MaxPort /\ q < s + PortRange => q \in RealPorts
  <1>0. s \in Int /\ PortRange \in Nat
    OBVIOUS
  <1>1. q \in ScanSpan
    BY DEF ScanSpan
  <1>2. q \in 0 .. MaxPort /\ q < s + PortRange => q \in ScanPorts
    <2> HAVE q \in 0 .. MaxPort /\ q < s + PortRange
    <2>1. q \in s .. (s + PortRange - 1)
      BY <1>0
    <2>2. QED
      BY <2>1, Zenon DEF ScanPorts
  <1>3. QED
    BY <1>1, <1>2 DEF RealPorts

\* The --port of a run is a port a socket can hold.
LEMMA StartIsReal ==
    ASSUME NEW s \in StartPorts
    PROVE  s \in RealPorts /\ s \in ScanSpan /\ s \in s .. s + PortRange
  <1>a. StartPorts \subseteq 1 .. MaxPort /\ PortRange \in Nat \ {0}
    BY StartupAssumption
  <1>1. s \in s .. s + PortRange /\ s < s + PortRange /\ s \in 0 .. MaxPort
    BY <1>a
  <1>2. QED
    BY <1>1, RangePorts

\* list_available_dashboards walks five names; the index page links four
\* of them.
LEMMA KnownDashboardsFacts ==
    /\ Len(KnownDashboards) = 5
    /\ \A i \in 1 .. 5 : KnownDashboards[i] \in Dashboards
    /\ IndexCards \subseteq Dashboards
  <1>1. Len(KnownDashboards) = 5
    BY DEF KnownDashboards
  <1>2. \A i \in 1 .. 5 : KnownDashboards[i] \in Dashboards
    BY <1>1 DEF Dashboards
  <1>3. IndexCards \subseteq Dashboards
    <2>1. /\ KnownDashboards[2] = "index.html"
          /\ KnownDashboards[3] = "memory_analysis_dashboard.html"
          /\ KnownDashboards[4] = "unsafe_ffi_dashboard.html"
          /\ KnownDashboards[5] = "unsafe_ffi_dashboard_v2.html"
      BY DEF KnownDashboards
    <2>2. QED
      BY <1>2, <2>1 DEF IndexCards
  <1>4. QED
    BY <1>1, <1>2, <1>3

LEMMA IInvInit == Init => IInv
  <1> SUFFICES ASSUME Init PROVE IInv
    OBVIOUS
  <1>1. start \in RealPorts /\ start \in ScanSpan
    BY StartIsReal DEF Init, RunFresh
  <1>2. TypeOK
    <2>1. pc \in {"dircheck"} /\ runs \in 1..MaxRuns /\ exit \in Exits
      BY DEF Init, RunFresh, Exits
    <2>2. index \in {"absent", "empty", "written"} /\ cards \subseteq Dashboards
          /\ cardsDisk \subseteq Dashboards /\ dash \subseteq Dashboards
      BY KnownDashboardsFacts DEF Init
    <2>3. data \in [present: BOOLEAN, ver: 0..MaxDataVer]
      BY DEF Init
    <2>4. status \in [has: BOOLEAN, size: 0..MaxDataVer, mtime: 0..MaxDataVer,
                       sized: BOOLEAN, timed: BOOLEAN]
      BY DEF Init, RunFresh, NoStatus
    <2>5. li \in 1..(Len(KnownDashboards) + 1) /\ listed \subseteq Dashboards
      BY KnownDashboardsFacts DEF Init, RunFresh
    <2>6. pp \in ScanSpan /\ port \in RealPorts
      BY <1>1 DEF Init, RunFresh
    <2>7. occ \in [RealPorts -> Holders] /\ blocker \in Holders
      BY DEF Init, RunFresh, Holders
    <2>8. QED
      BY <2>1, <2>2, <2>3, <2>4, <2>5, <2>6, <2>7 DEF Init, RunFresh, TypeOK
  <1>3. ScanInRun /\ BindInRange /\ blocker # "self"
    BY DEF Init, RunFresh, ScanInRun, BindInRange
  <1>6. ListInRange
    BY DEF Init, RunFresh, ListInRange
  <1>4. HeldOnlyWhileServing
    BY DEF Init, RunFresh, HeldOnlyWhileServing
  <1>5. QED
    BY <1>2, <1>3, <1>4, <1>6 DEF IInv

\* Leaving a run releases every socket of this process and leaves the
\* holders of the other ports alone.
LEMMA LeaveReleases ==
    ASSUME NEW how \in Exits, occ \in [RealPorts -> Holders], Leave(how)
    PROVE  /\ occ' \in [RealPorts -> Holders]
           /\ \A p \in RealPorts : occ'[p] # "self"
           /\ pc' = "exited" /\ exit' \in Exits
           /\ browser \in {"off", "sleeping", "done"} => browser' \in {"off", "sleeping", "done"}
  BY DEF Leave, Holders

LEMMA IInvStep == IInv /\ [Next]_vars => IInv'
  <1> SUFFICES ASSUME IInv, [Next]_vars PROVE IInv'
    OBVIOUS
  <1>1. CASE DirCheck
    BY <1>1, LeaveReleases DEF IInv, TypeOK, ScanInRun, HeldOnlyWhileServing, BindInRange, ListInRange, DirCheck, Goto, Exits
  <1>2. CASE IndexCheck
    BY <1>2 DEF IInv, TypeOK, ScanInRun, HeldOnlyWhileServing, BindInRange, ListInRange, IndexCheck, Goto
  <1>3. CASE IndexOpen
    BY <1>3 DEF IInv, TypeOK, ScanInRun, HeldOnlyWhileServing, BindInRange, ListInRange, IndexOpen, Goto
  <1>4. CASE IndexWrite
    BY <1>4, KnownDashboardsFacts DEF IInv, TypeOK, ScanInRun, HeldOnlyWhileServing, BindInRange, ListInRange, IndexWrite, Goto
  <1>5. CASE Probe1
    BY <1>5 DEF IInv, TypeOK, ScanInRun, HeldOnlyWhileServing, BindInRange, ListInRange, Probe1, Goto
  <1>6. CASE Probe2
    BY <1>6 DEF IInv, TypeOK, ScanInRun, HeldOnlyWhileServing, BindInRange, ListInRange, Probe2, Goto
  <1>7. CASE StatSize
    BY <1>7, LeaveReleases DEF IInv, TypeOK, ScanInRun, HeldOnlyWhileServing, BindInRange, ListInRange, StatSize, StatCall, Goto, Exits
  <1>8. CASE StatMtime
    BY <1>8, LeaveReleases DEF IInv, TypeOK, ScanInRun, HeldOnlyWhileServing, BindInRange, ListInRange, StatMtime, StatCall, Goto, Exits
  <1>9. CASE ListExists
    BY <1>9, KnownDashboardsFacts DEF IInv, TypeOK, ScanInRun, HeldOnlyWhileServing, BindInRange, ListInRange, ListExists, Goto
  <1>10. CASE ListStat
    <2>1. CASE KnownDashboards[li] \in dash
      <3>1. li \in 1 .. 5 /\ li' = li + 1 /\ listed' = listed \cup {KnownDashboards[li]}
            /\ pc' = "listexists"
        BY <1>10, <2>1, KnownDashboardsFacts DEF ListStat, Goto, IInv, ListInRange
      <3>2. KnownDashboards[li] \in Dashboards
        BY <3>1, KnownDashboardsFacts
      <3>3. QED
        BY <1>10, <2>1, <3>1, <3>2, KnownDashboardsFacts DEF IInv, TypeOK, ScanInRun,
           HeldOnlyWhileServing, BindInRange, ListInRange, ListStat
    <2>2. CASE KnownDashboards[li] \notin dash
      BY <1>10, <2>2, LeaveReleases DEF IInv, TypeOK, ScanInRun, HeldOnlyWhileServing,
         BindInRange, ListInRange, ListStat, Exits
    <2>3. QED
      BY <2>1, <2>2
  <1>11. CASE Scan
    <2>0. pp \in start .. start + PortRange /\ start \in StartPorts /\ pc = "scan"
          /\ \A p \in RealPorts : occ[p] # "self"
      BY <1>11 DEF IInv, ScanInRun, TypeOK, HeldOnlyWhileServing, Scan
    <2>1. CASE pp >= start + PortRange /\ Leave("fatal") /\ UNCHANGED <<pp, port>>
      BY <1>11, <2>1, LeaveReleases DEF IInv, TypeOK, ScanInRun, HeldOnlyWhileServing,
         BindInRange, ListInRange, Scan, Exits
    <2>2. CASE /\ pp < start + PortRange /\ pp \notin 0..MaxPort
               /\ Leave("traceback") /\ UNCHANGED <<pp, port>>
      BY <1>11, <2>2, LeaveReleases DEF IInv, TypeOK, ScanInRun, HeldOnlyWhileServing,
         BindInRange, ListInRange, Scan, Exits
    <2>3. pp < start + PortRange /\ pp \in 0 .. MaxPort =>
            /\ pp \in RealPorts /\ pp \in start .. start + PortRange - 1
            /\ pp + 1 \in start .. start + PortRange /\ pp + 1 \in ScanSpan
      <3> HAVE pp < start + PortRange /\ pp \in 0 .. MaxPort
      <3>1. pp + 1 \in start .. start + PortRange /\ pp \in start .. start + PortRange - 1
        BY <2>0
      <3>2. QED
        BY <2>0, <3>1, RangePorts
    <2>4. CASE /\ pp < start + PortRange /\ pp \in 0..MaxPort /\ occ[pp] = "loopback"
               /\ pp' = pp + 1 /\ UNCHANGED <<pc, exit, occ, browser, port>>
      BY <1>11, <2>0, <2>3, <2>4 DEF IInv, TypeOK, ScanInRun, HeldOnlyWhileServing,
         BindInRange, ListInRange, Scan
    <2>5. CASE /\ pp < start + PortRange /\ pp \in 0..MaxPort /\ occ[pp] # "loopback"
               /\ port' = pp /\ Goto("bind") /\ UNCHANGED <<exit, occ, browser, pp>>
      BY <1>11, <2>0, <2>3, <2>5 DEF IInv, TypeOK, ScanInRun, HeldOnlyWhileServing,
         BindInRange, ListInRange, Scan, Goto
    <2>6. QED
      BY <1>11, <2>1, <2>2, <2>4, <2>5 DEF Scan
  <1>12. CASE Bind
    BY <1>12, LeaveReleases DEF IInv, TypeOK, ScanInRun, HeldOnlyWhileServing, BindInRange, ListInRange, Bind, Goto, Exits, Holders
  <1>13. CASE Spawn
    BY <1>13 DEF IInv, TypeOK, ScanInRun, HeldOnlyWhileServing, BindInRange, ListInRange, Spawn, Goto
  <1>14. CASE Interrupt
    BY <1>14, LeaveReleases DEF IInv, TypeOK, ScanInRun, HeldOnlyWhileServing, BindInRange, ListInRange, Interrupt, Exits
  <1>15. CASE BrowserOpen
    BY <1>15 DEF IInv, TypeOK, ScanInRun, HeldOnlyWhileServing, BindInRange, ListInRange, BrowserOpen
  <1>16. CASE Restart
    <2>1. start' \in StartPorts
      BY <1>16 DEF Restart
    <2>2. start' \in RealPorts /\ start' \in ScanSpan /\ start' \in start' .. start' + PortRange
      BY <2>1, StartIsReal
    <2>3. \A p \in RealPorts : occ[p] # "self"
      BY <1>16 DEF Restart, IInv, HeldOnlyWhileServing
    <2>4. TypeOK'
      <3>1. runs' \in 1 .. MaxRuns
        BY <1>16 DEF Restart, IInv, TypeOK
      <3>2. status' \in [has: BOOLEAN, size: 0..MaxDataVer, mtime: 0..MaxDataVer,
                         sized: BOOLEAN, timed: BOOLEAN]
        BY <1>16 DEF Restart, NoStatus
      <3>3. li' \in 1..(Len(KnownDashboards) + 1) /\ listed' \subseteq Dashboards
        BY <1>16, KnownDashboardsFacts DEF Restart
      <3>4. pp' \in ScanSpan /\ port' \in RealPorts /\ pc' = "dircheck" /\ exit' \in Exits
            /\ blocker' \in Holders
        BY <1>16, <2>2 DEF Restart, Exits, Holders
      <3>5. QED
        BY <1>16, <3>1, <3>2, <3>3, <3>4 DEF IInv, TypeOK, Restart
    <2>5. (ScanInRun /\ HeldOnlyWhileServing /\ BindInRange /\ ListInRange)'
      <3>0. pp' = start'
        BY <1>16 DEF Restart
      <3>1. pp' \in start' .. start' + PortRange
        BY <2>2, <3>0, Zenon
      <3>2. QED
        BY <1>16, <2>3, <3>1 DEF Restart, ScanInRun, HeldOnlyWhileServing, BindInRange, ListInRange
    <2>6. QED
      BY <1>16, <2>4, <2>5 DEF IInv, Restart
  <1>17. CASE Produce
    BY <1>17 DEF IInv, TypeOK, ScanInRun, HeldOnlyWhileServing, BindInRange, ListInRange, Produce
  <1>18. CASE RemoveData
    <2>1. data' \in [present: BOOLEAN, ver: 0..MaxDataVer]
      BY <1>18 DEF RemoveData, IInv, TypeOK
    <2>2. QED
      BY <1>18, <2>1 DEF IInv, TypeOK, ScanInRun, HeldOnlyWhileServing, BindInRange,
         ListInRange, RemoveData
  <1>19. CASE \E p \in ChurnPorts : Churn(p)
    BY <1>19 DEF IInv, TypeOK, ScanInRun, HeldOnlyWhileServing, BindInRange, ListInRange, Churn, Holders
  <1>20. CASE \E f \in Volatile : DashToggle(f)
    BY <1>20 DEF IInv, TypeOK, ScanInRun, HeldOnlyWhileServing, BindInRange, ListInRange, DashToggle
  <1>21. CASE UNCHANGED vars
    BY <1>21 DEF IInv, TypeOK, ScanInRun, HeldOnlyWhileServing, BindInRange, ListInRange, vars
  <1>22. QED
    BY <1>1, <1>2, <1>3, <1>4, <1>5, <1>6, <1>7, <1>8, <1>9, <1>10, <1>11, <1>12,
       <1>13, <1>14, <1>15, <1>16, <1>17, <1>18, <1>19, <1>20, <1>21 DEF Next, Main

\* The type invariant of the startup model holds in every reachable state.
THEOREM StartupTypeCorrect == Spec => []TypeOK
  <1>1. IInv => TypeOK
    BY DEF IInv
  <1>2. QED
    BY <1>1, IInvInit, IInvStep, PTL DEF Spec

\* NoSelfConflict: when the bind of line 482 fails, the holder of the port
\* is another program, never the probe socket of find_available_port --
\* for every --port, range width and set of ports other programs use.
THEOREM BindNeverBlamesSelf == Spec => []NoSelfConflict
  <1>1. IInv => NoSelfConflict
    BY DEF IInv, NoSelfConflict
  <1>2. QED
    BY <1>1, IInvInit, IInvStep, PTL DEF Spec

-----------------------------------------------------------------------------
(***************************************************************************)
(* Refinement: every step of start_server is a step of StartupContract    *)
(* or leaves Phase, start and occ alone.                                    *)
(***************************************************************************)

\* A step between two statements before the bind is invisible to the
\* contract.
LEMMA StartingStutter ==
    ASSUME pc \notin {"spawn", "serve", "exited"}, pc' \notin {"spawn", "serve", "exited"},
           UNCHANGED <<start, occ>>
    PROVE  UNCHANGED Contract!avars
  BY DEF Phase, Contract!avars

\* Every way a run ends -- Leave -- is the contract's Exit.
LEMMA LeaveIsExit ==
    ASSUME NEW how, pc # "exited", Leave(how), UNCHANGED start
    PROVE  Contract!Exit
  BY DEF Leave, Contract!Exit, Contract!Released, Phase

LEMMA ContractInit == Init => Contract!Init
  BY DEF Init, RunFresh, Contract!Init, Contract!Others, Phase

LEMMA ContractStep == IInv /\ [Next]_vars => [Contract!Next]_(Contract!avars)
  <1> SUFFICES ASSUME IInv, [Next]_vars PROVE [Contract!Next]_(Contract!avars)
    OBVIOUS
  <1>1. CASE DirCheck
    BY <1>1, StartingStutter, LeaveIsExit DEF DirCheck, Goto, Contract!Next
  <1>2. CASE IndexCheck \/ IndexOpen \/ IndexWrite \/ Probe1 \/ Probe2
    BY <1>2, StartingStutter DEF IndexCheck, IndexOpen, IndexWrite, Probe1, Probe2, Goto
  <1>3. CASE StatSize \/ StatMtime
    BY <1>3, StartingStutter, LeaveIsExit DEF StatSize, StatMtime, StatCall, Goto, Contract!Next
  <1>4. CASE ListExists \/ ListStat
    BY <1>4, StartingStutter, LeaveIsExit DEF ListExists, ListStat, Goto, Contract!Next
  <1>5. CASE Scan
    BY <1>5, StartingStutter, LeaveIsExit DEF Scan, Goto, Contract!Next
  <1>6. CASE Bind
    <2>1. CASE occ[port] = "free"
      <3>1. port \in (start .. start + PortRange - 1) \cap RealPorts
        BY <1>6 DEF IInv, BindInRange, TypeOK, Bind
      <3>2. Contract!Serve
        BY <1>6, <2>1, <3>1 DEF Bind, Goto, Contract!Serve, Phase
      <3>3. QED
        BY <3>2 DEF Contract!Next
    <2>2. CASE occ[port] # "free"
      BY <1>6, <2>2, LeaveIsExit DEF Bind, Contract!Next
    <2>3. QED
      BY <2>1, <2>2
  <1>7. CASE Spawn
    BY <1>7 DEF Spawn, Goto, Phase, Contract!avars
  <1>8. CASE Interrupt
    BY <1>8, LeaveIsExit DEF Interrupt, Contract!Next
  <1>9. CASE Restart
    <2>1. Contract!Restart
      BY <1>9 DEF Restart, Contract!Restart, Phase
    <2>2. QED
      BY <2>1 DEF Contract!Next
  <1>10. CASE \E p \in ChurnPorts : Churn(p)
    <2>1. PICK p \in ChurnPorts : Churn(p)
      BY <1>10
    <2>2. p \in RealPorts /\ occ[p] # "self"
      BY <2>1 DEF Churn
    <2>3. PICK h \in {"free", "loopback", "elsewhere"} \ {occ[p]} : occ' = [occ EXCEPT ![p] = h]
      BY <2>1 DEF Churn
    <2>4. Contract!Churn
      BY <2>1, <2>2, <2>3 DEF Churn, Contract!Churn, Contract!Others, Phase
    <2>5. QED
      BY <2>4 DEF Contract!Next
  <1>11. CASE BrowserOpen \/ Produce \/ RemoveData \/ \E f \in Volatile : DashToggle(f)
    BY <1>11 DEF BrowserOpen, Produce, RemoveData, DashToggle, Phase, Contract!avars
  <1>12. CASE UNCHANGED vars
    BY <1>12 DEF vars, Phase, Contract!avars
  <1>13. QED
    BY <1>1, <1>2, <1>3, <1>4, <1>5, <1>6, <1>7, <1>8, <1>9, <1>10, <1>11, <1>12
       DEF Next, Main

\* ImplementsContract: start_server binds only a free port of its
\* --port range, holds no other socket, and releases its socket on every
\* way out of a run, for every value of the constants.
THEOREM ContractRefined == Spec => ImplementsContract
  <1>1. Spec => []IInv
    BY IInvInit, IInvStep, PTL DEF Spec
  <1>2. QED
    BY <1>1, ContractInit, ContractStep, PTL DEF Spec, ImplementsContract, Contract!Spec

=============================================================================
