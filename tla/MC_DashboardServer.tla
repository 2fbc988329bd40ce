------------------------- MODULE MC_DashboardServer -------------------------
(***************************************************************************)
(* A small instance of DashboardServer: the six files the dashboards use,  *)
(* two of which other processes may create or delete while serving, and   *)
(* request paths chosen so that every branch of do_GET, send_head,        *)
(* end_headers and log_message is taken.                                   *)
(***************************************************************************)
EXTENDS DashboardServer, TLC

Styles == Seg("styles", ".css")

MCFiles == {DashboardIndex, ClassicIndex, MemoryDash, UnsafeDashV2,
            LifecycleDash, Styles}

MCMutable == {LifecycleDash, MemoryDash}

Path(seg, slash, query, mentions) ==
    [seg |-> seg, slash |-> slash, query |-> query, mentions |-> mentions]

MCPaths ==
    { Path(Root, TRUE, FALSE, {}),                       \* /
      Path(Root, TRUE, TRUE, {}),                        \* /?tab=1
      Path(Seg("lifecycle", ""), FALSE, FALSE, {}),      \* /lifecycle
      Path(Seg("unsafe", ""), TRUE, FALSE, {}),          \* /unsafe/
      Path(Styles, FALSE, FALSE, {}),                    \* /styles.css
      Path(Styles, FALSE, TRUE, {}),                     \* /styles.css?v=2
      Path(MemoryDash, TRUE, FALSE, {}),                 \* /memory_analysis_dashboard.html/
      Path(Seg("report_200", ".html"), FALSE, FALSE, {"200"}) }  \* /report_200.html

\* Fewer paths for the liveness run, which TLC cannot reduce by symmetry.
MCLivePaths ==
    { Path(Seg("lifecycle", ""), FALSE, FALSE, {}),
      Path(Styles, FALSE, TRUE, {}) }

MCMethods == {"GET", "HEAD", "OPTIONS"}

ClientSymmetry == Permutations(Clients)
=============================================================================
