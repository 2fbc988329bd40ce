------------------------- MODULE MC_DashboardStartup -------------------------
(* Instances of DashboardStartup for TLC. *)
EXTENDS DashboardStartup, TLC

\* --port 8080 (the default) and --port 65535, whose window of
\* MCPortRange ports runs past the last TCP port.
MCStartPorts == {8080, 65535}
MCPortRange == 2
MCChurnPorts == {8080}
\* The build left the main dashboards; the classic unsafe page comes and
\* goes, and the lifecycle page is not among the known dashboards.
MCBuilt == {"dashboard_index.html", "index.html", "memory_analysis_dashboard.html",
            "unsafe_ffi_dashboard_v2.html"}
MCVolatile == {"unsafe_ffi_dashboard.html"}
=============================================================================
