# TLA+ verification of the memscope-rs web dashboard tools

This directory holds TLA+ models of the Python tools under `src/`. Each model is translated from the source. It also holds the TLC configurations that check the models, and the TLAPS proofs of their main invariants.

## The system

`src/start_web_dashboard.py` is the core. It is a local development server for the pre-built dashboard pages in `web_dashboard/`. Its parts, in the terms of `spec.md`:

| Part | Code | What it does |
|---|---|---|
| PathAliasResolver | `DashboardHandler.do_GET` (47-65) | Rewrites `/`, `/unsafe(/)`, `/memory(/)`, `/classic(/)` and `/lifecycle(/)` to file names. `/lifecycle` depends on `os.path.exists` (line 59). |
| StaticFileServer | `DashboardHandler` (31-76), the stdlib `send_head`, `TCPServer.serve_forever` (482, 529) | Serves files from `web_dashboard/`. Adds CORS headers, and a cache header keyed on the path text. Classifies each log line by substring. |
| DataStatusProbe | `check_data_files` (396-416) | Reports whether `data.json` exists, with its size and mtime. It makes four filesystem calls to do so. |
| IndexPageGenerator | `create_dashboard_index` (78-394), called at 463-465 | Writes `dashboard_index.html` if no file of that name exists. |
| PortAllocator | `find_available_port` (418-430) | Probes `('localhost', p)` for `p` in `[start, start+100)`. |
| BrowserLauncher | `open_browser` thread (513-526) | A daemon thread that sleeps, then calls `webbrowser.open`. |
| Process wiring | `start_server` (453-536), `main` (538-587) | Checks the directory, then runs the index, probe, listing and port search, then binds and serves. Ctrl+C is handled inside the `try` of line 481. |

**How the parts interact.** Startup is sequential in the main thread. Its only concurrency is the browser thread. It also races against other programs:
- processes that rewrite `data.json`;
- processes that build or delete dashboards;
- programs that take ports;
- the operator's Ctrl+C.

Serving is one thread: `TCPServer` handles one connection at a time. The alias check and `send_head` read a directory that other processes change.

**Peripheral scripts.**
- `src/fix_dashboard_data.py` (DataConverter) rewrites `data.json` in place, after writing a backup.
- The four `fix_*quotes*.py` / `fix_final_errors.py` scripts rewrite a file outside this repository.

## Modules

| Module | Models | State | Actions |
|---|---|---|---|
| `DashboardServer` | PathAliasResolver, StaticFileServer | `fs` (which files exist), `srv`/`cur` (the serving thread: select, read, open), `backlog`/`connected` (listening socket), `req`, `route` (what `do_GET` left for `send_head`, with the directory it saw), `resp` | `Connect`, `Send`, `ChangeFile` (environment); `Accept`, `ReadRequest` (`do_GET` routing, or 501 for methods without a handler), `Open` (`send_head` + `end_headers` + `log_message`), `Interrupt` |
| `DashboardStartup` | PortAllocator, DataStatusProbe, IndexPageGenerator, BrowserLauncher, process wiring | `pc` (the next statement of `start_server`), `index`/`cards` (the landing page on disk), `data`/`status`, `li`/`listed`, `pp`/`port`/`occ` (who holds each port), `browser`/`shown`/`launched`, `exit`, `runs` | one action per filesystem or socket call (`DirCheck` … `Bind`, `Spawn`), `Interrupt` at any statement, `BrowserOpen`, `Restart`; environment: `Produce`, `RemoveData`, `Churn`, `DashToggle` |
| `DataConverter` | `fix_dashboard_data.py` | `pc`, `dataFile`, `backup`, `sample`, `loaded`, `lastGen` | `Exists`, `Load`, separate open and dump steps for each written file, `Crash` at any statement, `Rerun`, `Produce` |
| `StartupContract` | what startup promises about sockets (spec §4.1, §5), with no control flow | `phase` (starting, serving, exited), `start`, `occ` | `Serve` (bind a free port of the range in one step), `Exit` (release), `Restart`, `Churn` |
| `ServerContract` | what the serving loop promises about connections (spec §5), with no routing | `running`, `connected`, `queued`, `serving`, `req`, `outcome` (request and status, or Aborted/Reset) | `Connect`, `Send`, `Take`, `Answer` (once, for the request sent; 501 exactly for methods without a handler), `Stop` |
| `DashboardServerProofs` | proofs about `DashboardServer`, and its refinement of `ServerContract` | | |
| `DashboardStartupProofs` | proofs about `DashboardStartup`, and its refinement of `StartupContract` | | |
| `DataConverterProofs` | proofs about `DataConverter` | | |
| `MC_*` | instances for TLC | | |

**Data abstraction.**
- A URL segment or file name is a record `[name, ext]`.
- A request path is a record `[seg, slash, query, mentions]`. `slash` and `query` record a trailing `/` or a `?…`. `mentions` holds the digit runs `"200"`/`"404"` in the path text, because that is all the substring tests of `log_message` can see.
- A JSON document in `DataConverter` is abstracted to three things: the producer generation it carries, how often the converter has wrapped it, and whether it is complete.
- Every open-then-write is two steps, because a crash or Ctrl+C between them leaves an empty file. This is the only way a file can end up partial in these models.

**Stdlib behaviour.** `send_head` is the standard library's. It is modelled at the line that calls it (65) from the behaviour confirmed in Python 3:
- `/` is served as `index.html` when that file exists;
- a trailing slash on a file gives 404;
- a failed open gives 404;
- `send_error` logs through `log_message` before the request line is logged.

## Runs

All configs are in this directory. `PROJECT.json` lists each run with its properties and its mutants.

### Passing runs

- **`server_routing`** (`MC_DashboardServer.cfg`; `TypeOK`, `RequestDeterministic`, `ImplementsServerContract`).
  - Setup: 2 clients (with symmetry), 6 files of which lifecycle and memory change during serving, 8 paths and GET/HEAD/OPTIONS. The paths cover root, root with a query, an alias, an alias with a slash, an asset with and without a query, a file with a trailing slash, and a path containing "200".
  - Result: every GET that saw a still directory is answered as spec §4.2's table says.
  - Refinement: `Contract == INSTANCE ServerContract WITH queued <- backlog, serving <- cur, outcome <- Outcome`, where `Outcome` keeps a response's request and status. The alias check and other processes' file changes are stutters; a 501 and `Open` are the contract's `Answer`. The property holds: one connection is in hand at a time, each is answered once for the request it sent, and the interrupt touches only the connection in hand and the queued ones.
- **`server_liveness`** (`MC_DS_Liveness.cfg`; `OnlySilentClientsStarve`).
  - Setup: only the serving loop (`Accept`, `ReadRequest`, `Open`) is weakly fair. Clients get no fairness, because nothing in the code makes them send: the handler's read has no timeout.
  - Result: every connection is eventually answered or aborted, unless the serving thread ends up blocked for good on a connection that never sends (`SilentInHand`).
  - Without that disjunct, TLC finds the starvation: a silent client in hand blocks every other client forever. So the silent client is the only way a connection starves, and it is a real hazard of the code (PROJECT.json, deadlock at line 529). Spec §5 says no timeouts are required.
  - Fairness: `serve_forever` is a single thread that always runs while the process lives.
- **`startup`** (`MC_DashboardStartup.cfg`; `TypeOK`, `NoSelfConflict`, `StartupSettles`, `ImplementsContract`).
  - Setup: 2 runs, `--port` 8080 or 65535, a port range of 2, port 8080 taken and released by other programs, and one dashboard that comes and goes.
  - Result: the bind of line 482 never fails against our own probe socket, and every run reaches `serve_forever` or exits.
  - Refinement: `ImplementsContract` is `Contract!Spec`, where `Contract == INSTANCE StartupContract WITH phase <- Phase, Ports <- RealPorts`.
    - `Phase` is "serving" from the successful bind (`pc` in spawn, serve), "exited" after `Leave`, and "starting" before.
    - `start` and `occ` map to themselves.
    - Under this mapping, the successful `Bind` is the contract's `Serve`, and every `Leave` is its `Exit`. Every other statement of `start_server` is a stutter.
    - The check therefore shows three things: the probe-and-release search never holds a socket across a step; the real bind only takes a free port of `[start, start + PortRange)`; and no exit path (fatal, traceback, Ctrl+C) keeps the socket.
  - Fairness: weak fairness of the main thread only. The operator, the browser and other programs owe nothing.
- **`converter`** (`MC_DataConverter.cfg`; `CutShortCovered`).
  - Setup: 3 runs, up to 3 producer generations, and crashes anywhere.
  - Result: whenever `data.json` is cut short, `data.json.backup` is complete and holds the same data.
  - Deadlock checking is off: the script and the producer really do stop.

### Violation runs

Each violation run is a disagreement between the code and the spec or a code comment; PROJECT.json "findings" records each one. The server-side ones were also reproduced against Python's `http.server`.

| Run | Property | What TLC finds |
|---|---|---|
| `server_alias_race` | `AliasResolvedAtResponse` | `lifecycle_dashboard.html` exists at the check of line 59 and is gone when `send_head` opens it, so the response is 404 rather than the memory dashboard. |
| `server_log_class` | `LogClassifiedByStatus` | `OPTIONS /report_200.html` gets 501 and is logged with the success mark. |
| `server_cache_header` | `AssetsCached` | `/styles.css?v=2` is served without `Cache-Control`. |
| `server_interrupt` | `NoInFlightAbort` | Ctrl+C while a request is handled aborts it, against spec §5. |
| `startup_interrupt` | `InterruptIsGraceful` | Ctrl+C before line 481 is an uncaught `KeyboardInterrupt`, not exit 0. |
| `startup_uncaught` | `NoUncaughtException` | `data.json` is removed between `exists()` and `stat()`, so `FileNotFoundError` escapes. |
| `startup_index_truncated` | `IndexIntactWhenServing` | Ctrl+C between the open and the write of line 393 leaves an empty index. The next run sees that the file exists and serves it empty. |
| `converter_rerun` | `BackupHoldsOriginal` | A second run backs up the converted file over the original. |

The model also reproduces three more disagreements that have no run of their own. A unit test reaches two of them, and the third shares its cause with `startup_uncaught`. They are listed as hazards in PROJECT.json:
- the landing page links four dashboards unconditionally (lines 275-345; spec §4.5);
- `open_browser` prints "Opened" when `webbrowser.open` returns False (line 518; spec §4.6);
- `check_data_files` can report a size and an mtime taken from different versions of `data.json` (lines 400-407; spec §4.4).

### Bounds

Every bound is a named constant or MC definition.
- **Two clients** are enough for a request to wait in the backlog while another is served, which is the case `Interrupt` distinguishes (Aborted vs Reset).
- **Ports.** A range of 2 from 65535 reaches the overflow port 65536. The code's range is 100, but every case of the loop appears with 2: skip an occupied port, find one, exhaust the range, overflow.
- **Two runs** of the startup are enough for the state of one run to be inherited by the next. The converter needs three runs to rerun after a crash that followed a successful run.

### Mutants

Every property of a passing run is broken by a plausible code mutation:
- the lifecycle test inverted;
- `send_head` not checking the open;
- a handler that never returns to select;
- a connection accepted while another is in hand;
- the probe socket left open;
- a scan that does not advance;
- OverflowError taken as success;
- the real bind taking a port another program holds on a different interface;
- the backup skipped.

## Proofs

`DashboardServerProofs.tla` (TLAPS) proves three theorems for all values of the constants, under the module's `ASSUME`s. The assumptions are:
- `Files`, `Paths` and `Methods` are sets of the modelled shape;
- the five dashboard files the code names are among `Files`;
- the sentinels `None`, `Aborted` and `Reset` are distinct from real values.

The theorems:

- **`TypeCorrect`: `Spec => []TypeOK`.** `TypeOK` alone is not inductive. `Open` reads `route` and `req[cur]`, and `TypeOK` does not say that they are set while the thread is in the "open" state. The proof therefore uses `TypeShape == TypeOK /\ ServerShape`, where `ServerShape` relates `srv`, `cur` and `route`. It shows `Init => TypeShape` and `TypeShape /\ [Next]_vars => TypeShape'`, with one step per action. Lemmas cover the rewrite (`RewriteType`), `send_head` (`SendHeadType`) and the log lines (`LogLinesType`).
- **`RoutingCorrect`: `Spec => []RequestDeterministic`.**
  - `IInv` adds two conjuncts to `TypeShape`. `RouteFaithful` says the route left by `ReadRequest` is `do_GET`'s rewrite of the request, under the lifecycle observation it records. `RespFaithful` says every GET response is `send_head` applied to that rewrite, and that a response marked stable saw the lifecycle file as it was at the response.
  - `IInv` was checked by TLC as an invariant before it was proved. `IInvStep` proves that it is inductive.
  - `RoutingMeetsContract` shows, for every path and directory, that `send_head(do_GET_path(p, disk[lifecycle]), disk)` agrees with spec §4.2's table. `AliasRowsMatchChain` supports it by showing that each row of the table is an alias word with the target `do_GET`'s chain picks.

- **`ServerContractRefined`: `Spec => ImplementsServerContract`.**
  - The contract's `Answer` needs the connection in hand to be unanswered, and its `Connect` must not reuse an answered client. Neither follows from one step.
  - `ConnShape` supplies both. The backlog and the connection in hand are connected. The connection in hand has left the backlog. Neither of them, nor any client that never connected, has a response.
  - `RInv == IInv /\ ConnShape` is inductive (`ConnShapeStep`). TLC checks the refinement on the routing instance.
  - `AnswerWritten` shows that both ways of answering write a real response record into the slot of `cur` and into no other slot. That is what makes the mapped `Outcome` change at `cur` alone.
  - `ServerContractStep` has one case per action. `Connect`, `Send` and `Accept` map to `Connect`, `Send` and `Take`. `ChangeFile` and the GET/HEAD `ReadRequest` are stutters. The 501 and `Open` are `Answer`, where `RouteFaithful` gives the GET/HEAD method behind a 200/404. `Interrupt` is `Stop`.

`DataConverterProofs.tla` proves `CutShortAlwaysCovered` (`Spec => []CutShortCovered`) and `ConverterTypeCorrect`. Both hold for every bound on runs and producer rewrites.
- The strengthening adds three facts:
  - `LoadedOk`: after `json.load`, the loaded document is complete.
  - `BackupPhase`: while the backup is written, `data.json` is still complete. The run only got there by loading it, and the producer writes whole files.
  - `DataPhase`: while `data.json` is rewritten, the backup equals what was loaded.
- With these facts, the only step that cuts `data.json` short (`DataOpen`) finds a complete backup of the same generation beside it.
- TLC checked the strengthened invariant before it was proved.

`DashboardStartupProofs.tla` proves three theorems. They hold for every `--port` in 1..65535, every range width, every set of ports other programs use, and every bound on runs and data versions.
- The theorems:
  - `StartupTypeCorrect`: `Spec => []TypeOK`.
  - `BindNeverBlamesSelf`: `Spec => []NoSelfConflict`.
  - `ContractRefined`: `Spec => ImplementsContract`.
- `StartupAssumption` limits `--port` to 1..65535, as spec §8 does. With that limit, `TypeOK` covers the ports the scan can overflow into.
- The inductive invariant `IInv` is `TypeOK` and four more facts:
  - `ScanInRun`: the probed port lies in `start .. start + PortRange`.
  - `HeldOnlyWhileServing`: a port is ours only while `pc` is spawn or serve, and it is `port`.
  - `BindInRange`: at the bind, `port` lies in the run's range.
  - `ListInRange`: `ListStat` only indexes a name that exists.
- `blocker # "self"` follows from `HeldOnlyWhileServing`, because at the bind we hold nothing.
- Why the facts are needed:
  - `TypeOK` alone is not inductive. The scan must know that its port lies in the range, or `pp + 1` could leave `ScanSpan`.
  - `Bind` must know that no port is ours, or the blocker could be us.
- The refinement proof:
  - `ContractInit` maps the initial states to initial states.
  - `ContractStep` shows that each step of `Next` is a contract step or a stutter, with one case per action.
  - Two lemmas support it. `LeaveIsExit` states that `Leave` is the contract's `Exit`. `StartingStutter` covers the statements before the bind.
- TLC checked `IInv` as an invariant of the startup instance before it was proved.

**What only TLC checks.**
- Liveness (`OnlySilentClientsStarve`, `StartupSettles`): TLAPS does not handle the `ENABLED` reasoning that fairness needs.

## Not modelled

- The quote-patching scripts: single-pass string rewrites of a file outside the repository, with no state or concurrency.
- The landing page's layout and its client-side script. It runs in the browser, outside the server.
- `--version`, which is handled by argparse.
- `--port 0`, which prints a URL with `:0` while an ephemeral port is bound. It is outside the spec's `start >= 1` and is listed as a hazard.
- The lost update by an external producer during conversion. It is modelled (`Produce` in `DataConverter`), but no property claims it, because the spec says nothing of the producer.

## Plan

1. Routing is not part of `ServerContract`. The alias race (`AliasResolvedAtResponse` is violated) means no atomic "answer from the directory now" contract holds. `RequestDeterministic` is the invariant form of the part that does hold.
2. Compose startup and serving: `Spawn` hands over to the serving loop, so the browser's request and the operator's interrupt can be checked together.
