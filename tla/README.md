# WSLPad: formal model

WSLPad is an Electron program that shows what goes on inside WSL distros: a
dashboard kept fresh by polling, one interactive console per distro, a file
explorer, diagnostics, and a local MCP endpoint that serves the dashboard's
snapshot to other programs. The main process is single-threaded JavaScript, so
nothing is ever preempted; what goes wrong goes wrong at an `await`, a callback, a
timer or a crash, where something else happens in between, or in what a reader
makes of an answer that is missing, cut or stale. These modules model both.

Paths in this document are relative to the repository's root; the map in
`PROJECT.json` gives the lines that every definition stands for.

## 1. Inventory

### How the parts interact

```
 renderer (dashboard, explorer panes, console panel, settings drawer)
    |  IPC invoke                                   ^  IPC events: snapshot, terminal
    v                                               |  data/status, settings
 ipc/handlers.ts --> app.ts (AppController) --------+--> DiagnosticsService, recorder
    |                  |        |        |
    |                  v        v        v
    |        PollingScheduler  tray    McpServerHost <-- other programs (HTTP)
    |                  |                 |  reports its status, reads the snapshot
    v                  v                 v
 TerminalManager   SnapshotStore  <------+----> reports, doctors, Markdown
    |                  |   three tiers, one liveness gate
    v                  v
 ConsoleSession    WslProvider (collectors) --> WslRunner --> wsl.exe
    |   pty
    v
 shell in the distro, with WSLPad's prompt hook and one sync file per distro
```

| Component (source) | State | What is hard | What makes it correct |
| --- | --- | --- | --- |
| **SnapshotStore** (`src/main/state/store.ts`) | distro list, selection, sections, tiers in flight, liveness verdict, probe, failures, published snapshot | three tiers with many awaits, overlapping with each other and with a switch; distros that stop or wedge | sections on screen are the selected distro's; a probe is shared; what is computed is published; good data outlives a failure; polling converges |
| **ConsoleSession** (`terminal/session.ts`, `rc.ts`, `backend.ts`) | status, tracked input, directory shown, waiting sync, pty | the shell is seen through its output only; a sync is a file, an await, and a Return on a prompt that may be gone | no key of a sync runs what nobody submitted; the directory shown is the shell's; no sync is announced for ever |
| **TerminalManager, ConsolePanel** (`terminal/manager.ts`, `console/ConsolePanel.tsx`) | one session per distro; the panel's session, status and retries | two processes; answers to a selection or attempt that is over; disposal during a spawn | one shell per distro; the panel shows and types into the selected distro's session; a dead console heals |
| **McpServerHost** (`mcp/server.ts`), **AppController, PollingScheduler** (`app.ts`, `state/polling.ts`, settings channels) | HTTP server, port, token, error; settings in force, timers | calls are not serialized; every close and bind is an await | timers, endpoint and settings agree once calls have ended; "running" holds a port |
| **SettingsStore** (`settings/store.ts`), **AppUpdater, quit** (`updater.ts`, `quit.ts`) | the file, its backup; update status, hand-off record | crashes between write and rename and between hand-off and install; locked or corrupt files | settings and token survive; a failed install is told, and no other |
| **Slowdown recorder** (`state/performance-diagnostics.ts`) | buffer, chain of writes, export | writes that fail or overlap with stop and export | no sample is dropped |
| **Explorer operations, trash** (`explorer/operations.ts`, `transfer.ts`, `backend.ts`, `windows.ts`, `trash.ts`) | registries of batches; trash directory and records | items that fail, cancels, time limits in the middle of a script, other batches on the same files | nothing is lost; done means done; a cancel is heeded; a trashed file knows its origin |
| **Explorer pane** (`explorer/usePane.ts`) | directory, entries, history, search, sizes | answers out of order, also across a switch | sizes are those of the directory shown; a refresh repairs |
| **DiagnosticsService** (`state/diagnostics.ts`, `recovery.ts`, `network-check.ts`) | incidents, facts seen last, checks in flight | snapshots of two distros follow each other; checks judged on what was captured seconds ago | a change logged is one its distro went through; a recovery stays with its distro |
| **WSL configuration editor** (`wsl/wsl-config.ts`) | report of the last collection | duplicates, sections and files; WSL restarts during the collection | "applied" is in force; "restart pending" is true |
| **Port reachability** (`wsl/reachability.ts`, `ports.ts`, `windows-ports.ts`, `firewall.ts`, `portproxy.ts`) | caches of four sources | readings of different ages | a definite verdict on current readings is what packets do, or one of three named cases |
| **Collectors and parsers** (`wsl/*.ts`, `wsl/detectors`), **WslRunner** (`wsl/runner.ts`), **Tools service** (`tools/service.ts`) | caches, one CPU sample | runs that are cut, stopped or thrown print what another system prints | no answer says anything false; polling disturbs nothing |
| **Reports** (`state/warnings.ts`, `shared/doctor.ts`, `shared/dev-env-context.ts`, `shared/llm-*.ts`, `mcp/tools.ts`) | none: functions of the snapshot | twenty-odd sections, each of which may be unread, empty, stale or failed | unread never passes; what is missing is named; judges agree; secrets stay |
| Window, tray, preload, dashboard views; fixture provider; MCP client registration | none of interest | | see section 7 |

Every hazard behind these sentences, with its line, is in `PROJECT.json`
(`hazards`), with the properties that cover it.

## 2. Modules

| Module | Models |
| --- | --- |
| `SnapshotStore` | the store, its collectors and probes in flight, and WSL itself |
| `SnapshotStoreProofs` | types, ownership of sections, the shared probe, publication, the last good read |
| `ConsoleSession` | one console with its shell, prompt hook, sync file and user |
| `ConsoleSessionProofs` | types, the directory shown, following, the Return of a sync |
| `ConsoleHub` | TerminalManager and ConsolePanel, the messages between them, spawns and exits |
| `ConsoleService` | the abstract promise "exactly one per distro", which `ConsoleHub` implements |
| `ConsoleHubProofs` | types, the refinement, prepared commands and what the panel shows |
| `McpServerHost`, `AppSettings` | the MCP server object; who calls it, settings, scheduler (EXTENDS it) |
| `AppSettingsProofs` | types, host, timers, and the endpoint at rest |
| `SlowdownRecorder`, `AppLifecycle` | the recorder; runs of the app: settings file, updates, crashes, quit (EXTENDS it) |
| `AppLifecycleProofs` | types, samples, settings across runs, failed installs |
| `FileOperations` | explorer batches, the Windows pane's, trash and restore, deletion, rename, save |
| `ExplorerPane` | one pane of the explorer and its calls in flight |
| `ExplorerProofs` | of both: types; done and cancelled batches, records, that nothing is lost; sizes, and the repair by a refresh |
| `Diagnostics` | incident log, network check, recovery check |
| `WslSettings` | the two configuration files, WSL that reads them, the collector and its verdicts |
| `PortReach` | sockets, Windows, firewall, readings, verdicts and rules |
| `DistroQueries`, `SystemQueries`, `HostQueries` | scripts and parsers of the collectors, as worlds, what they print, what is read (each EXTENDS the one before) |
| `Collectors` | asking one of them again and again: runs, caches, Docker's two halves (EXTENDS them) |
| `DiagnosticsProofs` | of `Diagnostics`: types, the log, the recovery check; of `Collectors`: that answers stay true, and that polling starts nothing |
| `EnvironmentFacts`, `EnvironmentContext`, `EnvironmentReports` | derived facts; the developer environment context; warnings, doctors, Markdown, presets (each EXTENDS the one before) |
| `McpTools` | the MCP tools (EXTENDS the reports) |
| `PublishedSnapshot` | how the store fills a snapshot one query at a time, and every report over the result (EXTENDS `McpTools`) |
| `VerdictProofs` | of `PortReach`, `WslSettings` and `PublishedSnapshot`: types, and that what they say is true |
| `MC...` | one instance for TLC each |

A module that shares its proofs with another prefixes its `Init`, `Next` and `Spec` with
its subject (`PaneSpec`, `ReachSpec`, `SettingsSpec`, `CollectSpec`).

Operators whose comment says *mutated form* or *Mutant* are not part of any
specification: each is a plausible bug in the definition that follows it, kept to show
that a property notices it.

The two large questions are kept apart. *When* things happen (tiers, switches, late
answers) is modelled with data abstracted to what an answer is *of*: `SnapshotStore`,
the console, the explorer, the lifecycle. *What is said* is modelled with the order of
events reduced to single answers: `PublishedSnapshot`, `Collectors`.

### SnapshotStore

A step is what runs between two awaits. In the code that is a chain of method
calls on one object, so methods are operators from store value to store value
(`Recompute`, `Emit`, `SelectInternal`, `ApplyDistroList`, `NoteRunnerFailure`, ...)
and from there from `[st, calls, probes]` to the same (`Refresh`, `Gate`,
`Proceed`, `FinishTier`); an action composes them in the order of its handler.

| Code | Model |
| --- | --- |
| `this.selected`, `distros`, `sections`, `failures`, `probe` | fields of `store` |
| identity of the sections object a tier captured | `epoch`, one per selection |
| `inFlight` and how far a tier's promise chain has come | `store.tier[t].pc`: idle, list, gate, collect |
| collector promises | `calls`; `seen` is WSL at the moment of the call, for the calls that report it |
| `probeInFlight` | `store.probing` (whose) and `probes` (asking which distro) |
| `Date.now()` against two deadlines | `Tick` counts both down |
| 24 collectors | one per tier and side of the gate: `list`, `netstat`, `ports`, `firewall`, `services`, `details` |
| `wsl.exe` and the distros | `wsl`, `wedged`; a command in a stopped distro starts it |

### ConsoleSession

`session` holds the object's fields; `writes` the `writeCwdSyncFile` promises that
`applyCwd` awaits; `input` and `output` are the pty's two directions; `shell` the
phase of the shell (drawing its prompt, prompting, running, asking for a password),
its line and its directory; `file` the sync file, with the writes that have it open. The
hook of `rc.ts` reads and removes the file in two steps, and the runner's redirection
empties it and writes it in two, so that the hook may find it empty or two paths in it
(`Unusable`). A directory read may be gone when the hook enters it; a command may be a `cd`.
Chunks of escape sequences are whole markers here. What the session cannot see (the
shell's line after a history key) is a state of the shell, and not of the session.
`heard` is history: what became of the last request.

### ConsoleHub and ConsoleService

A session is seen from outside: its status, and whether a pty is being opened or is
open. `orphans` counts the ptys that a disposed session still receives. `wire` is what
main has sent and the panel not handled: answers to `ensure()` and status events, in
one order. The panel's cleanup function (`cancelled = true`) is a mark on the answers
under way and on the one still owed (`wanted`). React's rule that an effect runs when a
dependency has changed is `Heal`, which compares status and running flag before and
after. `ConsoleService` has one variable, the shell of each distro; `ShellOf` is the
refinement mapping: what session and orphans hold together, `"several"` if that is more
than one.

### McpServerHost and AppSettings

A call of the host is the list of steps it still has to take; each `await` in
`stop` and `listen` ends a step, and another call may then run. `listening` is the
truth about bound ports, `host.http` what the object believes; a server that listens may
still fail, kept or not, and puts its error into the status. `AppSettings` adds
the callers, the settings, and the scheduler with its period and its timers. `behind` is
history: which of timers and server were left behind the settings (a reset, a token made
while disabled, calls that overlapped) and have not been set again since.

### SlowdownRecorder and AppLifecycle

`chain` is `pendingWrite`: writes that have not ended, the first one running; `asks`
are calls of `setEnabled`, `readyToExport` and `dispose` that wait for it. `AppLifecycle`
has a state for a run of the app (down, up, finishing, finished), the contents of
`settings.json`, the hand-off record `pending-install.json`, electron-updater
(`library`) and the versions installed and published. A write of settings is
temporary file then rename, and a crash may fall between. `past` is history: what the
properties remember of earlier runs.

### FileOperations

`files` maps every place (directory and name) and every name in the trash to a content, a
*partial* one, or nothing; `info` holds the trash's records. Every command is a step: the
look at the destination (`Look`), the `mv` within a volume (`RenameItem`), the copy
(`CopyItem`, also the first half of a move to another volume), the removal of its source
(`RemoveSource`), writing and removing a record; `op[o].pc` says which comes next. A
command may fail, a copy then having done nothing, half of it or all. A script given up
after its time limit was stopped where it stood (`Stopped`), or goes on with nobody
waiting (`GoesOn`), in a spare member of `Ops`; the Windows pane's calls have no limit.
A request has at least one item, as the schemas of `ipc/handlers.ts` demand. Trash names
are a base name and a number up to `MaxCopies`; a batch is accepted only while they leave
room for all of it (`Room`, a bound of the model: in the code numbers do not end).

An item is one file with one content, and a copy that succeeds is one step. The rest is
history: `given`, what the user asked to delete or replaced by a save; `cameFrom`, the
place the file under each trash name was moved from; and three that name races:
`raced` (contents destroyed between a check and its use), `stale` (operations whose copied
source was written to before its removal), `contested` (trash names two operations had in
hand at once).

### ExplorerPane

`calls` holds every listing, search and measurement without an answer, with what the
hook's closures captured; answers come in any order. Main reads the *selected* distro
when it handles a call, the pane learns of a switch from `notices`. Any call may fail,
also where the directory is there. The list shows the error of a refresh, else the
results of a search (`found`), else the entries (`shown`). `repaired` is history: how the
last refresh ended that had nothing else under way.

### Diagnostics

`snapshot` is what the service reads of the store's; a `publish` is any next one.
`flights` are the two checks with what they captured at their beginning. `late` is the
probe that a switch left in flight; the store takes its answer for the new distro's, as
diagnostics takes the last console event, whichever distro's. `happened` is history: what
changed from one snapshot to the next of the same distro, and whether it was its own.

### WslSettings

Files are sequences of lines (headings, pairs, others), and may be missing or deleted.
WSL is external: it reads `.wslconfig` when the VM starts and `/etc/wsl.conf` when the
distro does, and the last declaration of a key in its section counts. A size has two
numbers, what it declares and what the guest shows of it, and the code's tolerance
(`ValuesMatch`) compares those. `collector` is a collection under way,
which reads the uptime, the files and the live values one await after the other, each
of which may fail.
`quiet` is history: nothing was saved and WSL has not restarted since it began.

### PortReach

`world` is what holds: the socket's scope, whether Windows relays it, another
program on the port, networking mode, firewall, address and rule. `caches`, `fast` and
`medium` are the readings; `behind` is history: which of them, and which verdicts
derived from them, have not been renewed since the world last changed. `Audience` is
the path of a packet, written from Windows' and WSL's side; the verdict's matrix is
compared with it.

### Collectors

For each collector there is a set of *worlds* (what the distro or host is like), what
the script prints of a world, a run of it (`Outcomes`: whole, cut at any line by the
timeout, stopped at any line with a code, as by a `wsl --terminate`, thrown), what the
parser reads, and what is *true* of the world, written independently of the parser.
Docker's script is two steps, because what its second half does depends on what the
first half has seen, and any of its commands may answer late and print nothing.
`Unseen` and `UnseenSecond` name the cases in which the code itself cannot tell
(section 6); where a run broke off they excuse what is missing from the answer and
nothing the answer says (`ToldFirst`, `ToldSecond`).

### PublishedSnapshot and the reports

A section is a value of the few kinds the readers tell apart. The store's part is
selection, the list of distros, answers and failures of single queries, late ones of
the distro left before (`LateAnswer`, `LateFailure`), the contexts set by console and explorer, `recompute` and `emit`; every order of answers is
allowed. The readers are operators on the result, and the properties compare what
they say with `answers`, a history of which query has really answered, and `overruled`,
of which failures others have noted or forgotten.

## 3. Runs

| Run | Shows | Distinct states |
| --- | --- | --- |
| `store_safety` | sections belong to the selected distro (`SectionsFromSelected`), one probe (`OneProbeInFlight`), nothing computed stays unpublished (`QuietSnapshotPublished`), a failure leaves the last data (`KeepsLastGood`), polling converges after the last disturbance (`Converges`) | 185 k |
| `console_sync` | `RunsOnlyWhatWasSubmitted`, `ShowsWhereItIs`, `Follows`, `SyncStatusEnds` | 1658 k |
| `console_hub` | `OneShellPerDistro` (refinement), `PanelTellsTruth`, `PreparedReachesSelected`, `Heals` | 48 k |
| `settings_in_force` | `RunningListens`, `StatusReported`, `TimersFollowSettings`, `ServerFollowsSettings` | 230 k |
| `lifecycle` | `SettingsSurvive`, `FailureTold`, `NoSampleDropped` | 311 k |
| `file_operations` | `NothingLost`, `DoneMeansAll`, `RecordTellsOrigin`, `CancelHeeded` | 126 k |
| `explorer_pane` | `SizesAreCurrent`, `RefreshRepairs` | 685 k |
| `diagnostics` | `ChangesHappened`, `RecoveryIsNarrow` | 312 k |
| `wsl_settings` | `AppliedIsInForce`, `RestartPendingIsRight` | 200 k |
| `port_reach` | `VerdictsAreTrue`, `CatchesUp` | 564 k |
| `collectors` | `SaysNothingFalse`, `PollingLeavesEnginesAlone` | 430 k |
| `views` | `TypeOK`, `UnreadNeverPasses`, `WhatIsMissingIsNamed`, `ReportsAgree`, `StaleQueriesAreExact`, `ToolsKeepTheirWord` | 42 k |

### Bounds, and why they are enough

Most modules take a *set of budgets*, of which a behaviour begins with one: each says how
often every kind of disturbance may happen. That is how a run holds several scenarios
in which everything overlaps with everything, instead of one too large to check.
What the program does by itself (polls, retries, deliveries) is never counted.

* **Distros**: two, wherever there are several. Every race about a selection is between
  the old and the new one; a third would only be another old one.
* **Store**: `ports` (which has a status of its own) and `services`, in two tiers that
  meet at the gate, with `list` as host side. Trust one tick, backoff one then two, so
  that doubling and the ceiling both happen. Failures: tracked two, warned about one, so
  both caps are reached. Scenarios: one change of WSL, one fault and one switch; or a
  switch, a report of the app and its end.
* **Console session**: two directories and two navigations are what one needs to
  overtake the other; three keys type, delete, recall and submit, or submit twice; a line of
  one character, blank or not, tells every case of `trackInput` apart; one fault, one sudo
  prompt, one `cd`, one end at any moment.
* **Console hub**: two automatic retries, so that the first, the last and the one too
  many all occur; up to three switches (there, back, there), three failed spawns, an exit,
  two changes of the running flag, a click, a prepared command, a quit.
* **Settings**: two ports and two periods are what a change needs; two patches, a reset,
  a token regeneration, one port taken or freed and one error of a server that listens
  give up to four calls that overlap, or two that do and two that come after.
* **Lifecycle**: up to five runs of the app (`again` restarts it up to four times), two
  crashes, two releases with three checks, two recordings with two samples, two writes
  that fail.
* **File operations**: scenarios of two to four operations on two Linux directories, three
  Windows ones on two drives, two names (so that names collide), four contents; up to
  two faults at any step and one cancel. The races are in them: two trash batches of one
  base name, a destination taken after the look, a source written to before its removal.
  A fourth member of `Ops` is the script that goes on.
* **Pane**: a directory that both distros have, one that only the first has; two
  navigations, history, refreshes, two measurements, two switches in four mixes.
* **Diagnostics**: a log of three incidents, so that its cap is reached; four
  publications (a switch, the late answer, the next), or two overlapping checks, or a check across sleep and resume.
* **WSL settings**: contents with a duplicate, a heading left, a key in the wrong file, a
  misspelt one and one before any heading, and no file; two sizes that the tolerance
  takes for each other and one far from both; one edit by hand or deletion, at
  any of four times, so that it falls within or beyond the grace period; a release of WSL
  that has every key, one that lacks some, and a release that is not told.
* **Ports**: one port, two addresses, one change of the world and one failing read from
  five starting points that are one change away from their neighbours, so that every cell
  of the matrix is reached from a reading of another.
* **Collectors**: two distros for the caches that are kept by distro; a cached answer
  lives one tick, caps are two (rows, log lines, listed updates), results four of three
  providers; four events where a cache is kept (answer, ageing, change, two refreshes),
  three where worlds are many (`dns`, `hermes`, `resources`, `memory`), one
  otherwise. While Docker's script is between its halves only what it looks at changes.
* **Views**: from nothing read or everything healthy, with no failure, three (as many as
  are warned of) or twenty (as many as are remembered), any two events; two queries of the
  distro before may still end; each query gives the answers that some reader tells apart. A reader depends on
  its sections and not on how they were reached, and two events make every pair of
  sections differ from the histories.

Deadlock is checked except where the system may really stop: a user who does nothing
more (console, panes, settings, files), a lifecycle that ends with the app down, a
scenario of diagnostics or collectors whose bounds are used up. `port_reach`, `views`
and `store_safety` never stop.

## 4. Fairness

* `SnapshotStore` (`FairSpec`): every call and probe settles (`WslRunner` kills at its
  timeout and the collector rejects); the scheduler's intervals keep firing; time passes.
  The fairness of a poll is weak fairness of one that starts a cycle: a tick that meets a
  tier in flight returns at once. `Fairness` spells `ENABLED` out, because TLC would
  evaluate it through the whole chain of methods. That `close` follows the kill is an
  assumption about the operating system (`runner.ts:113`; listed as a hazard).
* `ConsoleSession` (`FairSpec`): file writes settle, output is delivered, the shell
  reads and prompts. Nobody is obliged to type, and a program in the foreground need not
  end: `SyncStatusEnds` lets a sync stay announced as long as one runs.
* `ConsoleHub`: every command of a spawn has a time limit, so a spawn settles; messages
  arrive; the retry timer fires; a hooked shell prints a prompt or exits. Users, exits
  and the running flag owe nothing.
* `PortReach`: tiers poll on and caches expire. Changes and failures owe nothing.

The other modules state no fairness and check no liveness: what they promise is about
what may never be said or done.

## 5. Proofs

All hold for every set of distros, directories, collectors, ports and periods, every
scenario and every value of the bounds, from the assumptions on constants named in the
modules. One, of the collectors, has a hypothesis of its own, stated in the theorem.

| Theorem | States |
| --- | --- |
| `SnapshotStoreProofs!TypeCorrect` | `Spec => []TypeOK`: types, the cap on tracked failures, sections exactly while a distro is selected |
| `SnapshotStoreProofs!SectionsOwned` | `Spec => []SectionsFromSelected` |
| `SnapshotStoreProofs!ProbeShared` | `Spec => []OneProbeInFlight` |
| `SnapshotStoreProofs!QuietIsPublished` | `Spec => []QuietSnapshotPublished` |
| `SnapshotStoreProofs!LastGoodKept` | `Spec => KeepsLastGood` |
| `ConsoleSessionProofs!TypeCorrect` | `Spec => [](TypeOK /\ ReadInv)`: types, and the file is read by the hook only |
| `ConsoleSessionProofs!ShowsWhere` | `Spec => []ShowsWhereItIs` |
| `ConsoleSessionProofs!Followed` | `Spec => []Follows` |
| `ConsoleSessionProofs!RunsOnly` | `Spec => RunsOnlyWhatWasSubmitted` |
| `ConsoleHubProofs!TypeCorrect` | `Spec => []TypeOK`: shapes, and automatic retries within their cap |
| `ConsoleHubProofs!ServesOneShell` | `Spec => OneShellPerDistro`: the hub implements `ConsoleService` |
| `ConsoleHubProofs!PreparedIsForSelected` | `Spec => []PreparedReachesSelected` |
| `ConsoleHubProofs!TellsTruth` | `Spec => []PanelTellsTruth` |
| `AppSettingsProofs!TypeCorrect` | `Spec => []TypeOK` |
| `AppSettingsProofs!KeptListens` | `Spec => []RunningListens` |
| `AppSettingsProofs!EndsAreReported` | `Spec => []StatusReported` |
| `AppSettingsProofs!TimersFollow` | `Spec => []TimersFollowSettings` |
| `AppSettingsProofs!EndpointFollows` | `Spec => []ServerFollowsSettings` |
| `ExplorerProofs!TypeCorrect` | `Spec => []TypeOK`: types, and what each operation tells of its items |
| `ExplorerProofs!DoneIsAll` | `Spec => []DoneMeansAll` |
| `ExplorerProofs!CancelIsHeeded` | `Spec => CancelHeeded` |
| `ExplorerProofs!RecordsTellOrigin` | `Spec => []RecordTellsOrigin` |
| `ExplorerProofs!NothingIsLost` | `Spec => []NothingLost` |
| `DiagnosticsProofs!TypeCorrect` | `Spec => []TypeOK` |
| `DiagnosticsProofs!LogKeepsOrder` | `Spec => []LogIsOrdered`: newest first, each number once, within the cap |
| `DiagnosticsProofs!TellsWhatHappened` | `Spec => []ChangesHappened` |
| `DiagnosticsProofs!RecoveryStaysNarrow` | `Spec => []RecoveryIsNarrow` |
| `DiagnosticsProofs!CollectorsSayNothingFalse` | `AnswersAreTrue /\ CollectSpec => []SaysNothingFalse` |
| `DiagnosticsProofs!PollingStartsNothing` | `CollectSpec => PollingLeavesEnginesAlone` |
| `ExplorerProofs!PaneTypeCorrect` | `PaneSpec => []PaneTypeOK` |
| `ExplorerProofs!SizesStayCurrent` | `PaneSpec => []SizesAreCurrent` |
| `ExplorerProofs!RefreshSetsRight` | `PaneSpec => []RefreshRepairs` |
| `AppLifecycleProofs!TypeCorrect` | `Spec => []TypeOK` |
| `AppLifecycleProofs!SamplesAreKept` | `Spec => []NoSampleDropped` |
| `AppLifecycleProofs!SettingsOutlive` | `Spec => SettingsSurvive` |
| `AppLifecycleProofs!FailuresAreTold` | `Spec => FailureTold` |
| `VerdictProofs!ReachTypeCorrect` | `ReachSpec => []ReachTypeOK` |
| `VerdictProofs!VerdictsFollowThePackets` | `ReachSpec => []VerdictsAreTrue` |
| `VerdictProofs!SettingsTypeCorrect` | `SettingsSpec => []SettingsTypeOK` |
| `VerdictProofs!AppliedIsTrue` | `SettingsSpec => AppliedIsInForce` |
| `VerdictProofs!RestartPendingIsTrue` | `SettingsSpec => RestartPendingIsRight` |
| `VerdictProofs!TypeCorrect` | `Spec => []TypeOK` of `PublishedSnapshot`: the dashboard is one of the domain model |
| `VerdictProofs!UnreadIsNotOk` | `Spec => []UnreadNeverPasses` |
| `VerdictProofs!MissingIsNamed` | `Spec => []WhatIsMissingIsNamed` |
| `VerdictProofs!StaleQueriesAreFailures` | `Spec => []StaleQueriesAreExact` |
| `VerdictProofs!JudgesAgree` | `Spec => []ReportsAgree` |
| `VerdictProofs!ToolsAnswerWhatIsKnown` | `Spec => [](SecretsStay /\ FactsOrNothing /\ ErrorsAreErrors)` |

### The store

**Sections.** `SectionsFromSelected` is not inductive: a reply still to come could
carry anything. The strengthening `Owned` says that every in-distro call in flight, and
every tier that may still issue one, *captures* a pair: its epoch is not in the
future, and if it is the current one, then its distro is the selected one. The
inductive invariant `Inv` is `MemoryOK` (types, `StoreOK`, `Owned`) of the store
with its calls and probes. The argument has two floors:

1. every store method keeps `StoreOK` and `KeepsOwner`: owned sections stay owned,
   tiers are left alone, and the selection changes only together with the epoch. One
   lemma a method (`RecomputeOK` ... `ProbeUnansweredOK`);
2. every tier operator keeps `MemoryOK` (`IssueOK`, `FinishTierOK`, `ProceedOK`,
   `GateOK`, `RefreshOK` ...). Because these compose freely, an action's case is the
   composition of its handler's lemmas, in the handler's order.

**Probe.** `OneProbeInFlight` links two pieces of state, so what has to be shown is
that they only ever change together. All operators but two leave both alone
(`SameProbe`). `SendProbe` is reached only with `probeInFlight` null, hence, by the link,
with no probe anywhere, and with a distro to ask (`TierBodyLink`); a settling probe is
the only one, so that clearing its own leaves none.

**Publication.** Several steps do leave the store unpublished: a runner failure is
committed without an emit, a verdict is not even committed. They are harmless because a
tier is still under way, whose end publishes. So `Told` says: the store is published, or
some tier, or the first list of distros, is on its way; and `Tied` that this is never an
empty promise: a tier on its way waits for its list, for a probe that is in flight or for
collectors that are. Once nothing is in flight, no tier can be, and what is left of
`Told` is the property. The end of one tier must not break what holds of the others
(`OthersKept`), which matters where a single probe lets several of them go on.

**Last good read.** `Keeps` is a relation between two stores: within an epoch
sections once gone stay gone, filled ones stay filled and `ports` stays "succeeded", and
an epoch that is over does not return. It is transitive, so a handler keeps it if its methods do.

### The consoles

**Directory shown.** `ShownInv` follows the prompts the session has not received: once
the shell has prompted, the last of them tells its directory, and if there is none,
`session.cwd` does.

**Following.** `Follows` is about a console at rest, and nothing said of a resting state
is inductive. `FollowsInv` says for each stage of a sync why the last request is still
alive until the hook has heard of one: it waits (`pending`, a write asked for, the file,
the hook), and while the file is there the Return that makes the hook read it is on its way
(`ReturnComes`), or a failure counted against the budget took it. At rest nothing of this
is left.

**The Return of a sync.** `ReturnInv` bounds the shell's line, which the session does not
see, by what it has tracked, for every prefix of the keys still in the pty: there is a
list of lengths, one for each prefix, that starts at no less than the line's, loses at
most one by a backspace, gains at least one by a character and ends at no more than
`typed`; and it is zero where a sync writes its Return. So a Return of a sync meets
an empty line. A recalled line appears without being typed, and no bound holds for it: it
is the exception the property names (`shell.recalled`).

**One shell.** The inductive invariant of `ConsoleHubProofs` adds two facts to the
types. `DeadHoldsNothing`: a dead session has no pty, so replacing it leaves nothing
behind (that is why the status decides in `ensure`). `OnlyQuittingOrphans`: a pty loses
its session in the shutdown only, one per distro and only while it is being opened.
With them `ShellOf` is the session's pty while the app runs and the orphan afterwards
(`ShellIs`), and every step is a `Begin`, a `Settle` or an `End` of the service, or leaves
the shells alone (`StepServes`).

**Prepared commands.** An answer is harmless only if the effect that asked is
cleaned up when the selection moves on; `PanelInv` says so for answers already sent
(`MailFor`), answers still owed (`wanted`) and the session held (`sid`).

**The panel's truth.** The mail under way determines what the panel will show. Of the
messages that count (`News`), the last tells the session's present status; if there is
none, the panel has it already; and an effect that still waits for its spawn has no
answer under way that counts (`TellInv`).

### Host and timers

`RunningListens` is inductive once the identities of calls and servers are
known to be fresh, which needs finitely many of them (`FreshIsFresh`). A call is
proved piece by piece, from one await to the next (`RunOK`, `ClosedOK`, `BoundOK`), so
nothing depends on which other call ran in between. `StatusReported` follows the same
pieces: each that changes what the host is ends in a report or in a bind that will.
`ServerInv` describes a host that is not behind the settings: nobody has asked yet, or
exactly one call is under way and heads for the settings in force (`Heads`), or all is
quiet and settled; it holds again from a call that runs alone, whatever came before.
`AloneInv` counts the servers while no calls have overlapped.

`FollowsSettings` strengthens `TimersFollowSettings` to a scheduler that
was made but not started, and adds that pause and period are those of the settings;
`MonitorOK` shows that `setIntervals` followed by `setPaused` restores it after any patch.

### File operations

**Done and cancelled.** `TypeOK` there includes `Told`: what has not failed has
carried out, or was warned of, exactly the items before the present one, and is done only
with all of them. `CancelIsHeeded` is a property of steps, proved action by action.

**Records.** `TrashInv` has three parts. Of each operation (`NamesOf`): the names a batch
has chosen differ, no file holds one that it has still to fill, the record of the file
about to move is its own, and a record that a restore is about to remove has no file. Of
two operations (`Apart`): what both have in hand is contested. And of every file the
record is right. All of it speaks of names that are not contested, and `contested` only
grows, so a step of one operation leaves the others in order (`NamesKept`, `TrashKept`).
That a batch's names differ is a fact about the loop in `trashEntries`, hence about a
recursive function, for every batch: proved by the least item that would break it
(`PickedNext`, `PicksExist`), with `OneLeft` for the pigeons: more names than are taken
leave a free one.

**Nothing lost.** `KeptInv` strengthens `NothingLost`: a content is accounted for (deleted,
replaced by a save, or destroyed in a named race), or whole in a spot nobody is about to
clear; a copied source that its operation will remove, and that nobody has written to
since (`Leaving`), does not count. Two moves could otherwise vouch for each other. A step
that writes over something either finds nothing there, or names it (`InRace`, `Touched`).
No theorem of this module has a hypothesis: faults, cancels, time limits, scripts that go
on and the races themselves are all behaviours it speaks of.

### Pane and diagnostics

**Sizes.** An answer is used only if its token is the one in force, so `TokenInv` says
what the token stands for: a measurement still in flight, of the directory shown, at its
present age. Everything that changes one of these also replaces the token.

**Refresh.** `RepairInv`: since the refresh no notice is under way, every call that could
still replace the listing is that refresh, and either it is still to come or the
listing is right.

**The log.** `SeenInv`: what `observe` compares the next snapshot with is the present
one. `OwnedInv`: what a snapshot, present or captured by a check, says of VS Code
servers is about its selected distro. From these an entry about a change is one that the
distro went through while selected (but for the two facets that may be another's answer), and a recovery stops nothing elsewhere.

### Runs of the app

**Samples.** The samples of a recording are counted in the buffer and in the files, and
`NoSampleDropped` says that the two together are those made. Its strengthening `HeadFits`:
the write under way has in hand no more than the buffer holds, since a buffer is cut
only by the end of the write at the head of the chain. Counting is by the cardinality of
sets of places, so that appending and cutting are facts about sets.

**Settings.** `SettingsSurvive` is a property of steps; what makes it inductive is
`FileInv`, by which the last durable write is what the file holds, whatever crashed
between temporary file and rename.

**Failed installs.** `DisplayInv`: what is on display as downloaded is what the library
has got, newer than what runs and no older than what the user was told. `QuitInv`: a
quit under way has recorded it. `ToldInv`: what was told, and what the last quit tried,
is on record for the next start, unless the record could not be written.

### Verdicts

**Ports.** `ReachInv` goes from reading to verdict: what the caches serve is on screen
(`CachesInv`), a reading that is not behind is the world's or missing (`ReadInv`), and a
verdict that is not behind was made from what is on screen (`JudgedInv`). The last had to
say that a refresh which judges rules by another address than the one shown leaves no
such verdict. That the verdict of a current reading follows the packets is then a matter
of cases over scopes, modes and firewalls, with no state in it; the three that are too
wide are cases of their own.

**Settings in force.** `SavedInv`: a text that differs from the one that runs was saved
after the start, or its file is gone. `QuietInv`: while nothing was saved or restarted,
what the collector holds is what files, clock and VM would tell now, or nothing. The last declaration of a key in its
section is a greatest index, and exists by well-founded induction on indices.

### The published snapshot

**Types.** The query's answers fit their fields by an assumption about the queries, so
that every order of answers leaves a dashboard of the domain model. Everything after
that is proved *for every dashboard of the domain model*, whether or not some order of
answers leads there.

**Unread, missing, agreeing.** `UnreadNeverPasses` and `ReportsAgree` need the type
alone, a check at a time. `WhatIsMissingIsNamed` needs `AnsweredInv`: a section nobody
answered for is as it was at the selection, one that was answered for holds one of the
answers of its query, and the root's usage is listed in every reading.

**Stale queries.** `FailuresInv`: the remembered failures are queries, each once, and but
for the `overruled` they are those that failed last. A query becomes overruled when one
of an earlier selection notes or forgets its failure, or when it falls out of the full
list, and is so no more once the selection's own has ended.

**Tools.** `MarkedInv`: a value that is secret stands under a variable marked as one.
From it no answer, export or warning carries it. That the directory tool tells a cut
from an end (`TreeTells`, the last part of `ToolsKeepTheirWord`) is a fact about a
recursion over a tree, and stays with TLC.

### The collectors

**Answers.** `SaysNothingFalse` has two sides: what a parser makes of one run, and what
caches, samples and scripts make of the answers over time. The first is a fact about
scripts and parsers with no state in it, `AnswersAreTrue`: every question of every world
with every end of its runs, every pair of CPU samples that can meet, and docker's script
with any two worlds its halves can see and any of its commands late. It is the theorem's hypothesis, and TLC
evaluates it in full as an assumption of `MCCollectors`. The second is proved for any
places, lifetimes and lengths: `CacheInv`, an entry is of its own key, true of the world
it was read in, and ages only; `SampleInv`, a kept sample is of an earlier boot or an
earlier moment of this one; `ProbingInv`, what docker's script has printed is of a world
that differs from the present one only in what a command started, or the connection is
made and what follows is of the world connected to. A refresh that fails hands back the
old entry, so that only there an answer outlives its time.

**Polling.** `WorldInv` and `ProbingInv` alone are inductive, so that
`PollingStartsNothing` needs nothing of the parsers but `ContactIsInvited`: a script
that goes on to connect has printed a running daemon or Docker Desktop's mount, and no
remote endpoint.

### Assumptions, and what is only model-checked

`PowerAssumption` (`2^k` is a natural number) is stated because the provers have no
theory of exponentiation; TLC evaluates it on every run. Most others only say that null
(`None`, `Nil`, `Null`), an absent file or place and a mark like `"local"` are none of the
values they stand beside: `NullAssumption`, `TierAssumption`, `PortAssumption`,
`PathAssumption`, `NamesAssumption`, `ValuesAssumption`, `AddressAssumption`,
`NilAssumption`, `NoneAssumption`, `EngineAssumption`. `SizesAssumption`: what the guest
shows of a size that is in force is within the tolerance (`wsl-config.ts:648`). `TtlAssumption`: a cached answer
is served for a time. `ScenariosAssumption`, `StartsAssumption` and
`HistoryAssumption` give requests, starts and histories their shape, as
`SettingsAssumption`, `StartAssumption`, `KeyAssumption`, `MarkerAssumption` and
`SlowAssumption` do for settings, states of WSL, keys, shells and slow queries. The
bounds, budgets and periods are natural numbers, positive where the code has a positive
constant: `BoundAssumption`, `BudgetAssumption`, `LifeBudgetAssumption`,
`PaneBudgetAssumption`, `DiagnosticsAssumption`, `ChangesAssumption`, `LimitAssumption`,
`RetryAssumption`, `ProbeAssumption`, `TrackedAssumption`, `GraceAssumption`,
`CopiesAssumption`. `ExistsAssumption`: every distro has its home directory.
`DistroAssumption`: no distro is the mark for none, and the default one is a distro.
`RecordingAssumption` makes recordings finitely many numbers. Three speak of the code
outside the module: `DistrosAssumption`, a distro can be selected;
`LimitsAssumption`, every list the context cuts keeps some item (`DEV_ENV_CONTEXT_LIMITS`);
`ReadingsAssumption`, there is one query for each section, its answers have the fields'
types, the resources list the root once (`DISK_MOUNT_POINTS`, `wsl/resources.ts:6`, 141),
and a secret is a variable that is one by name or by the collector's word.

Only model-checked are liveness, which is out of the prover's reach (`Converges`,
`SyncStatusEnds`, `Heals`, `CatchesUp`), `TreeTells`, and `AnswersAreTrue`
(`ParsersAssumption` of `MCCollectors`): that the collectors' parsers are right about a
single run. They select and count the rows of an output, and the provers have no theory
of `SelectSeq`; what such an operator computes for *every* output would need an
induction theorem with an operator for a parameter, which the installed provers cannot
instantiate. TLC compares the parsers with independent definitions over the worlds of
section 3 instead.

## 6. Observations

Where the code and what its comments, tests or documents say of it part, or where a
reader might expect more than it does. The models follow the code; a property that
would be false says in its comment which case it leaves out. The first group was found
by runs that ended in a counterexample.

**Store.** A probe of the previous distro settles after a switch and becomes the
verdict, trust window or backoff of the new one (`state/store.ts:681`, against the
comment at 789). Collectors are sent to a distro that was found stopped while its tier
waited (`store.ts:262`). `setTerminalContext` publishes without recomputing warnings
(`store.ts:430`), so `QuietSnapshotPublished` leaves the crossing warning out; so does a
list that selects another distro.

**Console.** The Return of a sync reaches a running program: only `typedInput` is looked
at, and it is empty again once Enter is pressed (`terminal/session.ts:203`,
`docs/ARCHITECTURE.md:122`). A line recalled with the arrow keys is not tracked, and the
Return of the next sync runs it (`session.ts:24`, `ARCHITECTURE.md:111`): the one exception
of `RunsOnlyWhatWasSubmitted`. A sync deferred
after its await overwrites a newer one (`session.ts:198`, `session.test.ts:191`), so
`Follows` asks that *one of* the directories is tried; a hook that reads the file while it
is being written (`backend.ts:163`) removes the request with it. A failed write of a sync that waited behind
a command leaves the console `running` (`session.ts:192`). A shell without markers stays
`running` after its first command (`session.ts:216`). A distro whose shell always ends
before its first prompt is respawned without end, because every "running" answer clears
the retries (`ConsolePanel.tsx:222`, comment 211); `Heals` allows that. A pty that
arrives after `disposeAll` is kept, and ends with the process (`manager.ts:68`).

**Settings and MCP.** A reset leaves timers and MCP server at the old settings
(`ipc/handlers.ts:501`). Monitoring paused at start-up is never polled after a resume
(`app.ts:199`, `polling.ts:53`). A token made while the endpoint is disabled starts it
(`handlers.ts:511`). Switched off while binding, the MCP server stays up
(`mcp/server.ts:121`), and of two calls that bind the last wins, whichever came first; a
server that lost keeps its port until the app ends. `TimersFollowSettings` and
`ServerFollowsSettings` name these and say from when on they are over. The renderer is left with the earlier of two
overlapping patches (`app.ts:299`). A settings file that exists but cannot be read is
replaced by defaults and a fresh token, without a backup (`settings/store.ts:70`,
comment 42).

**Updates and recording.** After a download, a periodic check or an error changes the
state, and a quit then installs with no hand-off record (`updater.ts:198`). A crash
while quitting flushes, after the hand-off, is told as a failed install. Overlapping
start, export and stop of a recording put samples in the wrong file, write a summary
twice, or leave a write error with recording on (`performance-diagnostics.ts`).

**Explorer.** Two trash batches with the same name at once lose a file
(`trash.ts:119`, comment 49), and one writes or removes the record of the other. A
destination found free may be taken before the `mv`, the `cp`, or the Windows pane's rename,
which replaces it (`operations.ts:31`, `trash.ts:231`, `windows.ts:478`); a move to another
volume removes its source though another operation has put a new file there meanwhile
(`windows.ts:486`, and `mv`). All occur in `file_operations`: `NothingLost` and
`RecordTellsOrigin` name them, and nothing else, as exceptions. An export is
done though a link was not copied (`transfer.ts:169`); `DoneMeansAll` names these items. A
cancel during the last item is answered by "done". The latest of two navigations
does not win, the last *answer* does, and the listing of the old distro may stay after a
switch (`usePane.ts:252`); `RefreshRepairs` says what heals it, and that the history and
the results of a search are not healed. In the editor, a save
after a switch writes to the same path of the newly selected distro, and text typed
while a save is awaited is marked as saved (`EditorOverlay.tsx:102`).

**Diagnostics.** A probe of the previous distro that settles after a switch is logged as
the new one's silence or recovery (`store.ts:681`, `diagnostics.ts:129`), and a console of
another distro that fails as the selected one's, for the store keeps the last console
event of all (`app.ts:109`, `diagnostics.ts:165`): `ChangesHappened` lets both pass by name. A
console that goes from `start-failed` over `starting` to `ready` never
logs its recovery; the first unanswered probe after a selection logs nothing; a
change that coincides with a switch is skipped; a recovery across sleep lists changes
backwards; a check joined with another port gets the first port's result.

**WSL settings and ports.** A `.wslconfig` that was deleted, or that cannot be read at the
moment, has no time, and no restart is said to be pending although WSL still runs
with what it said (`wsl-config.ts:1166`, 1267). Memory is compared with a tolerance
(`wsl-config.ts:653`), so `memory=8GB` saved while 7GB runs is called applied. The two
are named in `RestartPendingIsRight` and `AppliedIsInForce`. The VM's start is computed from an uptime that does not
count the host's sleep; a report mixes reads if WSL restarts or the files change during
the collection, which the properties allow for within the grace period. `ss` that fails
reads as no sockets (`ports.ts`). The address that rules are judged by is one slow tier old
(`store.ts:616`). Three verdicts are wider than the truth, against "unknown rather than a
confident wrong answer" (`reachability.ts:10`), and `VerdictsAreTrue` allows just these
(`IsTooWide`): another Windows program on the same port counts as a forwarding; a
forwarding from localhost alone counts as one from the network, for rows are matched by
port and not by address (`windows-ports.ts:109`); and a loopback setting that could not be
read counts as on (`reachability.ts:90`).

**Reports.** "Unknown remains unknown" (`shared/doctor.ts:12`) has exceptions: ports never
read with a known firewall, services never read, and unknown reachability are
`healthy`. `dev-env-context.ts` counts some unread facts as zero (inotify, forwarding rules
after a failed `netsh`, nameservers). The skew thresholds of warning and doctor differ
between 3 and 9 s. Only three failing queries become warnings, so a fourth is not named
(`warnings.ts:18`). More than twenty queries failing at once push the oldest out of the
list while it still fails, and the stale queries then miss it (`state/store.ts:181`, 444); a
query of the distro before that ends after a switch notes or forgets its failure in the
list of the new one (`store.ts:746-750`). `StaleQueriesAreExact` leaves both out by name.
With no nameserver in a `resolv.conf` of WSL's own the agent reads `problem` and the desktop
`healthy` (`dev-env-context.ts:740`, `doctor.ts:247`); a Console under an automount root other
than `/mnt/` is warned of, or not, by the default (`warnings.ts:188`): the two exceptions of
`ReportsAgree`.
The resources are named as not collected when CPU and memory are unknown, though file
systems were read and are printed (`notCollectedSections`, `wsl/resources.ts:205`). MCP
`children` is `null` or `[]` at the same depth depending on the
budget, and an error in one subdirectory fails the whole tree (`mcp/tools.ts:78`).

**Collectors** (`Unseen`, `UnseenSecond`), the cases in which an answer is false. "Stopped"
is a run that ended with a code before its last line (`runner.ts:122-133`): the distro was
shut down, or `wsl.exe` refused. What such a run did not come to is taken for absent, and
where the answer is cached, for as long as the cache lives:

| Collector | Case |
| --- | --- |
| Docker | a run stopped early is "not installed", one stopped later "no images", with the daemon running, and both are cached; so is "no images" when only `docker image ls` exceeds its `timeout 6`, and "not running" without a reason when `version` and `info` do (`docker.ts:85`, 420). An empty endpoint counts as local. Polling starts a socket-activated daemon beside Docker Desktop's mount, or if it stops between the two halves, and reaches a remote engine when the context is switched between them or could not be read |
| Hermes | a cut or stopped run is "not detected"; a failing or stopped `hermes status` is cached |
| DNS | an unreadable plain `resolv.conf`, or a stopped run, has no nameservers |
| Drive mounts | a cut or stopped run, or an automount root of `/`, shows no mounts |
| Resources | `df` that does not answer is "not mounted"; a restart between two samples gives a share of the CPU |
| Command, tools | a stopped run is "not found", for tools a cut one too; a program behind a moved automount root is not seen as Windows' |
| Disk image | an image that is not the mounted one is measured |
| Distros | a cut or stopped list is a shorter list |
| Packages | garbled output is "ready" and empty |
| Memory | a `meminfo` that breaks off before `SReclaimable`; a bare number as `memory=` |
| System | the first Windows profile is taken for the user's |
| Services, log | no user bus, or systemd turned on since, are no services; a stopped run is a shorter or empty log |
| Zone, consumers | a stopped run counts what it came to; a walk given up under BusyBox is complete; a partial size is a size |
| Terminal | a locked settings file is "not installed" |

## 7. Not modelled, and why

* **Window, tray, preload, dashboard views**: views of the snapshot and wiring; what they
  ask of the main process are actions of the modules above.
* **Fixture provider**: a test double.
* **MCP client registration** (`mcp/register-clients.ts`): one edit of another program's
  file per request. Two remarks from reading it: a Codex block may double a table the
  user wrote, and the temporary file has a fixed name.
* **Serving one MCP request** (Origin and token gate): no state between requests. What the
  tools answer is `McpTools`.
* **Parts of modelled components**: byte totals, reading and searching of files;
  clipboard, selection and sorting of a pane; the editor overlay; directories as sources
  of a batch; slow intervals and renderer pings of the recorder; locale and login item;
  wording and number formats of reports; collectors that print one value a line and
  keep nothing (processes, environment, paths, Defender, inotify); the runner's cap on
  output and its latch once `wsl.exe` is missing.

## 8. What is left

In the order in which it would add most:

1. `EditorOverlay` beside `ExplorerPane`: typing while a save is awaited, saves across a
   switch.
2. A dashboard that shows one distro and forgets it on a switch, as an abstract
   specification of `SnapshotStore`; the sections it owns are proved already.
3. `AnswersAreTrue` for outputs of any length, collector by collector, where a parser
   looks at one line only and needs no count.
