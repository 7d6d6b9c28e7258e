------------------------------ MODULE McpTools ------------------------------
(***************************************************************************)
(* The read-only tools of the MCP server, src/main/mcp/tools.ts: what each *)
(* one answers from the published snapshot s, and from the Explorer        *)
(* backend where it reads a path.  An answer carries the number its        *)
(* summary states and the data it returns; a handler that throws answers   *)
(* with an error (guard).                                                  *)
(***************************************************************************)
EXTENDS EnvironmentReports

CONSTANT MaxTreeEntries   \* MAX_TREE_ENTRIES

Ok(summary, data) == [isError |-> FALSE, summary |-> summary, data |-> data]
Fail(why) == [isError |-> TRUE, summary |-> why, data |-> None]

\* Secret values never leave even if a collector slips.
SanitizeEnvironment(env) ==
  [i \in DOMAIN env |-> IF IsSecret(env[i]) THEN [env[i] EXCEPT !.value = "masked"] ELSE env[i]]

\* withDashboard: every tool of a section needs a dashboard.
WithDashboard(s, answer) == IF s.dash = None THEN Fail("no-data-yet") ELSE answer
WithDistro(s, answer) == IF s.selected = None THEN Fail("no-distro-selected") ELSE answer

-----------------------------------------------------------------------------
(* Tools over the snapshot *)

OverviewTools == {"GetDistros", "GetSelectedDistro", "GetDashboardSnapshot", "GetSystemInfo",
                  "GetResourceUsage"}
CallOverview(s, tool) ==
  CASE tool = "GetDistros" ->
         Ok(Cardinality({d \in Distros : s.distros[d] # None}), [distros |-> s.distros])
    [] tool = "GetSelectedDistro" ->
         Ok(s.answering, [selectedDistro |-> s.selected, answering |-> s.answering])
    [] tool = "GetDashboardSnapshot" ->
         WithDashboard(s, Ok(None,
           [dashboard |-> [s.dash EXCEPT !.environment = SanitizeEnvironment(@)]]))
    [] tool = "GetSystemInfo" -> WithDashboard(s, Ok(None, [system |-> s.dash.system]))
    [] tool = "GetResourceUsage" -> WithDashboard(s, Ok(None, [resources |-> s.dash.resources]))

\* Lists are counted whether or not they were ever read.
ListTools == [GetImportantPaths |-> "paths", GetConfigurationFiles |-> "configuration",
              GetInstalledTools |-> "tools", GetEnvironment |-> "environment",
              GetProcesses |-> "processes", GetServices |-> "services", GetPorts |-> "ports"]
CallList(s, tool) ==
  LET items == OrEmpty(s.dash, ListTools[tool]) IN
  WithDashboard(s,
    CASE tool = "GetInstalledTools" -> Ok(Len(Where(items, Installed)), items)
      [] tool = "GetEnvironment" -> Ok(Len(items), SanitizeEnvironment(items))
      [] OTHER -> Ok(Len(items), items))

\* One item by its key; a missing one is an error.
CallFind(s, tool, key) ==
  LET Wanted(item) ==
        CASE tool = "GetToolStatus" -> item.id = key
          [] tool = "GetProcess" -> item.pid = key
          [] tool = "GetService" -> item.name = key
      where == [GetToolStatus |-> "tools", GetProcess |-> "processes", GetService |-> "services"]
      found == First(OrEmpty(s.dash, where[tool]), Wanted) IN
  WithDashboard(s, IF found = None THEN Fail("not-found") ELSE Ok(None, found))

\* A fact that was never read is answered as not available, with null.
FactTools == [GetDiskImage |-> "disk", GetWslSettings |-> "wslSettings",
              GetFirewall |-> "firewall", GetPortProxy |-> "portProxy", GetDocker |-> "docker",
              GetDns |-> "dns", GetClock |-> "clock"]
CallFact(s, tool) ==
  LET fact == OrNull(s.dash, FactTools[tool])
      Stale(r) == r.verdict = "stale" IN
  WithDashboard(s,
    IF fact = None THEN Ok("not-available", None)
    ELSE CASE tool = "GetPortProxy" -> Ok(Len(Where(fact.rules, Stale)), fact)
           [] tool = "GetDocker" ->
                Ok(IF fact.cliInstalled THEN Len(fact.containers) ELSE "not-installed", fact)
           [] tool = "GetDns" -> Ok(Len(fact.nameservers), fact)
           [] tool = "GetClock" -> Ok(fact.skewSeconds, fact)
           [] OTHER -> Ok(None, fact))

\* The later facts qualify their answer: unfinished, partial, low, not covered.
LateFactTools == [GetHermesStatus |-> "hermes", GetZoneIdentifiers |-> "zoneIdentifier",
                  GetTerminalProfiles |-> "terminalProfiles",
                  GetDiskConsumers |-> "diskConsumers", GetDriveMounts |-> "driveMounts",
                  GetDefender |-> "defender", GetInotifyLimits |-> "inotify"]
CallLateFact(s, tool) ==
  LET fact == OrNull(s.dash, LateFactTools[tool])
      Bare(d) == ~d.metadata IN
  WithDashboard(s,
    IF fact = None THEN Ok("not-read", None)
    ELSE CASE tool = "GetZoneIdentifiers" ->
                Ok(IF fact.count = None THEN "did-not-finish" ELSE fact.count, fact)
           [] tool = "GetTerminalProfiles" ->
                Ok(IF fact.installed = FALSE THEN "not-installed"
                   ELSE IF fact.error # None THEN fact.error
                   ELSE IF s.selected \in fact.profiles THEN "has-profile" ELSE "no-profile", fact)
           [] tool = "GetDiskConsumers" -> Ok(fact.measuredBytes, fact)
           [] tool = "GetDriveMounts" -> Ok(Len(Where(fact.drives, Bare)), fact)
           [] tool = "GetDefender" -> Ok(DefenderCoverage(fact, s.dash.disk), fact)
           [] tool = "GetInotifyLimits" -> Ok(WatchesAreLow(fact), fact)
           [] OTHER -> Ok(None, fact))

GetWarnings(s) == WithDashboard(s, Ok(Len(s.warnings), s.warnings))

\* The derived answers; only the warnings need a dashboard.
CallDerived(s, tool) ==
  CASE tool = "GetWarnings" -> GetWarnings(s)
    [] tool = "GetDeveloperEnvironmentContext" ->
         LET c == BuildContext(s) IN
         Ok(None, [markdown |-> DevEnvContextToMarkdown(c), context |-> c])
    [] tool = "GetEnvironmentDoctor" ->
         LET doctor == BuildDoctor(s) IN Ok(doctor.counts, doctor)
    [] tool = "GetExplorerContext" -> Ok(None, [currentPath |-> s.explorerPath])
    [] tool = "GetConsoleContext" -> Ok(None, [cwd |-> s.cwd])

CallPortOwner(s, port) ==
  WithDashboard(s, LET own == PortOwnership(s.dash, port) IN Ok(DescribeOwnership(own), own))

\* The environment values an answer carries, of the tools that carry any.
EnvironmentValues(s) ==
  LET dash == CallOverview(s, "GetDashboardSnapshot")
      list == CallList(s, "GetEnvironment")
      Known(c) == {c.path.entries, c.path.wslenv} IN
  (IF dash.isError THEN {} ELSE {v.value : v \in Range(dash.data.dashboard.environment)})
  \union (IF list.isError THEN {} ELSE {v.value : v \in Range(list.data)})
  \union UNION {Known(answer.data.context) :
                   answer \in {CallDerived(s, "GetDeveloperEnvironmentContext")}}

-----------------------------------------------------------------------------
(* Tools over the Explorer backend: fs maps a directory to its entries,     *)
(* Files to what a file holds; a path that is neither throws                *)

\* Mutant: what a subdirectory left out is not passed up.
BuildTreeSilent(fs, path, depth, left) ==
  LET Build[d \in 1 .. depth] ==
        [at \in (DOMAIN fs) \X (0 .. left) |->
           LET Expand(acc, entry) ==
                 IF acc.left <= 0 THEN [acc EXCEPT !.truncated = TRUE]
                 ELSE IF d > 1 /\ entry \in DOMAIN fs
                 THEN LET sub == Build[d - 1][entry, acc.left - 1] IN
                      [acc EXCEPT !.nodes = Append(@, [path |-> entry, children |-> sub.nodes]),
                                  !.left = sub.left]
                 ELSE [acc EXCEPT !.nodes = Append(@, [path |-> entry, children |-> None]),
                                  !.left = @ - 1] IN
           FoldLeft(Expand, [nodes |-> <<>>, left |-> at[2], truncated |-> FALSE], fs[at[1]])] IN
  Build[depth][path, left]

\* buildTree: depth first, one budget for the whole tree.
BuildTree(fs, path, depth, left) ==
  LET Build[d \in 1 .. depth] ==
        [at \in (DOMAIN fs) \X (0 .. left) |->
           LET Expand(acc, entry) ==
                 IF acc.left <= 0 THEN [acc EXCEPT !.truncated = TRUE]
                 ELSE IF d > 1 /\ entry \in DOMAIN fs
                 THEN LET sub == Build[d - 1][entry, acc.left - 1] IN
                      [nodes |-> Append(acc.nodes, [path |-> entry, children |-> sub.nodes]),
                       left |-> sub.left, truncated |-> acc.truncated \/ sub.truncated]
                 ELSE [acc EXCEPT !.nodes = Append(@, [path |-> entry, children |-> None]),
                                  !.left = @ - 1] IN
           FoldLeft(Expand, [nodes |-> <<>>, left |-> at[2], truncated |-> FALSE], fs[at[1]])] IN
  Build[depth][path, left]

\* assertValidLinuxPath and the backend's own refusal both end in an error.
Reads(s, path, known, answer) ==
  WithDistro(s, IF path \in known THEN answer ELSE Fail("EXPLORER"))

GetDirectory(s, fs, path) == Reads(s, path, DOMAIN fs, Ok(Len(fs[path]), fs[path]))

GetDirectoryTree(s, fs, path, depth) ==
  Reads(s, path, DOMAIN fs,
        LET t == BuildTree(fs, path, depth, MaxTreeEntries) IN
        Ok(MaxTreeEntries - t.left, [tree |-> t.nodes, truncated |-> t.truncated]))

\* maskTextFileContent: a key is withheld, an assignment of a secret is masked.
MaskTextFileContent(path, content, sensitive) ==
  IF content = "private-key" THEN [content |-> "withheld", warning |-> "private-key"]
  ELSE [content |-> IF content = "secret-assignment" THEN "masked-assignment" ELSE content,
        warning |-> IF path \in sensitive THEN "sensitive" ELSE None]

GetTextFile(s, path, files, forbidden, sensitive) ==
  WithDistro(s,
    IF path \in forbidden THEN Fail("not-allowed")
    ELSE IF path \notin DOMAIN files THEN Fail("EXPLORER")
    ELSE IF files[path] = "binary" THEN Fail("binary-file")
    ELSE LET masked == MaskTextFileContent(path, files[path], sensitive) IN
         Ok(masked.warning, masked))

\* A path is converted one way or the other, or refused; never guessed.
GetPathMapping(s, path, conversion) ==
  WithDistro(s, IF path \in DOMAIN conversion THEN Ok(conversion[path], path)
                ELSE Fail("cannot-map"))

\* null means the distro did not answer, which must never read as not installed.
GetCommandResolution(s, resolution) ==
  WithDistro(s, IF resolution = None THEN Fail("could-not-resolve")
                ELSE Ok(resolution, resolution))

GetServiceLog(s, log) ==
  WithDistro(s, Ok(IF log.error # None THEN log.error ELSE Len(log.lines), log))
=============================================================================
