------------------------- MODULE EnvironmentReports -------------------------
(***************************************************************************)
(* What the application writes about a snapshot: the warnings card         *)
(* (main/state/warnings.ts), the Environment Doctor of the desktop         *)
(* (shared/doctor.ts), the agent context as Markdown                       *)
(* (shared/dev-env-context-markdown.ts), the other Copy-for-LLM exports    *)
(* (main/state/llm-markdown.ts) and "who owns this port"                   *)
(* (shared/port-ownership.ts).                                             *)
(*                                                                         *)
(* A document is the set of its parts; a part is a heading, and what it    *)
(* says is kept only where it says that something is absent or counts it.  *)
(***************************************************************************)
EXTENDS EnvironmentContext

-----------------------------------------------------------------------------
(* computeWarnings: facts, most recent command failures last *)

MaxRunnerWarnings == 3
ClockSkewWarning == ClockSkewWarnSeconds

Warn(when, id, of) == IF when THEN <<[id |-> id, of |-> of]>> ELSE <<>>
WarnEach(items, Of(_), id) == [i \in DOMAIN items |-> [id |-> id, of |-> Of(items[i])]]

\* Two processes listening on one port.
Conflicts(dash) ==
  LET Held(p) == p.listening /\ p.pid # None
      ports == {p.port : p \in {q \in Range(dash.ports) : Held(q)}}
      Pids(n) == {p.pid : p \in {q \in Range(dash.ports) : Held(q) /\ q.port = n}} IN
  SetToSeq({n \in ports : Cardinality(Pids(n)) > 1})

\* The latest distinct failures, at most MaxRunnerWarnings of them, oldest first.
LastFailures(failures) ==
  LET Distinct(i) == \A j \in i + 1 .. Len(failures) : failures[j] # failures[i]
      last == Where([i \in DOMAIN failures |-> i], Distinct)
      cut == SubSeq(last, Max({1, Len(last) - MaxRunnerWarnings + 1}), Len(last)) IN
  [i \in DOMAIN cut |-> failures[cut[i]]]

DashboardWarnings(dash, running) ==
  LET Low(d) == d.exists /\ d.usePercent # None /\ d.usePercent >= 90
      skew == IF dash.clock = None THEN None ELSE dash.clock.skewSeconds
      crossing == Where(dash.paths, LAMBDA p : p.exists # FALSE /\ IsCrossBoundary(p.side))
                  \o Where(dash.tools, LAMBDA t : t.installed /\ IsCrossBoundary(t.side)) IN
     Warn(dash.system.systemdEnabled = FALSE, "systemd-disabled", None)
  \o Warn(running /\ dash.system.user # None /\ dash.system.home = None,
          "home-inaccessible", None)
  \o (IF running /\ skew # None THEN Warn(Abs(skew) >= ClockSkewWarning, "clock-skew", None)
      ELSE <<>>)
  \o WarnEach(Where(dash.resources.disks, Low), LAMBDA d : d.mountPoint, "disk-low")
  \o (IF dash.hermes = None THEN <<>>
      ELSE Warn(dash.hermes.executablePath # None /\ dash.hermes.dataDir = None,
                "hermes-no-config", None)
        \o Warn(dash.hermes.dataDir # None /\ dash.hermes.executablePath = None,
                "hermes-no-exec", None))
  \o WarnEach(Where(dash.services, Failed), LAMBDA v : v.name, "service-failed")
  \o WarnEach(Conflicts(dash), LAMBDA n : n, "port-conflict")
  \o Warn(crossing # <<>>, "cross-boundary-paths", None)

\* The Console's directory is judged with WSL's default automount root.
ComputeWarnings(s, failures) ==
     Warn(StateOf(s) = "Stopped", "distro-stopped", None)
  \o (IF s.dash = None THEN <<>> ELSE DashboardWarnings(s.dash, StateOf(s) = "Running"))
  \o Warn(IsCrossBoundary(ClassifyPathSide(s.cwd, "/mnt/")), "console-cwd-cross-boundary", None)
  \o WarnEach(LastFailures(failures), LAMBDA c : c, "runner-failed")
  \o Warn(s.mcp.error # None, "mcp-start-failed", None)

-----------------------------------------------------------------------------
(* runDoctor *)

Variable(dash, name) ==
  LET found == {v \in Range(dash.environment) : v.name = name} IN
  IF found = {} THEN None ELSE CHOOSE v \in found : TRUE

CheckProjectPath(dash) ==
  LET pwd == Variable(dash, "PWD") IN
  IF pwd = None THEN "unknown"
  ELSE IF pwd.isSecret THEN "unknown"
  ELSE CASE pwd.value = "windows" -> "warning"
         [] pwd.value = "linux" -> "healthy"
         [] OTHER -> "unknown"

CheckBinaryShadowing(dash) ==
  IF Where(dash.tools, Shadowed) # <<>> THEN "warning"
  ELSE IF Where(dash.tools, Installed) = <<>> THEN "unknown" ELSE "healthy"

CheckPathDuplication(dash) ==
  LET path == Variable(dash, "PATH") IN
  IF path = None THEN "unknown"
  ELSE IF path.value = "duplicates" THEN "warning" ELSE "healthy"

CheckGitSshConfig(dash) ==
  LET git == {t \in Range(dash.tools) : t.id = "git" /\ t.installed}
      Of(id) == {f \in Range(dash.configuration) : f.id = id} IN
  IF git = {} THEN "unknown"
  ELSE IF \/ \E id \in {"gitconfig", "ssh-config"} : \A f \in Of(id) : f.exists = None
          \/ \E t \in git : t.side = "unknown" THEN "unknown"
  ELSE IF \E t \in git : t.shadowedByWindows THEN "error"
  ELSE IF \E f \in Range(dash.configuration) : f.exists = FALSE THEN "warning"
  ELSE "healthy"

\* Only a hand-written resolv.conf is compared with the Windows adapter.
CheckDns(dash) ==
  LET dns == dash.dns IN
  IF dns = None THEN "unknown"
  ELSE IF dns.error # None THEN "error"
  ELSE IF None \in {dns.isGeneratedSymlink, dns.generateResolvConf, dns.dnsTunneling}
       THEN "unknown"
  ELSE IF /\ ~dns.generateResolvConf /\ ~dns.isGeneratedSymlink
          /\ \/ dns.nameservers = <<>>
             \/ /\ dns.windowsAdapterDns # <<>>
                /\ ~(Range(dns.nameservers) \subseteq Range(dns.windowsAdapterDns))
       THEN "warning" ELSE "healthy"

CheckPortFirewall(dash) ==
  LET fw == dash.firewall
      Some(reach) == \E p \in Range(dash.ports) : p.listening /\ p.reachability = reach IN
  IF fw = None THEN "unknown"
  ELSE IF Some("unreachable") THEN "error"
  ELSE IF Some("loopback-only") THEN "warning"
  ELSE IF fw.error # None \/ fw.enabled = None \/ fw.defaultInbound = None THEN "unknown"
  ELSE "healthy"

CheckVsCodeServer(dash) ==
  LET servers == {p \in Range(dash.processes) : p.vscode} IN
  IF servers = {} THEN "unknown"
  ELSE IF \E p \in servers : p.cpuPercent > 80 \/ p.elapsedDays > 7 THEN "warning"
  ELSE "healthy"

\* Mutant: half a minute of drift is healthy.
CheckClockSkewLenient(dash) ==
  IF dash.clock = None THEN "unknown"
  ELSE IF dash.clock.skewSeconds = None THEN "unknown"
  ELSE IF Abs(dash.clock.skewSeconds) <= 30 THEN "healthy" ELSE "error"

CheckClockSkew(dash) ==
  IF dash.clock = None THEN "unknown"
  ELSE IF dash.clock.skewSeconds = None THEN "unknown"
  ELSE LET skew == Abs(dash.clock.skewSeconds) IN
       IF skew <= 2 THEN "healthy" ELSE IF skew <= 30 THEN "warning" ELSE "error"

CheckSystemdDocker(dash) ==
  LET systemd == dash.system.systemdEnabled
      docker == dash.docker IN
  IF systemd = None THEN "unknown"
  ELSE IF Where(dash.services, Failed) # <<>> THEN "error"
  ELSE IF ~systemd THEN "warning"
  ELSE IF docker = None THEN "unknown"
  ELSE IF docker.error # None THEN "unknown"
  ELSE IF docker.cliInstalled /\ ~docker.daemonRunning THEN "warning" ELSE "healthy"

RunDoctor(dash) ==
  [projectPath |-> CheckProjectPath(dash), binaryShadowing |-> CheckBinaryShadowing(dash),
   pathDuplication |-> CheckPathDuplication(dash), gitSshConfig |-> CheckGitSshConfig(dash),
   dnsConfig |-> CheckDns(dash), portFirewall |-> CheckPortFirewall(dash),
   vscodeServer |-> CheckVsCodeServer(dash), clockSkew |-> CheckClockSkew(dash),
   systemdDocker |-> CheckSystemdDocker(dash)]

-----------------------------------------------------------------------------
(* devEnvContextToMarkdown: the headings printed for a context c; a heading  *)
(* with nothing known under it is left out                                   *)

PrintsWorkspace(c) == c.workspace.cwd # None \/ c.workspace.explorerPath # None
PrintsPaths(c) == \E p \in Range(c.workspace.paths.items) : p.mapped
PrintsToolGroup(c, g) == c.groups[g].installedCount \notin {None, 0}
PrintsPath(c) ==
  \/ c.path.entryCountKnown
  \/ c.path.interop # None /\ c.path.interop.binfmt # None
  \/ c.path.appendWindowsPath # None
  \/ c.path.windowsBinaryCount \notin {None, 0}
  \/ c.path.wslenv # None
  \/ c.path.environmentVariableCount # None
PrintsNetwork(c) ==
  \/ {c.network.modeDeclared, c.network.modeEffective, c.network.ip} # {None}
  \/ c.network.dns # None \/ c.network.portProxy # None
  \/ /\ c.network.firewall # None
     /\ c.network.firewall # [enabled |-> None, defaultInbound |-> None]
PrintsDocker(c) == c.docker.status # "unknown"
PrintsServices(c) == c.services.systemd # None \/ c.services.total # None
PrintsPorts(c) == c.ports.listeningCount \notin {None, 0} \/ c.ports.windowsOnlyCount # None
PrintsStorage(c) ==
  \/ c.storage.filesystems.items # <<>>
  \/ c.storage.image # None /\ c.storage.image.image # None
  \/ c.storage.windowsDrives # None /\ c.storage.windowsDrives.items # <<>>
  \/ c.storage.memoryTotal # None
  \/ c.storage.knownCachesBytes # None
PrintsConfigs(c) ==
  \/ c.configs.wslconfigExists # None
  \/ c.configs.settings.items # <<>> \/ c.configs.files.items # <<>>
  \/ c.configs.hasProfile # None

Printed(c) ==
  {h \in {"workspace", "paths", "runtimes", "packageManagers", "tools", "path", "network",
          "docker", "services", "ports", "storage", "configs"} :
     CASE h = "workspace" -> PrintsWorkspace(c)
       [] h = "paths" -> PrintsPaths(c)
       [] h \in DOMAIN c.groups -> PrintsToolGroup(c, h)
       [] h = "path" -> PrintsPath(c)
       [] h = "network" -> PrintsNetwork(c)
       [] h = "docker" -> PrintsDocker(c)
       [] h = "services" -> PrintsServices(c)
       [] h = "ports" -> PrintsPorts(c)
       [] h = "storage" -> PrintsStorage(c)
       [] h = "configs" -> PrintsConfigs(c)}

\* The lines that name what a reader may not take for absent.
DevEnvContextToMarkdown(c) ==
  [headings |-> Printed(c) \union {"header", "doctor", "provenance"},
   env |-> {v \in {c.path.entries, c.path.wslenv} : v # None},
   doctor |-> {k \in DOMAIN c.doctor.verdicts : c.doctor.verdicts[k] # "ok"},
   notCollected |-> c.provenance.notCollected, staleQueries |-> c.provenance.staleQueries,
   truncated |-> c.provenance.truncated]

-----------------------------------------------------------------------------
(* snapshotToMarkdown *)

\* A list that is empty is printed as "None", read or not.
SaysNone(dash) ==
  {k \in {"environment", "paths"} : dash[k] = <<>>}
  \union {k \in {"tools"} : Where(dash.tools, Installed) = <<>>}
  \union {k \in {"ports"} : Where(dash.ports, Listening) = <<>>}

\* defaultMarkdown: environment variables are names alone.
DefaultMarkdown(s) ==
  [headings |-> {"distro", "warnings", "explorer"} \union
     (IF s.dash = None THEN {}
      ELSE {"system", "resources", "tools", "hermes", "services", "ports", "windowsPorts",
            "environment", "paths"}),
   env |-> {}, failed |-> IF s.dash = None THEN None ELSE Len(Where(s.dash.services, Failed)),
   saysNone |-> IF s.dash = None THEN {} ELSE SaysNone(s.dash),
   warnings |-> Len(s.warnings)]

\* The facts a maintainer asks for, those that are known.
ReproFacts(dash) ==
  LET wsl == dash.wslSettings
      fw == dash.firewall IN
  {k \in {"systemd", "clock", "dns", "firewall", "networking", "interop", "starts-as"} :
     CASE k = "systemd" -> dash.system.systemdEnabled # None
       [] k = "clock" -> dash.clock # None /\ dash.clock.skewSeconds # None
       [] k = "dns" -> dash.dns # None
       [] k = "firewall" -> fw # None /\ (fw.enabled # None \/ fw.defaultInbound # None)
       [] k = "networking" -> /\ wsl # None
                              /\ {wsl.networkingModeDeclared, wsl.networkingModeEffective}
                                   # {None}
       [] k = "interop" -> wsl # None /\ wsl.interop # None /\ wsl.interop.binfmt # None
       [] k = "starts-as" -> /\ wsl # None /\ wsl.defaultUser # None
                             /\ \/ wsl.defaultUser.effectiveName # None
                                \/ wsl.defaultUser.effectiveUid # None}

\* What the form asks about the configuration files, null when they were not read.
BugDiagnostics(s) ==
  LET wsl == OrNull(s.dash, "wslSettings") IN
  [warnings |-> Len(s.warnings),
   config |-> IF wsl = None THEN None ELSE <<wsl.wslconfigExists, wsl.wslConfExists>>]

\* The fields of the WSL bug form; what was not read is left to the reporter.
BugReportMarkdown(s) ==
  [headings |-> {"windows-version", "wsl-version", "wsl-1-or-2", "kernel", "distro", "tools",
                 "repro", "expected", "actual", "logs"},
   kernel |-> IF s.dash = None THEN None ELSE s.dash.system.kernel,
   facts |-> IF s.dash = None THEN {} ELSE ReproFacts(s.dash),
   logs |-> BugDiagnostics(s), env |-> {}]

\* The agent block without a dashboard is one sentence.
AgentContextMarkdown(s) ==
  IF s.dash = None THEN [headings |-> {"nothing-collected"}, env |-> {}]
  ELSE DevEnvContextToMarkdown(BuildContext(s))

SnapshotToMarkdown(s, preset) ==
  CASE preset = "bug-report" -> BugReportMarkdown(s)
    [] preset = "agent-context" -> AgentContextMarkdown(s)
    [] preset = "default" -> DefaultMarkdown(s)

-----------------------------------------------------------------------------
(* portOwnership *)

First(seq, Test(_)) == LET hits == Where(seq, Test) IN IF hits = <<>> THEN None ELSE hits[1]

\* A listening entry is preferred to a socket in another state.
PortOwnership(dash, port) ==
  LET mine == Where(dash.ports, LAMBDA p : p.port = port)
      listening == First(mine, Listening)
      linux == IF listening # None \/ mine = <<>> THEN listening ELSE mine[1]
      pid == IF linux = None THEN None ELSE linux.pid IN
  [linux |-> linux,
   windows |-> First(dash.windowsPorts, LAMBDA w : w.port = port),
   process |-> IF pid = None THEN None ELSE First(dash.processes, LAMBDA p : p.pid = pid),
   forwarding |-> IF dash.portProxy = None THEN {}
                  ELSE {r \in Range(dash.portProxy.rules) : port \in {r.listenPort, r.connectPort}},
   reachableFromWindows |-> IF linux = None THEN None ELSE linux.windowsBound]

DescribeOwnership(own) ==
  IF own.linux = None
  THEN IF own.windows = None THEN "nothing-listening" ELSE "held-on-windows"
  ELSE IF own.reachableFromWindows = None THEN "held-reach-unknown"
  ELSE IF own.reachableFromWindows THEN "held-reachable" ELSE "held-unreachable"
=============================================================================
