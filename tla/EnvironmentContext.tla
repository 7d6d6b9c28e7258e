------------------------- MODULE EnvironmentContext -------------------------
(***************************************************************************)
(* The developer environment context, src/shared/dev-env-context.ts: the   *)
(* one description of a distro that the MCP server and the agent-context   *)
(* export both give out, built from a published snapshot s alone.          *)
(*                                                                         *)
(* s is a record: selected, distros (name -> state, null when not          *)
(* installed), answering (the liveness of the selected distro), dash (its  *)
(* sections or null), cwd and explorerPath (console and explorer),         *)
(* mcp ([running, error]) and warnings (a sequence of [id, of]).           *)
(***************************************************************************)
EXTENDS EnvironmentFacts

CONSTANT Limits   \* DEV_ENV_CONTEXT_LIMITS, by list

ClockSkewWarnSeconds == 10
DiskProblemPercent == 90
DiskAttentionPercent == 80
ImageReclaimableNoticeGiB == 10

\* Older snapshots carry no status; in this one the status decides.
CollectionSucceeded(dash, status) == dash # None /\ dash[status] = "succeeded"
ToolsKnown(dash) == CollectionSucceeded(dash, "toolsCollectionStatus")
PortsKnown(dash) == CollectionSucceeded(dash, "portsCollectionStatus")

\* Bounder.cap: a list cut to its cap, with the number it left out.
Cap(label, items) ==
  [label |-> label,
   items |-> SubSeq(items, 1, Min({Len(items), Limits[label]})),
   omitted |-> Max({0, Len(items) - Limits[label]})]

GroupOf(id) ==
  CASE id = "node" -> "runtimes" [] id = "npm" -> "packageManagers" [] OTHER -> "tools"

StateOf(s) == IF s.selected = None THEN None ELSE s.distros[s.selected]
OrNull(dash, field) == IF dash = None THEN None ELSE dash[field]
OrEmpty(dash, field) == IF dash = None THEN <<>> ELSE dash[field]

-----------------------------------------------------------------------------
(* The parts of the context *)

BuildDistro(s) ==
  LET installed == {d \in Distros : s.distros[d] # None} IN
  [name |-> s.selected, state |-> StateOf(s), answering |-> s.answering,
   user |-> IF s.dash = None THEN None ELSE s.dash.system.user,
   kernel |-> IF s.dash = None THEN None ELSE s.dash.system.kernel,
   systemd |-> IF s.dash = None THEN None ELSE s.dash.system.systemdEnabled,
   ip |-> IF s.dash = None THEN None ELSE s.dash.system.ip,
   installedDistroCount |-> Cardinality(installed),
   otherDistros |-> Cap("otherDistros", SetToSeq(installed \ {s.selected}))]

\* Paths known to be missing are left out; the rest are listed.
BuildWorkspace(s) ==
  LET root == AutomountRoot(s.dash)
      side == ClassifyPathSide(s.cwd, root)
      NotMissing(p) == p.exists # FALSE IN
  [cwd |-> s.cwd, cwdSide |-> side,
   cwdCrossesBoundary |-> IF s.cwd = None THEN None ELSE IsCrossBoundary(side),
   explorerPath |-> s.explorerPath,
   explorerSide |-> ClassifyPathSide(s.explorerPath, root),
   paths |-> Cap("importantPaths", Where(OrEmpty(s.dash, "paths"), NotMissing))]

\* Mutant: tools never looked for are counted as none.
BuildToolGroupCounted(dash, key) ==
  LET Mine(t) == t.installed /\ GroupOf(t.id) = key
      mine == IF ToolsKnown(dash) THEN Where(dash.tools, Mine) ELSE <<>> IN
  [cut |-> Cap(key, mine), installedCount |-> Len(mine)]

BuildToolGroup(dash, key) ==
  LET Mine(t) == t.installed /\ GroupOf(t.id) = key
      mine == IF ToolsKnown(dash) THEN Where(dash.tools, Mine) ELSE <<>> IN
  [cut |-> Cap(key, mine),
   installedCount |-> IF ToolsKnown(dash) THEN Len(mine) ELSE None]

\* plainEnvValue: a variable's value, null when it was not read or is masked.
PlainEnvValue(dash, name) ==
  LET found == {v \in Range(OrEmpty(dash, "environment")) : v.name = name} IN
  IF found = {} THEN None
  ELSE LET v == CHOOSE v \in found : TRUE IN
       IF IsSecret(v) \/ v.value = "masked" THEN None ELSE v.value

BuildPath(dash) ==
  LET path == PlainEnvValue(dash, "PATH")
      env == OrEmpty(dash, "environment")
      shadowed == Where(OrEmpty(dash, "tools"), Shadowed)
      CountOf(n) == IF env = <<>> THEN None ELSE n IN
  [entries |-> path, entryCountKnown |-> path # None,
   appendWindowsPath |-> IF OrNull(dash, "wslSettings") = None THEN None
                         ELSE dash.wslSettings.appendWindowsPath,
   interop |-> IF OrNull(dash, "wslSettings") = None THEN None ELSE dash.wslSettings.interop,
   windowsBinaries |-> Cap("windowsBinaries", shadowed),
   windowsBinaryCount |-> IF ToolsKnown(dash) THEN Len(shadowed) ELSE None,
   wslenv |-> PlainEnvValue(dash, "WSLENV"),
   environmentVariableCount |-> CountOf(Len(env)),
   secretVariableCount |-> CountOf(Len(Where(env, IsSecret)))]

\* What the context says of the name servers and of the forwarding rules, when known.
DnsPart ==
  [nameservers : [label : {"nameservers"}, items : Seq({"ns1", "ns2"}), omitted : Nat],
   nameserverCount : Nat, handManaged : Tri, error : Text]
PortProxyPart == [ruleCount : Nat, live : Nat, stale : Nat, elsewhere : Nat, unknown : Nat]

BuildNetwork(dash) ==
  LET wsl == OrNull(dash, "wslSettings")
      dns == OrNull(dash, "dns")
      fw == OrNull(dash, "firewall")
      proxy == OrNull(dash, "portProxy")
      CountOf(verdict) == LET Is(r) == r.verdict = verdict IN Len(Where(proxy.rules, Is)) IN
  [modeDeclared |-> IF wsl = None THEN None ELSE wsl.networkingModeDeclared,
   modeEffective |-> IF wsl = None THEN None ELSE wsl.networkingModeEffective,
   ip |-> IF dash = None THEN None ELSE dash.system.ip,
   dns |-> IF dns = None THEN None
           ELSE [nameservers |-> Cap("nameservers", dns.nameservers),
                 nameserverCount |-> Len(dns.nameservers),
                 handManaged |-> IF dns.generateResolvConf = None THEN None
                                 ELSE ~dns.generateResolvConf,
                 error |-> dns.error],
   firewall |-> IF fw = None THEN None
                ELSE [enabled |-> fw.enabled, defaultInbound |-> fw.defaultInbound],
   portProxy |-> IF proxy = None THEN None
                 ELSE [ruleCount |-> Len(proxy.rules), live |-> CountOf("live"),
                       stale |-> CountOf("stale"), elsewhere |-> CountOf("elsewhere"),
                       unknown |-> CountOf("unknown")]]

DockerStatus(dash) ==
  LET d == OrNull(dash, "docker") IN
  IF d = None THEN "unknown"
  ELSE IF ~d.cliInstalled THEN "not-installed"
  ELSE IF d.error # None THEN "error"
  ELSE IF d.daemonRunning THEN "running"
  ELSE IF d.notProbed # None THEN "not-probed"
  ELSE "installed-not-running"

\* sumOrNull
SumOrNull(values) ==
  LET known == Where(values, LAMBDA v : v # None) IN
  IF known = <<>> THEN None ELSE FoldSeq(+, 0, known)

\* Image and container counts are null unless the daemon answered.
BuildDocker(dash) ==
  LET d == OrNull(dash, "docker")
      Running(c) == c = "running"
      Probed(v) == IF d.daemonRunning THEN v ELSE None IN
  IF d = None
  THEN [status |-> "unknown", containerCount |-> None, runningContainerCount |-> None,
        running |-> Cap("containers", <<>>), reclaimableBytes |-> None, error |-> None]
  ELSE [status |-> DockerStatus(dash),
        containerCount |-> Probed(Len(d.containers)),
        runningContainerCount |-> Probed(Len(Where(d.containers, Running))),
        running |-> Cap("containers", Where(d.containers, Running)),
        reclaimableBytes |-> Probed(SumOrNull(d.reclaimable)), error |-> d.error]

\* Units worth naming: failed ones, ones an installed tool owns, the user's own.
BuildServices(dash) ==
  LET list == OrEmpty(dash, "services")
      systemd == IF dash = None THEN None ELSE dash.system.systemdEnabled
      collected == dash # None /\ dash.servicesCollected /\ systemd # FALSE
      owned == UNION {t.services : t \in {t \in Range(OrEmpty(dash, "tools")) : t.installed}}
      Owned(svc) == svc.name \in owned
      UsersOwn(svc) == svc.scope = "user" /\ Active(svc)
      notable == Where(list, Failed) \o Where(list, Owned) \o Where(list, UsersOwn)
      Known(n) == IF collected THEN n ELSE None IN
  [systemd |-> systemd, total |-> Known(Len(list)),
   active |-> Known(Len(Where(list, Active))), failed |-> Known(Len(Where(list, Failed))),
   failedUnits |-> Cap("failedUnits", Where(list, Failed)),
   notable |-> Cap("notableServices", SetToSeq({<<v.scope, v.name>> : v \in Range(notable)}))]

\* The Windows table is known when it has rows, or a listener carries a verdict of it.
BuildPorts(dash) ==
  LET listening == Where(OrEmpty(dash, "ports"), Listening)
      windows == OrEmpty(dash, "windowsPorts")
      WindowsOnly(p) == ~p.fromWsl /\ p.listening
      own == Where(windows, WindowsOnly)
      windowsKnown == windows # <<>> \/ \E p \in Range(listening) : p.windowsBound # None IN
  [listeningCount |-> IF PortsKnown(dash) THEN Len(listening) ELSE None,
   items |-> Cap("ports", listening),
   windowsOnlyCount |-> IF windowsKnown THEN Len(own) ELSE None,
   windowsOnly |-> Cap("windowsPorts", own)]

BuildStorage(dash) ==
  LET mounts == OrNull(dash, "driveMounts")
      consumers == OrNull(dash, "diskConsumers")
      zone == OrNull(dash, "zoneIdentifier")
      defender == OrNull(dash, "defender")
      Bare(d) == ~d.metadata
      Measured(bytes) == bytes # None /\ bytes > 0 IN
  [filesystems |-> Cap("filesystems", IF dash = None THEN <<>> ELSE dash.resources.disks),
   memoryTotal |-> IF dash = None THEN None ELSE dash.resources.memTotalBytes,
   image |-> OrNull(dash, "disk"),
   windowsDrives |-> IF mounts = None THEN None ELSE Cap("drives", mounts.drives),
   drivesWithoutMetadata |-> IF mounts = None THEN 0 ELSE Len(Where(mounts.drives, Bare)),
   knownCachesBytes |-> IF consumers = None THEN None ELSE consumers.measuredBytes,
   topCaches |-> Cap("caches", IF consumers = None THEN <<>>
                               ELSE Where(consumers.consumers, Measured)),
   zoneIdentifierCount |-> IF zone = None THEN None ELSE zone.count,
   imageCoverage |-> IF defender = None THEN None
                     ELSE DefenderCoverage(defender, OrNull(dash, "disk")),
   inotifyLow |-> IF OrNull(dash, "inotify") = None THEN None ELSE WatchesAreLow(dash.inotify)]

\* A profile is only said to be missing when Terminal's settings could be read.
BuildConfigs(s) ==
  LET dash == s.dash
      wsl == OrNull(dash, "wslSettings")
      profiles == OrNull(dash, "terminalProfiles")
      Declared(v) == v # "not-set"
      Exists(f) == f.exists = TRUE IN
  [wslconfigExists |-> IF wsl = None THEN None ELSE wsl.wslconfigExists,
   wslConfExists |-> IF wsl = None THEN None ELSE wsl.wslConfExists,
   restartPending |-> IF wsl = None THEN None ELSE wsl.restartPending,
   settings |-> Cap("settings", IF wsl = None THEN <<>> ELSE Where(wsl.verdicts, Declared)),
   files |-> Cap("configFiles", Where(OrEmpty(dash, "configuration"), Exists)),
   hasProfile |-> IF profiles = None THEN None
                  ELSE IF profiles.installed = FALSE \/ profiles.error # None THEN None
                  ELSE s.selected \in profiles.profiles]

-----------------------------------------------------------------------------
(* The environment doctor: one verdict per check, null when the check is    *)
(* not made at all                                                          *)

DevEnvVerdict == {"ok", "attention", "problem", "unknown"}
OkUnless(bad, verdict) == IF bad THEN verdict ELSE "ok"

DistroStateCheck(s) ==
  IF s.selected = None THEN "unknown"
  ELSE IF StateOf(s) = "Stopped" THEN "problem"
  ELSE IF s.answering = FALSE THEN "problem"
  ELSE IF StateOf(s) = "Running" /\ s.answering = TRUE THEN "ok"
  ELSE "unknown"

Abs(n) == IF n < 0 THEN -n ELSE n

ClockCheck(dash) ==
  IF dash.clock = None THEN "unknown"
  ELSE IF dash.clock.skewSeconds = None THEN "unknown"
  ELSE OkUnless(Abs(dash.clock.skewSeconds) >= ClockSkewWarnSeconds, "problem")

DnsCheck(dash) ==
  IF dash.dns = None THEN "unknown"
  ELSE IF dash.dns.error # None THEN "unknown"
  ELSE IF dash.dns.nameservers = <<>> THEN "problem"
  ELSE OkUnless(dash.dns.generateResolvConf = FALSE, "attention")

NetworkingModeCheck(wsl) ==
  IF wsl.networkingModeEffective = None THEN "unknown"
  ELSE OkUnless(wsl.networkingModeDeclared \notin {None, wsl.networkingModeEffective},
                "attention")

Ignored == {"unknown-key", "wrong-section", "unsupported"}

InteropCheck(wsl) ==
  IF wsl.interop = None THEN "unknown"
  ELSE IF wsl.interop.binfmt = None THEN "unknown"
  ELSE OkUnless(\/ wsl.interop.declared \notin {None, wsl.interop.binfmt = "enabled"}
                \/ wsl.interop.binfmt = "disabled", "attention")

LoginUserCheck(wsl) ==
  LET who == wsl.defaultUser IN
  IF who = None THEN "unknown"
  ELSE IF who.effectiveUid = None /\ who.effectiveName = None THEN "unknown"
  ELSE OkUnless(\/ who.effectiveUid = 0
                \/ /\ None \notin {who.declaredName, who.effectiveName}
                   /\ who.declaredName # who.effectiveName, "attention")

\* The settings' five checks are replaced by one when the files were not read.
WslCheckIds(wsl) ==
  IF wsl = None THEN {"wsl-settings"}
  ELSE {"wsl-settings-pending", "networking-mode", "wsl-settings-ignored", "interop",
        "login-user"}

WslCheck(wsl, c) ==
  CASE c = "wsl-settings" -> "unknown"
    [] c = "wsl-settings-pending" -> OkUnless(wsl.restartPending, "attention")
    [] c = "networking-mode" -> NetworkingModeCheck(wsl)
    [] c = "wsl-settings-ignored" ->
         OkUnless(\E v \in Range(wsl.verdicts) : v \in Ignored, "attention")
    [] c = "interop" -> InteropCheck(wsl)
    [] c = "login-user" -> LoginUserCheck(wsl)

\* Mutant: no mount table reads as no drive.
DrivesCheckUnread(dash) ==
  OkUnless(dash.driveMounts # None
           /\ \E d \in Range(dash.driveMounts.drives) : ~d.metadata, "attention")

DrivesCheck(dash) ==
  IF dash.driveMounts = None THEN "unknown"
  ELSE OkUnless(\E d \in Range(dash.driveMounts.drives) : ~d.metadata, "attention")

DefenderCheck(dash) ==
  IF dash.defender = None THEN "unknown"
  ELSE IF dash.defender.realtimeEnabled = FALSE THEN "ok"
  ELSE [covered |-> "ok", notcovered |-> "attention", unknown |-> "unknown"][
         CASE DefenderCoverage(dash.defender, dash.disk) = "not-covered" -> "notcovered"
           [] OTHER -> DefenderCoverage(dash.defender, dash.disk)]

InotifyCheck(dash) ==
  IF dash.inotify = None THEN "unknown"
  ELSE OkUnless(WatchesAreLow(dash.inotify), "attention")

HeadroomCheck(dash) ==
  LET root == {d \in Range(dash.resources.disks) : d.mountPoint = "/" /\ d.exists} IN
  IF \A d \in root : d.usePercent = None THEN "unknown"
  ELSE LET used == (CHOOSE d \in root : TRUE).usePercent IN
       IF used >= DiskProblemPercent THEN "problem"
       ELSE OkUnless(used >= DiskAttentionPercent, "attention")

DiskImageCheck(dash) ==
  IF dash.disk = None THEN "unknown"
  ELSE IF dash.disk.reclaimableGiB = None THEN "unknown"
  ELSE OkUnless(dash.disk.reclaimableGiB >= ImageReclaimableNoticeGiB, "attention")

DockerCheck(dash) ==
  LET status == DockerStatus(dash) IN
  CASE status = "unknown" -> "unknown"
    [] status \in {"not-installed", "running"} -> "ok"
    [] status = "error" -> "problem"
    [] OTHER -> "attention"

\* The last query is judged by the warning it leaves, and warnings are capped.
ServicesCheck(s) ==
  IF s.dash.system.systemdEnabled = FALSE THEN "attention"
  ELSE IF s.dash.system.systemdEnabled = None THEN "unknown"
  ELSE IF \/ ~s.dash.servicesCollected
          \/ \E w \in Range(s.warnings) : w.id = "runner-failed" /\ w.of = "services"
       THEN "unknown"
  ELSE OkUnless(\E svc \in Range(s.dash.services) : Failed(svc), "problem")

ForwardingCheck(dash) ==
  IF dash.portProxy = None THEN "unknown"
  ELSE IF dash.portProxy.error # None THEN "unknown"
  ELSE OkUnless(\E r \in Range(dash.portProxy.rules) : r.verdict = "stale", "attention")

BinariesCheck(dash) ==
  IF ~ToolsKnown(dash) THEN "unknown"
  ELSE OkUnless(\E t \in Range(dash.tools) : Shadowed(t), "attention")

CwdCheck(s) ==
  IF s.cwd = None THEN "unknown"
  ELSE OkUnless(IsCrossBoundary(ClassifyPathSide(s.cwd, AutomountRoot(s.dash))), "attention")

ZoneCheck(dash) ==
  IF dash.zoneIdentifier = None THEN "unknown"
  ELSE IF dash.zoneIdentifier.count = None THEN "unknown"
  ELSE OkUnless(dash.zoneIdentifier.count > 0, "attention")

StaleQueries(s) == {w.of : w \in {w \in Range(s.warnings) : w.id = "runner-failed"}}

McpCheck(s) ==
  IF s.mcp.error # None THEN "problem" ELSE IF s.mcp.running THEN "ok" ELSE "unknown"

\* buildChecks: without a dashboard only the distro itself is judged.
CheckIds(dash) ==
  IF dash = None THEN {"distro-state"}
  ELSE {"distro-state"} \union WslCheckIds(dash.wslSettings) \union
       {"clock-skew", "dns", "drive-metadata", "defender", "inotify", "disk-headroom",
        "disk-image", "docker", "services", "port-forwarding", "windows-binaries",
        "cwd-boundary", "zone-identifiers", "collectors", "mcp-server"}

Checks(s) ==
  [c \in CheckIds(s.dash) |->
     CASE c = "distro-state" -> DistroStateCheck(s)
       [] c = "clock-skew" -> ClockCheck(s.dash)
       [] c = "dns" -> DnsCheck(s.dash)
       [] c = "drive-metadata" -> DrivesCheck(s.dash)
       [] c = "defender" -> DefenderCheck(s.dash)
       [] c = "inotify" -> InotifyCheck(s.dash)
       [] c = "disk-headroom" -> HeadroomCheck(s.dash)
       [] c = "disk-image" -> DiskImageCheck(s.dash)
       [] c = "docker" -> DockerCheck(s.dash)
       [] c = "services" -> ServicesCheck(s)
       [] c = "port-forwarding" -> ForwardingCheck(s.dash)
       [] c = "windows-binaries" -> BinariesCheck(s.dash)
       [] c = "cwd-boundary" -> CwdCheck(s)
       [] c = "zone-identifiers" -> ZoneCheck(s.dash)
       [] c = "collectors" -> OkUnless(StaleQueries(s) # {}, "attention")
       [] c = "mcp-server" -> McpCheck(s)
       [] OTHER -> WslCheck(s.dash.wslSettings, c)]

\* The order the checks are made in.
CheckOrder ==
  <<"distro-state", "clock-skew", "dns", "wsl-settings", "wsl-settings-pending",
    "networking-mode", "wsl-settings-ignored", "interop", "login-user", "drive-metadata",
    "defender", "inotify", "disk-headroom", "disk-image", "docker", "services",
    "port-forwarding", "windows-binaries", "cwd-boundary", "zone-identifiers", "collectors",
    "mcp-server">>

\* Worst first (VERDICT_RANK), then cut; overall ranks an ok above an unknown.
BuildDoctor(s) ==
  LET checks == Checks(s)
      Made(v) == SelectSeq(CheckOrder, LAMBDA c : c \in DOMAIN checks /\ checks[c] = v)
      problem == Made("problem")
      attention == Made("attention")
      unknown == Made("unknown")
      ok == Made("ok") IN
  [checks |-> Cap("checks", problem \o attention \o unknown \o ok), verdicts |-> checks,
   counts |-> [problem |-> Len(problem), attention |-> Len(attention),
               unknown |-> Len(unknown), ok |-> Len(ok)],
   overall |-> IF problem # <<>> THEN "problem"
               ELSE IF attention # <<>> THEN "attention"
               ELSE IF ok # <<>> THEN "ok" ELSE "unknown",
   warnings |-> Cap("warnings", s.warnings)]

\* notCollectedSections: the sections no collector has filled.
NotCollected(dash) ==
  IF dash = None THEN SectionIds
  ELSE {k \in SectionIds :
         CASE k = "system" -> dash.system.user = None /\ dash.system.kernel = None
           [] k = "resources" ->
                dash.resources.cpuCount = None /\ dash.resources.memTotalBytes = None
           [] k \in {"paths", "configuration", "environment", "processes"} -> dash[k] = <<>>
           [] k = "tools" -> ~ToolsKnown(dash)
           [] k = "ports" -> ~PortsKnown(dash)
           [] k = "services" ->
                ~dash.servicesCollected \/ dash.system.systemdEnabled = FALSE
           [] OTHER -> dash[k] = None}

\* The label of a list the builder has cut.
CutLabel(cut) == IF cut = None THEN {} ELSE IF cut.omitted > 0 THEN {cut.label} ELSE {}

\* buildDevEnvContext
BuildContext(s) ==
  LET distro == BuildDistro(s)
      workspace == BuildWorkspace(s)
      groups == [g \in {"runtimes", "packageManagers", "tools"} |-> BuildToolGroup(s.dash, g)]
      path == BuildPath(s.dash)
      network == BuildNetwork(s.dash)
      docker == BuildDocker(s.dash)
      services == BuildServices(s.dash)
      ports == BuildPorts(s.dash)
      storage == BuildStorage(s.dash)
      configs == BuildConfigs(s)
      doctor == BuildDoctor(s) IN
  [distro |-> distro, workspace |-> workspace, groups |-> groups, path |-> path,
   network |-> network, docker |-> docker, services |-> services, ports |-> ports,
   storage |-> storage, configs |-> configs, doctor |-> doctor,
   provenance |->
     [notCollected |-> NotCollected(s.dash), staleQueries |-> StaleQueries(s),
      distroAnswering |-> s.answering,
      truncated |->
        CutLabel(distro.otherDistros) \union CutLabel(workspace.paths)
        \union UNION {CutLabel(groups[g].cut) : g \in DOMAIN groups}
        \union CutLabel(path.windowsBinaries)
        \union CutLabel(IF network.dns = None THEN None ELSE network.dns.nameservers)
        \union CutLabel(docker.running)
        \union CutLabel(services.failedUnits) \union CutLabel(services.notable)
        \union CutLabel(ports.items) \union CutLabel(ports.windowsOnly)
        \union CutLabel(storage.filesystems) \union CutLabel(storage.windowsDrives)
        \union CutLabel(storage.topCaches)
        \union CutLabel(configs.settings) \union CutLabel(configs.files)
        \union CutLabel(doctor.checks) \union CutLabel(doctor.warnings)]]
=============================================================================
