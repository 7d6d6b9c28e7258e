-------------------------- MODULE EnvironmentFacts --------------------------
(***************************************************************************)
(* The domain model of src/shared/types.ts as far as the reports read it:  *)
(* one record type per dashboard section, the snapshot that carries them,  *)
(* and the small pure helpers every consumer shares (path-boundary.ts,     *)
(* masking.ts, inotify.ts, defender-coverage.ts).  A text is present or    *)
(* null; numbers keep the few values the code's thresholds tell apart.     *)
(***************************************************************************)
EXTENDS Integers, SequencesExt, FiniteSetsExt

CONSTANTS
  None,     \* null
  Distros   \* installed distributions

Maybe(S) == S \union {None}
Tri == Maybe(BOOLEAN)
Text == Maybe({"text"})
Count == Maybe(Nat)

PathSide == {"ext4", "windows-mount", "unc", "unknown"}
DistroState == {"Running", "Stopped", "Installing", "Unknown"}

SystemInfo == [user : Text, home : Text, kernel : Text, ip : Text, systemdEnabled : Tri]
DiskUsage == [mountPoint : {"/", "/mnt/c"}, exists : BOOLEAN, usePercent : Count]
ResourceInfo == [cpuCount : Count, memTotalBytes : Count, disks : Seq(DiskUsage)]
DiskImageInfo == [image : Text, reclaimableGiB : Count, error : Text]

SettingVerdict == {"applied", "pending-restart", "not-set", "unknown-key", "wrong-section",
                   "unsupported", "unknown"}
InteropInfo == [binfmt : Maybe({"enabled", "disabled"}), declared : Tri]
DefaultUserInfo == [effectiveUid : Count, effectiveName : Maybe({"root", "me"}),
                    declaredName : Maybe({"root", "me"})]
\* root and appendWindowsPath: the values in force of the two settings the reports look up.
WslConfigInfo ==
  [verdicts : Seq(SettingVerdict), networkingModeDeclared : Text, networkingModeEffective :
     Maybe({"text", "other"}), restartPending : BOOLEAN, root : {"/mnt/", "/"},
   appendWindowsPath : Tri,
   interop : Maybe(InteropInfo), defaultUser : Maybe(DefaultUserInfo),
   wslconfigExists : BOOLEAN, wslConfExists : BOOLEAN]

ImportantPathInfo == [side : PathSide, exists : Tri, mapped : BOOLEAN]
ConfigurationFileInfo == [id : {"gitconfig", "ssh-config"}, exists : Tri]
ToolInfo ==
  [id : {"git", "node", "npm"}, installed : BOOLEAN, shadowedByWindows : BOOLEAN,
   side : PathSide, services : SUBSET {"docker"}]
HermesInfo == [executablePath : Text, dataDir : Text]
DockerInfo ==
  [cliInstalled : BOOLEAN, daemonRunning : BOOLEAN, containers : Seq({"running", "exited"}),
   notProbed : Maybe({"daemon-not-running", "remote-endpoint"}), error : Text,
   reclaimable : Seq(Count)]
ZoneIdentifierInfo == [count : Count]
DiskConsumersInfo == [measuredBytes : Nat, partial : BOOLEAN, consumers : Seq(Count)]
DriveMountsInfo == [drives : Seq([metadata : BOOLEAN])]
DefenderInfo == [realtimeEnabled : Tri, exclusionPaths : Maybe(SUBSET {"image", "other"})]
InotifyInfo == [maxUserWatches : Count]
TerminalProfilesInfo == [installed : Tri, profiles : SUBSET Distros, error : Text]
\* secretName: the name matches a secret pattern; isSecret: the collector said so;
\* value: what maskedValue holds.
EnvironmentVariableInfo ==
  [name : {"PATH", "WSLENV", "PWD", "API_KEY"}, secretName : BOOLEAN, isSecret : BOOLEAN,
   value : {"masked", "secret", "linux", "windows", "duplicates", "neither"}]
ProcessInfo == [pid : Nat, vscode : BOOLEAN, cpuPercent : Nat, elapsedDays : Nat]
ServiceInfo ==
  [name : {"docker", "cron"}, scope : {"system", "user"},
   activeState : {"active", "inactive", "failed"}]
PortReachability == {"windows-only", "lan", "loopback-only", "unreachable", "unknown"}
PortInfo == [port : Nat, pid : Count, listening : BOOLEAN, windowsBound : Tri,
             reachability : PortReachability]
WindowsPortInfo == [port : Nat, listening : BOOLEAN, fromWsl : BOOLEAN]
FirewallInfo == [enabled : Tri, defaultInbound : Text, error : Text]
PortProxyRule == [verdict : {"live", "stale", "elsewhere", "unknown"},
                  listenPort : Nat, connectPort : Nat]
PortProxyInfo == [rules : Seq(PortProxyRule), error : Text]
ClockInfo == [skewSeconds : Maybe(Int)]
DnsInfo ==
  [nameservers : Seq({"ns1", "ns2"}), windowsAdapterDns : Seq({"ns1", "ns2"}),
   generateResolvConf : Tri, isGeneratedSymlink : Tri, dnsTunneling : Tri, error : Text]

CollectionStatus == {"pending", "succeeded", "failed"}

\* The sections of one distro's dashboard; what starts empty is a list, the rest null.
DashboardSnapshot ==
  [system : SystemInfo, resources : ResourceInfo, disk : Maybe(DiskImageInfo),
   wslSettings : Maybe(WslConfigInfo), memoryDetail : Maybe({"read"}),
   paths : Seq(ImportantPathInfo), configuration : Seq(ConfigurationFileInfo),
   tools : Seq(ToolInfo), toolsCollectionStatus : CollectionStatus,
   hermes : Maybe(HermesInfo), docker : Maybe(DockerInfo),
   zoneIdentifier : Maybe(ZoneIdentifierInfo), diskConsumers : Maybe(DiskConsumersInfo),
   driveMounts : Maybe(DriveMountsInfo), defender : Maybe(DefenderInfo),
   inotify : Maybe(InotifyInfo), terminalProfiles : Maybe(TerminalProfilesInfo),
   environment : Seq(EnvironmentVariableInfo), processes : Seq(ProcessInfo),
   services : Seq(ServiceInfo), servicesCollected : BOOLEAN,
   ports : Seq(PortInfo), portsCollectionStatus : CollectionStatus,
   windowsPorts : Seq(WindowsPortInfo), firewall : Maybe(FirewallInfo),
   portProxy : Maybe(PortProxyInfo), clock : Maybe(ClockInfo), dns : Maybe(DnsInfo)]

\* The sections the reports name, DevEnvSectionId.
SectionIds ==
  {"system", "resources", "disk", "wslSettings", "memoryDetail", "paths", "configuration",
   "tools", "hermes", "docker", "zoneIdentifier", "diskConsumers", "driveMounts", "defender",
   "inotify", "terminalProfiles", "environment", "processes", "services", "ports", "firewall",
   "portProxy", "clock", "dns"}

\* sectionsFor: what a newly selected distro starts with.
EmptySections ==
  [system |-> [user |-> None, home |-> None, kernel |-> None, ip |-> None,
               systemdEnabled |-> None],
   resources |-> [cpuCount |-> None, memTotalBytes |-> None, disks |-> <<>>],
   disk |-> None, wslSettings |-> None, memoryDetail |-> None,
   paths |-> <<>>, configuration |-> <<>>,
   tools |-> <<>>, toolsCollectionStatus |-> "pending",
   hermes |-> None, docker |-> None, zoneIdentifier |-> None, diskConsumers |-> None,
   driveMounts |-> None, defender |-> None, inotify |-> None, terminalProfiles |-> None,
   environment |-> <<>>, processes |-> <<>>,
   services |-> <<>>, servicesCollected |-> FALSE,
   ports |-> <<>>, portsCollectionStatus |-> "pending", windowsPorts |-> <<>>,
   firewall |-> None, portProxy |-> None, clock |-> None, dns |-> None]

-----------------------------------------------------------------------------
(* Helpers the consumers share *)

Paths == {"/home/me", "/mnt/c/work", "/c/work", "relative"}

\* automountRootFromSettings: the root in force, WSL's own default when nothing says.
AutomountRoot(dash) ==
  IF dash = None \/ dash.wslSettings = None THEN "/mnt/" ELSE dash.wslSettings.root

\* classifyPathSide: a drive mount is one letter under the automount root.
ClassifyPathSide(path, root) ==
  CASE path \in {None, "relative"} -> "unknown"
    [] <<path, root>> \in {<<"/mnt/c/work", "/mnt/">>, <<"/c/work", "/">>} -> "windows-mount"
    [] OTHER -> "ext4"

IsCrossBoundary(side) == side \in {"windows-mount", "unc"}

RecommendedWatches == 524288
\* watchesAreLow: only a known number below the recommendation counts.
WatchesAreLow(info) ==
  info # None /\ info.maxUserWatches # None /\ info.maxUserWatches < RecommendedWatches

\* defenderCoverage: needs the exclusion list and the place of the image.
DefenderCoverage(defender, disk) ==
  IF defender.exclusionPaths = None \/ disk = None THEN "unknown"
  ELSE IF disk.image = None THEN "unknown"
  ELSE IF "image" \in defender.exclusionPaths THEN "covered" ELSE "not-covered"

\* A variable whose value must not leave: the collector's word or the name's pattern.
IsSecret(v) == v.isSecret \/ v.secretName

\* The items of a list at some of its places, in their order.
ItemsAt(seq, places) ==
  LET Rank(i) == Cardinality({j \in places : j <= i}) IN
  SubSeq([n \in 1 .. Cardinality(places) |-> seq[CHOOSE i \in places : Rank(i) = n]],
         1, Cardinality(places))

\* filter: the items that pass a test.
Where(seq, Test(_)) == ItemsAt(seq, {i \in DOMAIN seq : Test(seq[i])})

Installed(t) == t.installed
Shadowed(t) == t.installed /\ t.shadowedByWindows
Failed(svc) == svc.activeState = "failed"
Active(svc) == svc.activeState = "active"
Listening(p) == p.listening
=============================================================================
