------------------------- MODULE MCPublishedSnapshot -------------------------
(* Two distros; each query gives the answers the reports tell apart. *)
EXTENDS PublishedSnapshot

MCLimits ==
  [l \in {"otherDistros", "importantPaths", "runtimes", "packageManagers", "tools",
          "windowsBinaries", "nameservers", "containers", "failedUnits", "notableServices",
          "ports", "windowsPorts", "filesystems", "drives", "caches", "settings",
          "configFiles", "warnings"} |-> 2] @@ [l \in {"checks"} |-> 22]

Sys == [user |-> "text", home |-> "text", kernel |-> "text", ip |-> "text",
        systemdEnabled |-> TRUE]
Disk(m, used) == [mountPoint |-> m, exists |-> TRUE, usePercent |-> used]
Res(disks) == [cpuCount |-> 8, memTotalBytes |-> 16, disks |-> disks]
Image == [image |-> "text", reclaimableGiB |-> 20, error |-> None]
Wsl == [verdicts |-> <<"applied">>, networkingModeDeclared |-> "text",
        networkingModeEffective |-> "text", restartPending |-> FALSE, root |-> "/mnt/",
        appendWindowsPath |-> TRUE, interop |-> [binfmt |-> "enabled", declared |-> None],
        defaultUser |-> [effectiveUid |-> 1000, effectiveName |-> "me", declaredName |-> None],
        wslconfigExists |-> TRUE, wslConfExists |-> FALSE]
Path(side) == [side |-> side, exists |-> TRUE, mapped |-> TRUE]
Conf(id, exists) == [id |-> id, exists |-> exists]
Tool(id, shadowed) ==
  [id |-> id, installed |-> TRUE, shadowedByWindows |-> shadowed,
   side |-> IF shadowed THEN "windows-mount" ELSE "ext4", services |-> {}]
Engine == [cliInstalled |-> TRUE, daemonRunning |-> TRUE, containers |-> <<"running", "exited">>,
           notProbed |-> None, error |-> None, reclaimable |-> <<3, None>>]
Var(name, secretName, isSecret, value) ==
  [name |-> name, secretName |-> secretName, isSecret |-> isSecret, value |-> value]
Unit(name, state) == [name |-> name, scope |-> "system", activeState |-> state]
Socket(pid, reach) == [port |-> 80, pid |-> pid, listening |-> TRUE, windowsBound |-> TRUE,
                       reachability |-> reach]
Sockets(items) ==
  [ports |-> items, windowsPorts |-> <<[port |-> 80, listening |-> TRUE, fromWsl |-> TRUE],
                                       [port |-> 99, listening |-> TRUE, fromWsl |-> FALSE]>>]
Rule(verdict) == [verdict |-> verdict, listenPort |-> 8080, connectPort |-> 80]
Resolver(servers, generate) ==
  [nameservers |-> servers, windowsAdapterDns |-> <<"ns1">>, generateResolvConf |-> generate,
   isGeneratedSymlink |-> generate, dnsTunneling |-> FALSE, error |-> None]
Guard(realtime, exclusions) == [realtimeEnabled |-> realtime, exclusionPaths |-> exclusions]

\* The first answer of each query is the healthy one.
Answers ==
  [system |-> <<Sys, [Sys EXCEPT !.systemdEnabled = FALSE],
                [Sys EXCEPT !.home = None, !.ip = None, !.systemdEnabled = None]>>,
   resources |-> <<Res(<<Disk("/", 50)>>), Res(<<Disk("/", 95), Disk("/mnt/c", 85)>>),
                   [Res(<<[Disk("/", None) EXCEPT !.exists = FALSE]>>) EXCEPT
                      !.memTotalBytes = None],
                   [Res(<<Disk("/", 85)>>) EXCEPT !.cpuCount = None, !.memTotalBytes = None]>>,
   disk |-> <<Image, [Image EXCEPT !.image = None, !.reclaimableGiB = None]>>,
   wslSettings |-> <<Wsl, [Wsl EXCEPT !.root = "/", !.restartPending = TRUE,
                                      !.verdicts = <<"not-set", "unknown-key">>],
                     [Wsl EXCEPT !.networkingModeEffective = "other",
                                 !.interop = [binfmt |-> "disabled", declared |-> TRUE],
                                 !.defaultUser = None]>>,
   memoryDetail |-> <<"read">>,
   paths |-> <<(<<Path("ext4")>>), <<Path("windows-mount"), Path("ext4"), Path("ext4")>>>>,
   configuration |-> <<(<<Conf("gitconfig", TRUE), Conf("ssh-config", TRUE)>>),
                       <<Conf("gitconfig", TRUE), Conf("ssh-config", FALSE)>>>>,
   tools |-> <<(<<Tool("git", FALSE), [Tool("node", FALSE) EXCEPT !.services = {"docker"}]>>),
               <<Tool("git", TRUE)>>, <<>>>>,
   hermes |-> <<[executablePath |-> "text", dataDir |-> "text"],
                [executablePath |-> "text", dataDir |-> None]>>,
   docker |-> <<Engine, [Engine EXCEPT !.daemonRunning = FALSE, !.error = "text"],
                [Engine EXCEPT !.daemonRunning = FALSE, !.notProbed = "remote-endpoint"],
                [Engine EXCEPT !.cliInstalled = FALSE, !.daemonRunning = FALSE]>>,
   zoneIdentifier |-> <<[count |-> 0], [count |-> None]>>,
   diskConsumers |-> <<[measuredBytes |-> 5, partial |-> FALSE, consumers |-> <<5, None>>]>>,
   driveMounts |-> <<[drives |-> <<[metadata |-> TRUE]>>], [drives |-> <<[metadata |-> FALSE]>>]>>,
   defender |-> <<Guard(TRUE, {"image"}), Guard(TRUE, None)>>,
   inotify |-> <<[maxUserWatches |-> RecommendedWatches], [maxUserWatches |-> 8192]>>,
   terminalProfiles |-> <<[installed |-> TRUE, profiles |-> {}, error |-> None]>>,
   environment |-> <<(<<Var("PATH", FALSE, FALSE, "linux"), Var("API_KEY", TRUE, TRUE, "masked"),
                        Var("PWD", FALSE, FALSE, "windows")>>),
                     <<Var("API_KEY", TRUE, FALSE, "secret"),
                       Var("WSLENV", FALSE, TRUE, "secret")>>>>,
   processes |-> <<(<<[pid |-> 10, vscode |-> TRUE, cpuPercent |-> 90, elapsedDays |-> 0]>>)>>,
   services |-> <<(<<Unit("docker", "active"), Unit("cron", "inactive")>>),
                  <<Unit("docker", "failed")>>>>,
   ports |-> <<Sockets(<<Socket(10, "windows-only")>>),
               Sockets(<<Socket(10, "unreachable"), Socket(11, "unknown")>>),
               [ports |-> <<>>, windowsPorts |-> <<>>]>>,
   firewall |-> <<[enabled |-> TRUE, defaultInbound |-> "text", error |-> None],
                  [enabled |-> None, defaultInbound |-> None, error |-> "text"]>>,
   portProxy |-> <<[rules |-> <<Rule("live")>>, error |-> None],
                   [rules |-> <<Rule("stale"), Rule("unknown")>>, error |-> None]>>,
   clock |-> <<[skewSeconds |-> 0], [skewSeconds |-> -12], [skewSeconds |-> 40],
               [skewSeconds |-> None]>>,
   dns |-> <<Resolver(<<"ns1">>, TRUE), Resolver(<<"ns2">>, FALSE), Resolver(<<>>, FALSE),
             Resolver(<<>>, TRUE), [Resolver(<<>>, None) EXCEPT !.error = "text"]>>]

MCReadings == [k \in DOMAIN Answers |-> Range(Answers[k])]

\* Nothing read, or everything healthy; then nothing has failed, or as many as are warned
\* of, or as many as are remembered.
Healthy == [k \in DOMAIN Answers |-> Answers[k][1]]
Warned == <<"hermes", "docker", "services">>
Remembered ==
  <<"hermes", "system", "resources", "disk", "wslSettings", "memoryDetail", "paths",
    "configuration", "zoneIdentifier", "diskConsumers", "driveMounts", "defender", "inotify",
    "terminalProfiles", "environment", "processes", "services", "ports", "docker", "tools">>
MCHistories ==
  {[read |-> <<>>, failed |-> <<>>], [read |-> <<>>, failed |-> Remembered],
   [read |-> Healthy, failed |-> <<>>], [read |-> Healthy, failed |-> Warned]}

MCFiles == [key |-> "private-key", rc |-> "secret-assignment", notes |-> "plain", bin |-> "binary"]
MCTree == [root |-> <<"f", "a", "b">>, a |-> <<"aa", "ab">>, aa |-> <<"aaa">>,
           aaa |-> <<"deep">>, b |-> <<"ba", "bb">>]
=============================================================================
