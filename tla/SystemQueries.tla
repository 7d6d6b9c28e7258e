--------------------------- MODULE SystemQueries ---------------------------
(***************************************************************************)
(* More queries inside a distro (src/main/wsl), in the form of              *)
(* DistroQueries: the resolver, the drives, the clock, the resources, what  *)
(* a command name runs, and the catalog of tools.                           *)
(***************************************************************************)
EXTENDS DistroQueries

CONSTANTS
  Tools,        \* catalog entries
  Plugins,      \* those with a fallback version command, no binary of their own needed
  MaxLogLines,  \* the lines asked of a journal (200), small
  Signalled     \* those a configuration directory alone shows to be installed

-----------------------------------------------------------------------------
(* dns.ts: resolv.conf, wsl.conf and, on the Windows side, .wslconfig and    *)
(* the adapters' servers.                                                    *)
DnsWorlds ==
  {w \in [kind : {"symlink", "file", "other", "missing"}, wsl : BOOLEAN, readable : BOOLEAN,
          servers : 0..1, conf : {"missing", "unreadable", "readable"},
          declared : {"undeclared", "true", "false", "junk"}, adapter : 0..1] :
     /\ w.conf # "readable" => w.declared = "undeclared"
     /\ w.kind \in {"other", "missing"} => (~w.wsl /\ ~w.readable /\ w.servers = 0)
     /\ w.kind = "symlink" => w.readable
     /\ (w.kind = "file" /\ w.conf = "readable") => w.declared = "true"}

PrintDns(w) ==
  <<<<"KIND", w.kind>>>>
  \o When(w.kind = "symlink", <<<<"TARGET", IF w.wsl THEN "/mnt/wsl" ELSE "elsewhere">>>>)
  \o When(w.readable /\ w.wsl, <<<<"HEADER", "WSL">>>>)
  \o When(w.readable, Lines("NAMESERVER", w.servers))
  \o <<<<"WSLCONF", w.conf>>>>
  \o When(w.declared # "undeclared", <<<<"GENERATE", w.declared>>>>)

\* An absent file or key leaves WSL's default; what cannot be read stays unknown.
EffectiveGenerateResolvConf(state, declared) ==
  CASE state = "missing" -> "true"
    [] state = "readable" -> IF declared = None THEN "true"
                             ELSE IF declared = "junk" THEN None ELSE declared
    [] OTHER -> None

ParseDns(out) ==
  LET kind == First(out, "KIND") IN
  [isGeneratedSymlink |->
     CASE kind = "symlink" -> IF First(out, "TARGET") = "/mnt/wsl" THEN "true" ELSE "false"
       [] kind = "file" -> IF Has(out, "HEADER") THEN "true" ELSE "false"
       [] kind = "missing" -> "false"
       [] OTHER -> None,
   generate |-> EffectiveGenerateResolvConf(First(out, "WSLCONF"), First(out, "GENERATE")),
   nameservers |-> Len(Section(out, "NAMESERVER")), error |-> FALSE]
NoDns == [isGeneratedSymlink |-> None, generate |-> None, nameservers |-> 0, error |-> TRUE]
ReadDns(r) ==
  IF Threw(r) \/ TimedOut(r) \/ ~Has(r.out, "KIND") THEN NoDns ELSE ParseDns(r.out)

TrueDns(w, v) ==
  /\ v.isGeneratedSymlink # None => (v.isGeneratedSymlink = "true") = w.wsl
  /\ v.generate # None =>
       /\ w.conf # "unreadable" /\ w.declared # "junk"
       /\ (v.generate = "false") = (w.declared = "false")
  /\ ~v.error => v.nameservers = w.servers

\* The adapters' servers: read by PowerShell on the Windows side, or not.
PrintAdapter(w) == Lines("SERVER", w.adapter)
ReadAdapter(r) ==
  IF r.ends # "whole" THEN [servers |-> 0, error |-> TRUE]
  ELSE [servers |-> Len(r.out), error |-> FALSE]
TrueAdapter(w, v) == ~v.error => v.servers = w.adapter

-----------------------------------------------------------------------------
(* drive-mounts.ts: the drives under the automount root, and what wsl.conf   *)
(* declares of them.                                                         *)
MountWorlds ==
  [root : {"/mnt", "/win", "/"}, table : BOOLEAN, drives : 0..2, enabled : {"undeclared", "true", "false"}]

PrintMounts(w) ==
  When(w.table, <<<<"MOUNT", "root">>>> \o [i \in 1..w.drives |-> <<"MOUNT", w.root>>])
  \o When(w.enabled # "undeclared", <<<<"ENABLED", w.enabled>>>>)
\* isDriveMount: one letter, one level below the root's directory.
DriveMounts(out) == SelectSeq(Section(out, "MOUNT"), LAMBDA point : point \in {"/mnt", "/win"})
ReadMounts(r) ==
  IF Threw(r) \/ ~Has(r.out, "MOUNT") THEN None
  ELSE [drives |-> Len(DriveMounts(r.out)), declaredEnabled |-> First(r.out, "ENABLED")]
TrueMounts(w, v) ==
  /\ v.drives = w.drives
  /\ v.declaredEnabled = IF w.enabled = "undeclared" THEN None ELSE w.enabled

-----------------------------------------------------------------------------
(* clock.ts: the distro's clock against Windows', in half seconds, read at    *)
(* some instant between the start of the query and its end.                   *)
ClockWorlds == {w \in [offset : -5..5, took : 0..4, at : 0..4] : w.at <= w.took}
Abs(n) == IF n < 0 THEN -n ELSE n

\* The time the query took is measured by Windows.
PrintClock(w) == <<<<"EPOCH", [at |-> w.at + w.offset, took |-> w.took]>>>>
\* computeSkew, in quarter seconds: the middle of the query is Windows' instant, and a
\* difference within half the query is no skew.  Math.round takes halves upwards.
ComputeSkew(distro, took) ==
  LET diff == 2 * distro - took IN
  IF Abs(diff) <= took THEN 0 ELSE (diff + 2) \div 4
ReadClock(r) ==
  IF Threw(r) \/ TimedOut(r) \/ ~Has(r.out, "EPOCH") THEN [skew |-> None]
  ELSE LET epoch == First(r.out, "EPOCH") IN [skew |-> ComputeSkew(epoch.at, epoch.took)]
\* Never a skew that is not there, nor one further off than half the query and rounding.
TrueClock(w, v) ==
  v.skew # None =>
    /\ Abs(4 * v.skew - 2 * w.offset) <= w.took + (IF v.skew = 0 THEN Max({w.took, 2}) ELSE 2)
    /\ w.offset = 0 => v.skew = 0

-----------------------------------------------------------------------------
(* resources.ts: df of one mount point, and the share of the CPU since the   *)
(* sample kept from the query before.  Ticks only grow, until WSL restarts.  *)
ResourceWorlds ==
  {w \in [mounted : BOOLEAN, boot : 0..1, total : 0..2, idle : 0..2] : w.idle <= w.total}

PrintStat(w) == <<<<"STAT", [total |-> w.total, idle |-> w.idle]>>>>
PrintDf(w) == When(w.mounted, <<<<"DF", "row">>>>)
CpuPercent(prev, sample) ==
  LET total == sample.total - prev.total
      idle == sample.idle - prev.idle
  IN IF total <= 0 \/ idle < 0 \/ idle > total THEN None ELSE (100 * (total - idle)) \div total
\* Neither run's end is looked at; only one that throws prints nothing.
Sample(r) == IF Threw(r) THEN None ELSE First(r.out, "STAT")
ReadResources(r, prev) ==
  [cpu |-> IF Sample(r) = None \/ prev = None THEN None ELSE CpuPercent(prev, Sample(r))]
ReadDf(r) == [exists |-> ~Threw(r) /\ Has(r.out, "DF")]
\* before: the world of the sample kept.
TrueResources(before, w, v) ==
  v.cpu # None =>
    /\ before # None /\ before.boot = w.boot
    /\ v.cpu * (w.total - before.total) = 100 * ((w.total - before.total) - (w.idle - before.idle))
TrueDf(w, v) == v.exists = w.mounted

-----------------------------------------------------------------------------
(* resolve-command.ts: what a command name runs, and what that hides.        *)
CommandWorlds ==
  {w \in [builtin : BOOLEAN, linux : BOOLEAN, windows : BOOLEAN, root : {"/mnt", "/win"}] : TRUE}

\* Files in the order of PATH, where WSL appends Windows' directories.
OnPath(w) == When(w.linux, <<"linux">>) \o When(w.windows, <<w.root>>)
PrintCommand(w) ==
  <<<<"PATH", "entries">>>>
  \o (IF w.builtin THEN <<<<"WHICH", "builtin">>>>
      ELSE When(OnPath(w) # <<>>, <<<<"WHICH", Head(OnPath(w))>>>>))
  \o [i \in DOMAIN OnPath(w) |-> <<"ALL", OnPath(w)[i]>>]
ParseResolution(out) ==
  LET which == First(out, "WHICH")
      matches == Range(Section(out, "ALL")) IN
  CASE which = None -> [kind |-> "not-found", windows |-> FALSE, shadows |-> {}]
    [] which = "builtin" -> [kind |-> "builtin", windows |-> FALSE, shadows |-> matches]
    [] OTHER -> [kind |-> "file", windows |-> which = "/mnt", shadows |-> matches \ {which}]
ReadCommand(r) == IF Threw(r) \/ TimedOut(r) THEN None ELSE ParseResolution(r.out)
TrueCommand(w, v) ==
  /\ v.kind = "not-found" <=> ~(w.builtin \/ w.linux \/ w.windows)
  /\ v.kind = "builtin" <=> w.builtin
  /\ v.windows <=> (w.windows /\ ~w.linux /\ ~w.builtin)
  /\ v.kind # "not-found" => v.shadows =
       Range(OnPath(w)) \ (IF w.builtin THEN {} ELSE {Head(OnPath(w))})

-----------------------------------------------------------------------------
(* detectors/tools.ts: the catalog, found on PATH after the Windows mounts   *)
(* are dropped from it, and on those mounts by a sweep at the end.           *)
ToolWorlds ==
  {w \in [place : [Tools -> {"linux", "windows", "both", "nowhere"}],
          plugin : BOOLEAN, config : BOOLEAN,    \* of the entries that have one
          root : {"/mnt", "/win", "odd"},        \* "odd": a name the preamble skips
          table : BOOLEAN] : TRUE}

Listed(w) == w.table /\ w.root # "odd"          \* the mounts as MNT lines
OnWindowsMount(w) == Listed(w) \/ w.root = "/mnt"   \* M() of a Windows directory
\* command -v with the PATH that is left.
CommandV(w, t) ==
  CASE w.place[t] \in {"linux", "both"} -> "linux"
    [] w.place[t] = "windows" /\ ~OnWindowsMount(w) -> w.root
    [] OTHER -> None
PrintTool(w, t) ==
  <<<<"TOOL", t>>, <<"PATH", [of |-> t, path |-> CommandV(w, t)]>>>>
  \o When(CommandV(w, t) # None \/ (t \in Plugins /\ w.plugin), <<<<"VER", t>>>>)
  \o When(t \in Signalled /\ w.config, <<<<"CFG", t>>>>)
Swept(w) == {t \in Tools : OnWindowsMount(w) /\ w.place[t] \in {"windows", "both"}}
PrintTools(w) ==
  When(Listed(w), <<<<"MNT", w.root>>>>)
  \o FlattenSeq([i \in DOMAIN SetToSeq(Tools) |-> PrintTool(w, SetToSeq(Tools)[i])])
  \o [i \in DOMAIN SetToSeq(Swept(w)) |-> <<"WIN", [of |-> SetToSeq(Swept(w))[i], path |-> w.root]>>]

\* A Windows binary stands in only where neither path nor version was found.
PathOf(lines, t) ==
  LET own == {l \in lines : l.of = t /\ l.path # None} IN
  IF own = {} THEN None ELSE (CHOOSE l \in own : TRUE).path
\* classifyToolPath: the documented layout, and the mounts the script listed.
ClassifyToolPath(path, mounts) ==
  CASE path = None -> "unknown" [] path = "/mnt" \/ path \in mounts -> "windows-mount"
    [] OTHER -> "ext4"
BuildToolInfo(out, t) ==
  LET version == t \in Range(Section(out, "VER"))
      linux == PathOf(Range(Section(out, "PATH")), t)
      interop == IF linux = None /\ ~version THEN PathOf(Range(Section(out, "WIN")), t) ELSE None
      path == IF linux # None THEN linux ELSE interop
  IN [installed |-> path # None \/ version \/ t \in Range(Section(out, "CFG")),
      version |-> version,
      side |-> ClassifyToolPath(path, Range(Section(out, "MNT")))]
\* A batch that throws rejects, and the store keeps the section it has.
ReadTools(r) == IF Threw(r) THEN None ELSE [t \in Tools |-> BuildToolInfo(r.out, t)]

Installed(w, t) ==
  w.place[t] # "nowhere" \/ (t \in Plugins /\ w.plugin) \/ (t \in Signalled /\ w.config)
TrueTools(w, v) ==
  \A t \in Tools :
    /\ v[t].installed = Installed(w, t)
    /\ v[t].side = "windows-mount" => w.place[t] = "windows"
    /\ v[t].side = "ext4" => w.place[t] \in {"linux", "both"}
    \* A background poll must not start Windows programs.
    /\ v[t].version => (w.place[t] \in {"linux", "both"} \/ (t \in Plugins /\ w.plugin))
-----------------------------------------------------------------------------
(* system.ts: sections told apart by their place only, so that one that is     *)
(* missing leaves the ones before it as they are.                               *)
SystemWorlds ==
  [home : BOOLEAN, systemd : BOOLEAN, ip : {"v4", "none"},
   profiles : {"mine", "another's first", "none"}]

PrintSystem(w) ==
  <<<<"UNAME", "kernel">>, <<"HOME", IF w.home THEN "mine" ELSE "">>, <<"PASSWD", "mine">>,
    <<"SYSTEMD", IF w.systemd THEN "yes" ELSE "no">>, <<"IP", w.ip>>>>
  \o When(w.profiles # "none", <<<<"PROFILE", w.profiles>>>>)
ParseSystemInfo(out) ==
  [home |-> IF First(out, "HOME") = "mine" THEN "mine" ELSE First(out, "PASSWD"),
   systemdEnabled |-> First(out, "SYSTEMD"),
   ip |-> IF First(out, "IP") = "none" THEN None ELSE First(out, "IP"),
   profile |-> First(out, "PROFILE")]
ReadSystem(r) == ParseSystemInfo(IF Threw(r) THEN <<>> ELSE r.out)
TrueSystem(w, v) ==
  /\ v.systemdEnabled # None => (v.systemdEnabled = "yes") = w.systemd
  /\ v.ip # None => v.ip = w.ip
  /\ v.profile # None => v.profile = "mine"

-----------------------------------------------------------------------------
(* services.ts: the system's units and the user's, in one script that stops    *)
(* at the first half when the system's manager does not answer.  told: what the *)
(* store knew of systemd when it asked.                                         *)
ServiceWorlds ==
  {w \in [told : {"yes", "no", "unknown"}, systemd : BOOLEAN, bus : BOOLEAN,
          system : 0..1, user : 0..1] : ~w.systemd => (~w.bus /\ w.system = 0 /\ w.user = 0)}

PrintServices(w) ==
  IF ~w.systemd THEN <<>>
  ELSE <<<<"SECTION", 1>>>> \o Lines("SYSTEM", w.system) \o <<<<"SECTION", 2>>, <<"SECTION", 3>>>>
       \o When(w.bus, Lines("USER", w.user)) \o <<<<"SECTION", 4>>>>
ServicesEnd(w, r) == IF ~w.systemd /\ r.ends = "whole" THEN [r EXCEPT !.ends = "stopped"] ELSE r
\* What throws leaves the store the section it has.
ReadServices(w, r) ==
  IF w.told = "no" THEN [system |-> 0, user |-> 0]
  ELSE IF r.ends # "whole" \/ Len(Section(r.out, "SECTION")) # 4 THEN None
  ELSE [system |-> Len(Section(r.out, "SYSTEM")), user |-> Len(Section(r.out, "USER"))]
TrueServices(w, v) == v.system = w.system /\ v.user = w.user

-----------------------------------------------------------------------------
(* service-log.ts: a unit's last lines, and why there are none.                 *)
LogWorlds ==
  {w \in [unit : {"valid", "invalid"}, journal : {"missing", "fails", "hides", "readable"},
          entries : 0..MaxLogLines + 1] : w.journal \in {"missing", "fails"} => w.entries = 0}

PrintLog(w) ==
  CASE w.journal = "missing" -> <<<<"EXIT", 66>>>>
    [] w.journal = "fails" -> <<<<"STDERR", "message">>>>
    [] OTHER -> When(w.journal = "hides", <<<<"HINT", "some messages are hidden">>>>)
                \o (IF w.entries = 0 THEN <<<<"NO ENTRIES", "">>>>
                    ELSE Lines("LOG", Min({w.entries, MaxLogLines})))
NoLog(error) == [lines |-> 0, truncated |-> FALSE, error |-> error]
ReadServiceLog(w, r) ==
  LET n == Len(Section(r.out, "LOG")) IN
  IF w.unit = "invalid" THEN NoLog("not a unit name")
  ELSE IF Threw(r) THEN NoLog("thrown")
  ELSE IF TimedOut(r) THEN NoLog("did not answer in time")
  ELSE IF Has(r.out, "EXIT") THEN NoLog("no journal here")
  ELSE IF n = 0 THEN NoLog(First(r.out, IF Has(r.out, "HINT") THEN "HINT" ELSE "STDERR"))
  ELSE [lines |-> n, truncated |-> n >= MaxLogLines, error |-> First(r.out, "HINT")]
\* No lines and no error says that the unit has logged nothing.
TrueLog(w, v) ==
  /\ v.error = None => w.journal = "readable" /\ (v.truncated \/ v.lines = w.entries)
  /\ v.lines <= w.entries
=============================================================================
