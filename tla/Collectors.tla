----------------------------- MODULE Collectors -----------------------------
(***************************************************************************)
(* The collectors of src/main/wsl/collect.ts at work: one of them is asked  *)
(* again and again, of distros that change between two questions, through  *)
(* runs that fail in every way WslRunner lets them; docker's script is two  *)
(* steps, because its second half acts on what the first has seen.  Which   *)
(* collector is asked is chosen at the start; they share nothing but the    *)
(* runner.  When the store asks is SnapshotStore's subject.                 *)
(***************************************************************************)
EXTENDS HostQueries

CONSTANTS
  Places,     \* Places[s]: the distros collector s is asked of, or the host
  Ttl,        \* ticks a cached answer is served for
  MaxSteps    \* MaxSteps[s]: bound on questions, changes and ticks

ASSUME TtlAssumption == Ttl \in Nat \ {0}

VARIABLES
  subject,    \* the collector that is asked
  world,      \* what the distros, or the host, are like
  cache,      \* by key: the answer kept, and of what it is
  sample,     \* by distro: the CPU sample kept (resources.ts)
  shown,      \* the answer just given
  probing,    \* docker's script between its two halves
  steps

collectVars == <<subject, world, cache, sample, shown, probing, steps>>

CachedSubjects == {"docker", "hermes", "zone", "consumers", "terminal", "dns", "memory"}
Subjects ==
  CachedSubjects \cup {"distros", "packages", "mounts", "clock", "resources", "command", "tools",
                       "disk", "system", "services", "log"}

Worlds(s) ==
  CASE s = "docker" -> DockerWorlds [] s = "hermes" -> HermesWorlds [] s = "zone" -> ZoneWorlds
    [] s = "consumers" -> ConsumerWorlds [] s = "dns" -> DnsWorlds [] s = "mounts" -> MountWorlds
    [] s = "clock" -> ClockWorlds [] s = "resources" -> ResourceWorlds
    [] s = "command" -> CommandWorlds [] s = "tools" -> ToolWorlds [] s = "disk" -> DiskWorlds
    [] s = "terminal" -> TerminalWorlds [] s = "distros" -> DistroListWorlds
    [] s = "packages" -> PackageWorlds [] s = "memory" -> MemoryWorlds
    [] s = "system" -> SystemWorlds [] s = "services" -> ServiceWorlds [] s = "log" -> LogWorlds

-----------------------------------------------------------------------------
\* What is asked every time: the outcomes of its run, and what is read of one.
RunsOf(s, w) ==
  CASE s = "hermes" -> Outcomes(PrintHermes(w)) [] s = "dns" -> Outcomes(PrintDns(w))
    [] s = "mounts" -> Outcomes(PrintMounts(w)) [] s = "clock" -> Outcomes(PrintClock(w))
    [] s = "resources" -> Outcomes(PrintStat(w)) [] s = "command" -> Outcomes(PrintCommand(w))
    [] s = "tools" -> Outcomes(PrintTools(w)) [] s = "disk" -> Outcomes(PrintUsage(w))
    [] s = "memory" -> Outcomes(PrintMeminfo(w)) [] s = "system" -> Outcomes(PrintSystem(w))
    [] s = "services" -> {ServicesEnd(w, r) : r \in Outcomes(PrintServices(w))}
    [] s = "log" -> Outcomes(PrintLog(w))
    [] s = "distros" -> {ListEnds(w, r) : r \in Outcomes(PrintVerbose(w))}
    [] OTHER -> {Whole(<<>>)}

\* The second run of those that make two, and the run of those that only have a cache.
OtherRunsOf(s, w) ==
  CASE s = "hermes" -> Outcomes(PrintHermesCli(w)) [] s = "dns" -> Outcomes(PrintAdapter(w))
    [] s = "resources" -> Outcomes(PrintDf(w)) [] s = "distros" -> Outcomes(PrintRunning(w))
    [] s = "zone" -> Outcomes(PrintZone(w)) [] s = "consumers" -> Outcomes(PrintConsumers(w))
    [] s = "memory" -> Outcomes(PrintTasklist(w))
    [] OTHER -> {Whole(<<>>)}

ReadFirst(s, w, r, other, prev) ==
  CASE s = "hermes" -> ReadHermes(r) [] s = "dns" -> ReadDns(r) [] s = "mounts" -> ReadMounts(r)
    [] s = "clock" -> ReadClock(r) [] s = "resources" -> ReadResources(r, prev)
    [] s = "command" -> ReadCommand(r) [] s = "tools" -> ReadTools(r) [] s = "disk" -> ReadDisk(w, r)
    [] s = "distros" -> ReadList(r, other) [] s = "packages" -> ReadPackages(w)
    [] s = "memory" -> ReadMemory(w, r) [] s = "system" -> ReadSystem(r)
    [] s = "services" -> ReadServices(w, r) [] s = "log" -> ReadServiceLog(w, r)
    [] OTHER -> None
ReadSecond(s, w, r) ==
  CASE s = "docker" -> ReadDocker(r) [] s = "hermes" -> ReadHermesCli(r) [] s = "zone" -> ReadZone(r)
    [] s = "consumers" -> ReadConsumers(r) [] s = "dns" -> ReadAdapter(r)
    [] s = "resources" -> ReadDf(r) [] s = "terminal" -> ReadTerminal(w)
    [] s = "memory" -> ReadVmProcess(r)
    [] OTHER -> None

-----------------------------------------------------------------------------
(* The caches of collect.ts, dns.ts, memory.ts and terminal-profiles.ts.    *)
MutantKey(s, d) == CHOOSE p \in Places[s] : TRUE
Key(s, d) == d   \* the distro; dns.ts, memory.ts and terminal-profiles.ts keep one for the host
Entry(d, v, w, r) == [of |-> d, v |-> v, from |-> w, ends |-> r.ends, age |-> 0]
Serves(s, entry) == s \in CachedSubjects /\ entry # None /\ entry.age < Ttl

\* A refresh that fails keeps the answer before it; a failure of dns.ts's or memory.ts's
\* is an answer too.
Refreshed(s, d, w, r) ==
  LET fresh == ReadSecond(s, w, r) IN
  IF fresh = None THEN cache[Key(s, d)] ELSE Entry(d, fresh, w, r)

NoAnswer == [v |-> None, ends |-> "whole"]
Show(d, first, second, failed) ==
  shown' = [distro |-> d, first |-> first, second |-> second, failed |-> failed]
OneMore == steps < MaxSteps[subject] /\ steps' = steps + 1

\* getHermes asks the CLI only of a Hermes that is installed.
WantsSecond(s, v) == s = "hermes" => (v # None /\ v.installed)

\* What is read of the runs in world w, and of the sample kept.
FirstAnswer(s, w, r, other, kept) ==
  [v |-> ReadFirst(s, w, r, other, IF kept = None THEN None ELSE kept.v),
   from |-> w, ends |-> r.ends, other |-> other.ends,
   before |-> IF kept = None THEN None ELSE kept.from]

Ask(d) ==
  /\ OneMore /\ subject # "docker"
  /\ \E r \in RunsOf(subject, world[d]), other \in OtherRunsOf(subject, world[d]) :
       LET first == FirstAnswer(subject, world[d], r, other, sample[d])
           entry == cache[Key(subject, d)]
           served == Serves(subject, entry)
           second == IF served THEN entry ELSE Refreshed(subject, d, world[d], other)
       IN /\ sample' = IF subject = "resources" /\ Sample(r) # None
                       THEN [sample EXCEPT ![d] = [v |-> Sample(r), from |-> world[d]]] ELSE sample
          /\ IF WantsSecond(subject, first.v)
             THEN /\ Show(d, first, second, ~served /\ ReadSecond(subject, world[d], other) = None)
                  /\ cache' = IF subject \in CachedSubjects
                              THEN [cache EXCEPT ![Key(subject, d)] = second] ELSE cache
             ELSE Show(d, first, None, FALSE) /\ UNCHANGED cache
  /\ UNCHANGED <<subject, world, probing>>

-----------------------------------------------------------------------------
(* docker.ts, through the cache.                                            *)
ShowDocker(d, r, w) ==
  LET second == Refreshed("docker", d, w, r) IN
  /\ cache' = [cache EXCEPT ![Key("docker", d)] = second]
  /\ Show(d, NoAnswer, second, ReadDocker(r) = None)

AskDocker(d) ==
  /\ OneMore /\ subject = "docker" /\ probing = None
  /\ LET entry == cache[Key("docker", d)] IN
     IF Serves("docker", entry)
     THEN Show(d, NoAnswer, entry, FALSE) /\ UNCHANGED <<cache, probing>>
     ELSE \/ /\ probing' = [distro |-> d, from |-> world[d], out |-> PrintDockerProbe(world[d]),
                            waits |-> MayContact(PrintDockerProbe(world[d])), late |-> FALSE]
             /\ shown' = None /\ UNCHANGED cache
          \/ \E e \in {"stopped", "thrown"} :
               ShowDocker(d, [out |-> <<>>, ends |-> e], world[d]) /\ UNCHANGED probing
  /\ UNCHANGED <<subject, world, sample>>

\* The second half connects, whatever has changed since the first.
DockerContact ==
  /\ probing # None /\ probing.waits
  /\ LET w == AfterContact(world[probing.distro]) IN
     /\ world' = [world EXCEPT ![probing.distro] = w]
     /\ \E late \in SUBSET Commands :
          probing' = [probing EXCEPT !.from = w, !.waits = FALSE, !.late = (late # {}),
                                     !.out = @ \o PrintDockerContact(w, late)]
  /\ UNCHANGED <<subject, cache, sample, shown, steps>>

\* A run with a command that did not answer looks like any other.
Ended(r, late) == IF late /\ r.ends = "whole" THEN [r EXCEPT !.ends = "late"] ELSE r
DockerEnd ==
  /\ probing # None
  /\ \E r \in Outcomes(probing.out) :
       /\ r.ends # "thrown" /\ (r.ends = "whole" => ~probing.waits)
       /\ ShowDocker(probing.distro, Ended(r, probing.late), probing.from)
  /\ probing' = None
  /\ UNCHANGED <<subject, world, sample, steps>>

-----------------------------------------------------------------------------
(* The distro, and time.                                                    *)
\* What the counters of one boot do.
Runs(v, w) == w.boot = v.boot /\ w.idle - v.idle \in 0..(w.total - v.total)

NotAfter(v, w) == v.boot < w.boot \/ Runs(v, w)

\* One thing at a time; a restart of WSL begins its counters anew.
Follows(s, v, w) ==
  IF s # "resources" THEN Cardinality({f \in DOMAIN w : w[f] # v[f]}) = 1
  ELSE /\ w.mounted = v.mounted
       /\ w.boot = v.boot + 1 \/ Runs(v, w)
\* Two systems that differ in what a command started meanwhile may change.
Alike(w, v) ==
  [w EXCEPT !.daemon = "down", !.remote = FALSE] = [v EXCEPT !.daemon = "down", !.remote = FALSE]
Alter(d) ==
  /\ OneMore /\ subject \in CachedSubjects \cup {"resources"}   \* the others keep nothing
  /\ \E w \in Worlds(subject) :
       /\ w # world[d] /\ Follows(subject, world[d], w)
       /\ probing # None => Alike(w, world[d])   \* bound
       /\ world' = [world EXCEPT ![d] = w]
  /\ shown' = None /\ UNCHANGED <<subject, cache, sample, probing>>

Tick ==
  /\ OneMore /\ subject \in CachedSubjects
  /\ cache' = [k \in DOMAIN cache |->
                 IF cache[k] = None \/ cache[k].age >= Ttl THEN cache[k]
                 ELSE [cache[k] EXCEPT !.age = @ + 1]]
  /\ shown' = None /\ UNCHANGED <<subject, world, sample, probing>>

\* Every world for one place; the others start alike.
CollectInit ==
  /\ subject \in Subjects
  /\ world \in LET first == CHOOSE p \in Places[subject] : TRUE
                   rest == CHOOSE w \in Worlds(subject) : TRUE IN
               {[p \in Places[subject] |-> IF p = first THEN w ELSE rest] : w \in Worlds(subject)}
  /\ cache = [p \in Places[subject] |-> None]
  /\ sample = [p \in Places[subject] |-> None]
  /\ shown = None /\ probing = None /\ steps = 0

CollectNext ==
  \/ \E d \in DOMAIN world : Ask(d) \/ AskDocker(d) \/ Alter(d)
  \/ DockerContact \/ DockerEnd \/ Tick

CollectSpec == CollectInit /\ [][CollectNext]_collectVars

-----------------------------------------------------------------------------
(* Properties.                                                              *)

TrueFirst(s, e) ==
  CASE s = "hermes" -> TrueHermes(e.from, e.v) [] s = "dns" -> TrueDns(e.from, e.v)
    [] s = "mounts" -> TrueMounts(e.from, e.v) [] s = "clock" -> TrueClock(e.from, e.v)
    [] s = "resources" -> TrueResources(e.before, e.from, e.v)
    [] s = "command" -> TrueCommand(e.from, e.v) [] s = "tools" -> TrueTools(e.from, e.v)
    [] s = "disk" -> TrueDisk(e.from, e.v) [] s = "distros" -> TrueList(e.from, e.v)
    [] s = "packages" -> TruePackages(e.from, e.v)
    [] s = "memory" -> TrueMemory(e.from, e.v) [] s = "system" -> TrueSystem(e.from, e.v)
    [] s = "services" -> TrueServices(e.from, e.v) [] s = "log" -> TrueLog(e.from, e.v) [] OTHER -> TRUE
TrueSecond(s, e) ==
  CASE s = "docker" -> TrueDocker(e.from, e.v) [] s = "hermes" -> TrueHermesCli(e.from, e.v)
    [] s = "zone" -> TrueZone(e.from, e.v) [] s = "consumers" -> TrueConsumers(e.from, e.v)
    [] s = "dns" -> TrueAdapter(e.from, e.v) [] s = "resources" -> TrueDf(e.from, e.v)
    [] s = "terminal" -> TrueTerminal(e.from, e.v) [] s = "memory" -> TrueVmProcess(e.from, e.v)
    [] OTHER -> TRUE

\* What a run that broke off leaves out is taken for absent; what it tells is there.
ToldFirst(s, w, v) ==
  CASE s = "hermes" ->
         /\ v.installed => (w.where # "nowhere" \/ w.data)
         /\ v.executable \in {None, w.where}
         /\ v.gatewayStatus = "running" => w.gateway
         /\ v.dashboardStatus = "running" => w.dashboard
         /\ v.mcpServerCount # None => w.config = "two"
         /\ v.dashboardPort # None => w.dashboard
    [] s = "dns" -> /\ v.nameservers <= w.servers
                    /\ v.isGeneratedSymlink = "true" => w.wsl
                    /\ v.generate = "false" => w.declared = "false"
    [] s = "mounts" -> v.drives <= w.drives /\ v.declaredEnabled \in {None, w.enabled}
    [] s = "command" -> /\ v.kind = "builtin" => w.builtin
                        /\ v.windows => (w.windows /\ ~w.linux /\ ~w.builtin)
                        /\ v.shadows \subseteq Range(OnPath(w))
    [] s = "tools" -> \A t \in Tools : v[t].installed => Installed(w, t)
    [] s = "distros" -> /\ DOMAIN v \subseteq Present(w)
                        /\ \A d \in DOMAIN v : v[d] = "Running" => w[d] = "Running"
    [] s = "memory" -> v.total \in {None, 10} /\ {v.cache, v.used} \subseteq {None, 3, 4}
    [] s = "log" -> v.lines <= w.entries
ToldSecond(s, w, v) ==
  CASE s = "docker" -> /\ v.cliInstalled => w.cli
                       /\ v.dockerDesktop => w.shim
                       /\ v.notProbed = "remote-endpoint" => w.remote
                       /\ v.daemonRunning => Engine(w) # None
                       /\ v.storageDistro \in {None, Engine(w)} /\ v.images <= 2
    [] s = "hermes" -> v.platforms <= 1 /\ v.profiles <= 2 /\ (v.statusCommand => w.home = "other")
    [] s = "zone" -> v.count # None => v.count <= w.files
    [] s = "consumers" ->
         /\ \A c \in v.consumers : c.exists = (w[c.id] # "missing")
         /\ v.measuredBytes <= MapThenSumSet(LAMBDA c : FullSize[c], Outermost(w))
    [] s = "resources" -> v.exists => w.mounted

\* What the code does not look at: runs whose end it ignores, and states of the system
\* that print what another prints.  Each is described in the README.
BrokenOff == {"cut", "stopped"}
Unseen(s, e) ==
  LET w == e.from
      BreaksOff(ends) == e.ends \in ends /\ ToldFirst(s, w, e.v) IN
  CASE s = "hermes" -> BreaksOff(BrokenOff)
    [] s = "dns" -> BreaksOff({"stopped"}) \/ (w.kind = "file" /\ ~w.readable)
    [] s = "mounts" -> BreaksOff(BrokenOff) \/ w.root = "/"
    [] s = "resources" -> e.before # None /\ e.before.boot # w.boot
    [] s = "command" -> BreaksOff({"stopped"}) \/ w.root # "/mnt"
    [] s = "tools" -> BreaksOff(BrokenOff)
                      \/ (~OnWindowsMount(w) /\ \E t \in Tools : w.place[t] \in {"windows", "both"})
    [] s = "disk" -> Image(w) \notin w.folder
    [] s = "distros" -> (e.ends # "whole" \/ e.other # "whole") /\ ToldFirst(s, w, e.v)
    [] s = "packages" -> \E p \in Range(Providers) : w.does[p] = "garbled"
    [] s = "memory" -> BreaksOff(BrokenOff) \/ w.declared = "a bare number"
    [] s = "system" -> w.profiles = "another's first"
    [] s = "services" -> (w.told = "no" /\ w.systemd) \/ (~w.bus /\ w.user # 0)
    [] s = "log" -> BreaksOff({"stopped"})
    [] OTHER -> FALSE
UnseenSecond(s, e) ==
  LET w == e.from
      BreaksOff(ends) == e.ends \in ends /\ ToldSecond(s, w, e.v) IN
  CASE s = "docker" -> \/ BreaksOff({"stopped"}) \/ (w.remote /\ e.v.localEndpoint)
                       \/ e.ends = "late" /\ TrueDocker(w, [e.v EXCEPT !.images = 2, !.error = TRUE])
    [] s = "hermes" -> BreaksOff({"stopped"}) \/ w.cli = "fails"
    [] s = "zone" -> BreaksOff({"stopped"}) \/ (~w.gnu /\ w.walk # "ends")
    [] s = "consumers" -> BreaksOff({"stopped"}) \/ \E c \in Suspects : w[c] = "partly"
    [] s = "resources" -> BreaksOff(BrokenOff \cup {"thrown"})
    [] s = "terminal" -> \E i \in DOMAIN w : w[i] = "locked"
    [] OTHER -> FALSE

FirstIsTrue(s, e) == e.v # None => TrueFirst(s, e) \/ Unseen(s, e)
SecondIsTrue(s, e) == e.v # None => TrueSecond(s, e) \/ UnseenSecond(s, e)

\* An answer says nothing false of the system it was read in, however the run ended:
\* what could not be read is unknown and never "none".  Left out are the cases Unseen and
\* UnseenSecond name: a run that broke off and is read as if it had ended, stopped for
\* most collectors and cut too for some, and docker's whose single commands answer late,
\* all of which make "none" of what they did not come to but invent nothing (ToldFirst,
\* ToldSecond); and systems that print what others do, docker behind an endpoint that
\* could not be read among them.
\* A cached answer is the asked distro's own, and outlives its time only while asking
\* again fails ("a failed refresh keeps the previous answer", collect.ts).
SaysNothingFalse ==
  shown # None =>
    /\ FirstIsTrue(subject, shown.first)
    /\ shown.second # None => SecondIsTrue(subject, shown.second)
    /\ (shown.second # None /\ subject \in CachedSubjects) =>
         shown.second.of = shown.distro /\ (shown.second.age >= Ttl => shown.failed)

\* What one question tells by itself, of every run of every world.
QuestionsAreTrue ==
  \A s \in Subjects \ {"docker"} : \A w \in Worlds(s) :
    \A r \in RunsOf(s, w), other \in OtherRunsOf(s, w) :
      /\ FirstIsTrue(s, FirstAnswer(s, w, r, other, None))
      /\ SecondIsTrue(s, Entry(None, ReadSecond(s, w, other), w, other))

\* The share of the CPU, with every sample that may be kept from an earlier run.
SharesAreTrue ==
  \A b \in ResourceWorlds, w \in ResourceWorlds : NotAfter(b, w) =>
    \A q \in RunsOf("resources", b), r \in RunsOf("resources", w),
       other \in OtherRunsOf("resources", w) :
      FirstIsTrue("resources",
                  FirstAnswer("resources", w, r, other, [v |-> Sample(q), from |-> b]))

\* Docker's script, broken off or thrown, and run to its end in a system that changes
\* between its halves, with commands that answer late.
DockerIsTrue ==
  \A w \in DockerWorlds :
    LET probe == PrintDockerProbe(w)
        Tells(r, v) == SecondIsTrue("docker", Entry(None, ReadDocker(r), v, r)) IN
    /\ \A e \in {"stopped", "thrown"} : Tells([out |-> <<>>, ends |-> e], w)
    /\ \A r \in Outcomes(probe) : r.ends # "whole" \/ ~MayContact(probe) => Tells(r, w)
    /\ \A v \in DockerWorlds, late \in SUBSET Commands : MayContact(probe) /\ Alike(v, w) =>
         \A r \in Outcomes(probe \o PrintDockerContact(AfterContact(v), late)) :
           Tells(Ended(r, late # {}), AfterContact(v))

\* The parsers alone say nothing false: no state in it, and TLC evaluates it by itself.
AnswersAreTrue == QuestionsAreTrue /\ SharesAreTrue /\ DockerIsTrue

\* "A poll must never reach someone's remote engine" and never starts a daemon
\* (docker.ts): the step that connects starts none and reaches no remote engine, but when
\* the first half saw something else (a daemon that ran, a local context), Docker
\* Desktop's mount, or an endpoint it could not read.
PollingLeavesEnginesAlone ==
  [][\A d \in DOMAIN world :
       (/\ subject = "docker" /\ probing # None /\ probing' # None
        /\ probing.distro = d /\ probing.waits /\ ~probing'.waits) =>
         /\ world[d].daemon = "activatable" /\ world'[d].daemon = "up" =>
              probing.from.daemon = "up" \/ probing.from.desktop
         /\ Engine(world[d]) = "remote" => ~probing.from.remote \/ ~probing.from.inspects]_collectVars
=============================================================================
