--------------------------- MODULE DistroQueries ---------------------------
(***************************************************************************)
(* The queries the Hidden Runner makes inside a distro (src/main/wsl): for  *)
(* each, the lines its script prints in a distro as it is (Print...), what  *)
(* the collector makes of a finished run (Read...), and when that reading   *)
(* says nothing false of the distro (True...).  A line is <<tag, value>>,   *)
(* the tag standing for the markers around its section.                     *)
(***************************************************************************)
EXTENDS Integers, Sequences, SequencesExt, FiniteSetsExt

CONSTANTS
  None,         \* no value: null in a reading
  ZoneMaxRows   \* MAX_ROWS of zone-identifier.ts, small

When(condition, lines) == IF condition THEN lines ELSE <<>>
Lines(tag, n) == [i \in 1..n |-> <<tag, i>>]
Has(out, tag) == \E i \in DOMAIN out : out[i][1] = tag
Section(out, tag) ==
  LET of == SelectSeq(out, LAMBDA l : l[1] = tag) IN [i \in DOMAIN of |-> of[i][2]]
First(out, tag) ==
  IF ~Has(out, tag) THEN None
  ELSE LET i == CHOOSE i \in DOMAIN out : out[i][1] = tag /\ \A j \in 1..(i - 1) : out[j][1] # tag
       IN  out[i][2]

(***************************************************************************)
(* WslRunner: a run ends whole (code 0), is cut by its timeout after some   *)
(* of its lines (timedOut, no code), is stopped after some of its lines     *)
(* (a code and no timeout: wsl.exe refuses before the first, the distro is  *)
(* shut down before a later one), or is thrown (no process).                *)
(***************************************************************************)
Whole(out) == [out |-> out, ends |-> "whole"]
Outcomes(out) ==
  {Whole(out), [out |-> <<>>, ends |-> "thrown"]}
  \cup {[out |-> SubSeq(out, 1, n), ends |-> e] : n \in 0..Len(out), e \in {"cut", "stopped"}}

TimedOut(r) == r.ends = "cut"
Threw(r) == r.ends = "thrown"

-----------------------------------------------------------------------------
(* docker.ts: a first half that only reads files, a second that connects.   *)
DockerWorlds ==
  {w \in [cli : BOOLEAN, shim : BOOLEAN, desktop : BOOLEAN, remote : BOOLEAN,
          inspects : BOOLEAN, daemon : {"up", "activatable", "down"}] :
     /\ w.shim => (w.cli /\ w.desktop)
     /\ w.shim => w.daemon = "down"
     /\ ~w.cli => (~w.desktop /\ ~w.remote /\ w.inspects /\ w.daemon = "down")}

\* The endpoint as printed: nothing when `docker context inspect` gives none.
Endpoint(w) == IF ~w.inspects THEN "" ELSE IF w.remote THEN "tcp" ELSE "unix"
MutantLive(w) ==
  IF w.desktop THEN "desktop" ELSE IF w.daemon \in {"up", "activatable"} THEN "dockerd" ELSE ""
Live(w) == IF w.desktop THEN "desktop" ELSE IF w.daemon = "up" THEN "dockerd" ELSE ""

PrintDockerProbe(w) ==
  When(w.cli, <<<<"CLI", IF w.shim THEN "shim" ELSE "own">>, <<"ENDPOINT", Endpoint(w)>>,
                <<"LOCAL", IF Endpoint(w) = "tcp" THEN "0" ELSE "1">>, <<"LIVE", Live(w)>>>>)
MayContact(out) == First(out, "LOCAL") = "1" /\ First(out, "LIVE") \notin {None, ""}

\* Who answers a connection: a remote engine, Docker Desktop's, the distro's own, or
\* nobody.  Connecting starts a socket-activated daemon.
Engine(w) ==
  IF w.remote THEN "remote" ELSE IF w.shim THEN "docker-desktop"
  ELSE IF w.daemon \in {"up", "activatable"} THEN "own" ELSE None
\* No engine is taken for no answer.
ASSUME EngineAssumption == None \notin {"remote", "docker-desktop", "own"}
AfterContact(w) ==
  IF Engine(w) = "own" THEN [w EXCEPT !.daemon = "up"] ELSE w
\* Each command has `timeout 6` of its own; one of late prints nothing.
Commands == {"VERSION", "INFO", "IMAGES"}
PrintDockerContact(w, late) ==
  LET Answer(tag, lines) == When(tag \notin late, lines) IN
  IF Engine(w) = None THEN Answer("VERSION", <<<<"VERSION", "error">>>>)
  ELSE Answer("VERSION", <<<<"VERSION", "server">>>>) \o Answer("INFO", <<<<"INFO", Engine(w)>>>>)
       \o Answer("IMAGES", Lines("IMAGES", 2))

NoDocker ==
  [cliInstalled |-> FALSE, dockerDesktop |-> FALSE, localEndpoint |-> TRUE,
   notProbed |-> None, daemonRunning |-> FALSE, storageDistro |-> None, images |-> 0,
   error |-> FALSE]

ParseDocker(out) ==
  LET info == [NoDocker EXCEPT !.cliInstalled = TRUE,
                 !.dockerDesktop = First(out, "CLI") = "shim",
                 !.localEndpoint = First(out, "LOCAL") # "0"]
      \* `docker info` names the server when `docker version` has not answered.
      running == First(out, "VERSION") = "server" \/ Has(out, "INFO")
      desktop == info.dockerDesktop \/ First(out, "INFO") = "docker-desktop"
  IN IF ~Has(out, "CLI") THEN NoDocker
     ELSE IF ~info.localEndpoint THEN [info EXCEPT !.notProbed = "remote-endpoint"]
     ELSE IF First(out, "LIVE") \in {None, ""}
     THEN [info EXCEPT !.notProbed = "daemon-not-running"]
     ELSE [info EXCEPT !.daemonRunning = running,
             !.error = First(out, "VERSION") = "error" /\ ~running,
             !.storageDistro = IF desktop THEN "docker-desktop" ELSE None,
             !.images = Len(Section(out, "IMAGES"))]

ReadDocker(r) == IF Threw(r) \/ TimedOut(r) THEN None ELSE ParseDocker(r.out)

TrueDocker(w, v) ==
  /\ v.cliInstalled = w.cli
  /\ v.cliInstalled => v.dockerDesktop = w.shim
  /\ v.daemonRunning => (Engine(w) # None /\ v.images = 2)
  /\ v.storageDistro # None => Engine(w) = v.storageDistro
  /\ v.notProbed = "remote-endpoint" => w.remote
  /\ v.notProbed = "daemon-not-running" => w.daemon # "up"
  /\ (v.cliInstalled /\ v.notProbed = None /\ ~v.daemonRunning) => (v.error \/ Engine(w) = None)

-----------------------------------------------------------------------------
(* detectors/hermes.ts: what the files and processes show, and what the     *)
(* Hermes CLI says of itself when asked.                                    *)
HermesWorlds ==
  {w \in [where : {"path", "local", "nowhere"}, data : BOOLEAN, gateway : BOOLEAN,
          dashboard : BOOLEAN, config : {"none", "two", "broken"},
          cli : {"answers", "fails"}, home : {"same", "other", "unreadable"}] :
     /\ w.where = "nowhere" => (~w.gateway /\ ~w.dashboard)
     /\ ~w.data => w.config = "none"
     /\ w.where # "path" => (w.cli = "answers" /\ w.home = "same")
     /\ w.dashboard => w.config = "none"
     /\ w.home # "same" => (w.gateway /\ w.config = "none")}

PrintHermes(w) ==
  When(w.data, <<<<"DATA", "dir">>>>)
  \o When(w.where = "path", <<<<"EXEC", "path">>>>)
  \o When(w.where = "local", <<<<"EXECLOCAL", "local">>>>)
  \o When(w.config # "none", <<<<"JSON", w.config>>, <<"JSONEND", "">>>>)
  \o When(w.gateway, <<<<"PROCLINE", "gateway">>>>)
  \o When(w.dashboard, <<<<"PROCLINE", "dashboard">>, <<"SS", "dashboard">>>>)

\* A config whose JSON is broken or cut has no count; none at all has none either.
CountMcpServers(out) ==
  IF First(out, "JSON") = "two" /\ Has(out, "JSONEND") THEN 2 ELSE None

ParseHermes(out) ==
  LET runs(p) == p \in Range(Section(out, "PROCLINE")) IN
  [installed |-> Has(out, "EXEC") \/ Has(out, "EXECLOCAL") \/ Has(out, "DATA"),
   executable |-> IF Has(out, "EXEC") THEN "path" ELSE First(out, "EXECLOCAL"),
   gatewayStatus |-> IF runs("gateway") THEN "running" ELSE "not-detected",
   dashboardStatus |-> IF runs("dashboard") THEN "running" ELSE "not-detected",
   mcpServerCount |-> CountMcpServers(out),
   \* A port is Hermes's when a Hermes process listens on it.
   dashboardPort |-> IF runs("dashboard") /\ Has(out, "SS") THEN 9119 ELSE None]

ReadHermes(r) ==
  IF Threw(r) \/ (r.ends # "whole" /\ r.out = <<>>) THEN None ELSE ParseHermes(r.out)

TrueHermes(w, v) ==
  /\ v.installed = (w.where # "nowhere" \/ w.data)
  /\ v.executable = None \/ v.executable = w.where
  /\ (v.gatewayStatus = "running") = w.gateway
  /\ (v.dashboardStatus = "running") = w.dashboard
  /\ v.mcpServerCount # None => w.config = "two"
  /\ v.dashboardPort # None => w.dashboard

\* The unit's environment may be unreadable; the user's own home never is.
PrintHermesCli(w) ==
  When(w.where = "path",
    <<<<"STATUSBEGIN", "">>>>
    \o When(w.cli = "answers", <<<<"PLATFORM", "configured">>>>)
    \o <<<<"STATUSEND", "">>>>
    \o When(w.cli = "answers", Lines("PROFILE", 2))
    \o <<<<"STATUS_HOME", "mine">>>>
    \o When(w.gateway, <<<<"GATEWAY_UNIT", "unit">>>>)
    \o When(w.gateway /\ w.home # "unreadable",
            <<<<"GATEWAY_ENV", IF w.home = "same" THEN "mine" ELSE "theirs">>>>))

ParseHermesCli(out) ==
  LET mine == First(out, "STATUS_HOME")
      theirs == First(out, "GATEWAY_ENV") IN
  [platforms |-> Len(Section(out, "PLATFORM")), profiles |-> Len(Section(out, "PROFILE")),
   statusCommand |-> theirs # None /\ mine # None /\ theirs # mine]

ReadHermesCli(r) ==
  IF Threw(r) \/ TimedOut(r) \/ ~Has(r.out, "STATUSBEGIN") THEN None
  ELSE ParseHermesCli(r.out)

TrueHermesCli(w, v) ==
  /\ v.platforms = 1 /\ v.profiles = 2
  /\ v.statusCommand => w.home = "other"

-----------------------------------------------------------------------------
(* zone-identifier.ts: the `:Zone.Identifier` files below $HOME.            *)
ZoneWorlds ==
  {w \in [home : BOOLEAN, gnu : BOOLEAN, files : 0..ZoneMaxRows + 1,
          walk : {"ends", "slow", "denied"}] : ~w.home => (w.gnu /\ w.files = 0 /\ w.walk = "ends")}

\* What the walk has found when it stops: all, or the files it came to first.
Found(w) == IF w.walk = "ends" \/ w.files = 0 THEN w.files ELSE w.files - 1
\* st is find's with GNU find, awk's in the fallback's pipe.
WalkStatus(w) ==
  IF ~w.gnu \/ w.walk = "ends" THEN 0 ELSE IF w.walk = "slow" THEN 124 ELSE 1
PrintZone(w) ==
  When(w.home,
    <<<<"ROOT", "home">>, <<"STATUS", WalkStatus(w)>>, <<"SIZES", IF w.gnu THEN "known" ELSE "-">>>>
    \o Lines("ROWS", IF Found(w) < ZoneMaxRows THEN Found(w) ELSE ZoneMaxRows))

ParseZone(out) ==
  LET n == Len(Section(out, "ROWS")) IN
  IF First(out, "STATUS") # 0
  THEN [count |-> None, bytes |-> None, truncated |-> FALSE,
        error |-> IF First(out, "STATUS") = 124 THEN "timed out" ELSE "not completed"]
  ELSE [count |-> n,
        \* A sum only when every row carried a size.
        bytes |-> IF n = 0 \/ First(out, "SIZES") = "known" THEN n ELSE None,
        truncated |-> n >= ZoneMaxRows, error |-> None]
ReadZone(r) ==
  IF Threw(r) \/ TimedOut(r) \/ ~Has(r.out, "ROOT") THEN None ELSE ParseZone(r.out)

TrueZone(w, v) ==
  /\ v.count # None => IF v.truncated THEN w.files >= v.count ELSE w.files = v.count
  /\ v.bytes # None => v.bytes = v.count
  /\ v.count = None => v.error # None
  /\ v.error = "timed out" => w.walk = "slow"

-----------------------------------------------------------------------------
(* disk-consumers.ts: three of the usual suspects, one inside another.      *)
Suspects == {"apt-cache", "logs", "journal"}
Inside == [c \in Suspects |-> IF c = "journal" THEN "logs" ELSE None]
FullSize == [c \in Suspects |-> CASE c = "apt-cache" -> 4 [] c = "logs" -> 6 [] OTHER -> 2]

ConsumerWorlds ==
  {w \in [Suspects -> {"missing", "readable", "partly", "slow"}] :
     w["logs"] = "missing" => w["journal"] = "missing"}

\* du prints what it could add up; killed by timeout(1) it prints nothing.
Measured(state) ==
  CASE state = "missing" -> "missing"
    [] state = "readable" -> "all"
    [] state = "partly" -> "some"
    [] state = "slow" -> ""
PrintConsumers(w) ==
  [i \in 1..3 |-> LET c == <<"apt-cache", "journal", "logs">>[i] IN
                  <<"ROW", [id |-> c, size |-> Measured(w[c])]>>]

MarkNesting(rows, c) ==
  IF Inside[c] # None /\ \E row \in rows : row.id = Inside[c] /\ row.size # "missing"
  THEN Inside[c] ELSE None
SizeOf(row) ==
  CASE row.size = "all" -> FullSize[row.id] [] row.size = "some" -> FullSize[row.id] - 1
    [] OTHER -> None
Consumer(rows, row) ==
  [id |-> row.id, exists |-> row.size # "missing", bytes |-> SizeOf(row),
   containedIn |-> IF row.size = "missing" THEN None ELSE MarkNesting(rows, row.id)]

\* measuredTotal: each byte once, and whether anything was left out.
Counted(consumers) == {c \in consumers : c.exists /\ c.containedIn = None}
ParseConsumers(out) ==
  LET rows == Range(Section(out, "ROW"))
      consumers == {Consumer(rows, row) : row \in rows} IN
  [consumers |-> consumers,
   measuredBytes |-> MapThenSumSet(LAMBDA c : c.bytes, {c \in Counted(consumers) : c.bytes # None}),
   partial |-> \E c \in Counted(consumers) : c.bytes = None]
ReadConsumers(r) ==
  IF Threw(r) \/ TimedOut(r) \/ ~Has(r.out, "ROW") THEN None ELSE ParseConsumers(r.out)

Outermost(w) == {c \in Suspects : w[c] # "missing" /\ Inside[c] = None}
TrueConsumers(w, v) ==
  /\ \A c \in v.consumers : /\ c.exists = (w[c.id] # "missing")
                            /\ c.bytes # None => c.bytes = FullSize[c.id]
  /\ v.measuredBytes <= MapThenSumSet(LAMBDA c : FullSize[c], Outermost(w))
  /\ ~v.partial => v.measuredBytes = MapThenSumSet(LAMBDA c : FullSize[c], Outermost(w))
=============================================================================
