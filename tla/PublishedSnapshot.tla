-------------------------- MODULE PublishedSnapshot --------------------------
(***************************************************************************)
(* What is in the published snapshot and what its readers make of it: the  *)
(* sections of the selected distro as SnapshotStore's collectors fill      *)
(* them, one query at a time in any order, the warnings computed from them *)
(* (src/main/state/store.ts), and the reports of McpTools and              *)
(* EnvironmentReports over the result.  When the tiers run and how they    *)
(* overlap is SnapshotStore's subject; here every order of single answers  *)
(* is allowed, and what the answers say is not abstracted away.            *)
(***************************************************************************)
EXTENDS McpTools

CONSTANTS
  Readings,    \* Readings[k]: the answers the query of section k may give
  Histories,   \* what a session may have seen: read, for some sections, the answer, and
               \* failed, the queries that have failed since, in their order
  Slow,        \* the queries of a distro left before that may still be under way
  Places,      \* directories the Console may be in
  Files, Tree, \* the files and directories the Explorer backend can read
  MaxSteps     \* bound on the events after the history

VARIABLES
  selected, distros, dash, answering,   \* the store's own fields
  failures, warnings,                   \* runnerFailures and the warnings last computed
  cwd, explorerPath, mcp,               \* the contexts other components set
  current,                              \* the published snapshot
  answers,                              \* for the properties: how the last query of each
                                        \* section ended since the selection, null if none
  overruled,                            \* and the queries whose failure was noted or
                                        \* forgotten by no query of this selection
  steps

vars == <<selected, distros, dash, answering, failures, warnings, cwd, explorerPath, mcp,
          current, answers, overruled, steps>>

MaxTrackedRunnerFailures == 20
NoAnswers == [k \in DOMAIN Readings |-> None]

\* build: the snapshot of the present fields, and the warnings last computed.
Fields ==
  [selected |-> selected, distros |-> distros, answering |-> answering, dash |-> dash,
   cwd |-> cwd, explorerPath |-> explorerPath, mcp |-> mcp]
Build ==
  [selected |-> selected, distros |-> distros, answering |-> answering, dash |-> dash,
   cwd |-> cwd, explorerPath |-> explorerPath, mcp |-> mcp, warnings |-> warnings]

\* recomputeWarnings: the pure rules, then the store's own on the liveness.
RecomputeWarnings(s, queries) ==
  ComputeWarnings(s, queries)
  \o Warn(s.selected # None /\ s.answering = FALSE, "distro-unresponsive", None)

\* The fields an answer of query k fills: a section, and where the section may well be
\* empty a mark that it was read; ports come with the Windows table.
FieldsOf(k) ==
  CASE k = "services" -> {"services", "servicesCollected"}
    [] k = "tools" -> {"tools", "toolsCollectionStatus"}
    [] k = "ports" -> {"ports", "windowsPorts", "portsCollectionStatus"}
    [] OTHER -> {k}

\* What answer v of query k leaves in field f.
Filled(k, v, f) ==
  CASE f = "servicesCollected" -> TRUE
    [] f \in {"toolsCollectionStatus", "portsCollectionStatus"} -> "succeeded"
    [] k = "ports" /\ f \in {"ports", "windowsPorts"} -> v[f]
    [] OTHER -> v

\* A collector's answer in its section.
Apply(d, k, v) ==
  [f \in DOMAIN d |-> IF f \in FieldsOf(k) THEN Filled(k, v, f) ELSE d[f]]

\* The sections after one answer each to the queries of history h.
AfterHistory(h) ==
  [f \in DOMAIN EmptySections |->
     LET fills == {k \in DOMAIN h : f \in FieldsOf(k)} IN
     IF fills = {} THEN EmptySections[f]
     ELSE LET k == CHOOSE k \in fills : TRUE IN Filled(k, h[k], f)]

\* The remembered failures of the other queries.
AllBut(queries, k) == Where(queries, LAMBDA c : c # k)

NoteRunnerFailure(queries, k) ==
  LET all == Append(AllBut(queries, k), k) IN
  SubSeq(all, Max({1, Len(all) - MaxTrackedRunnerFailures + 1}), Len(all))

\* Null is no distribution, no dashboard or part of one, no way for a query to end, no text,
\* no count and no answer to a question.
ASSUME NoneAssumption ==
  /\ None \notin Distros /\ None \notin DashboardSnapshot
  /\ None \notin ServiceInfo /\ None \notin PortInfo
  /\ None \notin {"answered", "failed", "text", "secret"}
  /\ None \notin Nat /\ None \notin BOOLEAN
  /\ None \notin DnsPart /\ None \notin PortProxyPart

ASSUME DistrosAssumption == Distros # {}

\* There is a query for every section, and what it answers fits the fields it fills.  The
\* usage of the root is always listed, once; "secret" is the value of a variable that is one
\* by its name or by the collector's word.
ASSUME ReadingsAssumption ==
  /\ DOMAIN Readings = SectionIds
  /\ \A k \in DOMAIN Readings : \A v \in Readings[k] :
       Apply(EmptySections, k, v) \in DashboardSnapshot
  /\ \A v \in Readings["resources"] :
       \E i \in DOMAIN v.disks :
         \A j \in DOMAIN v.disks : v.disks[j].mountPoint = "/" <=> j = i
  /\ \A v \in Readings["environment"] :
       \A i \in DOMAIN v : v[i].value = "secret" => IsSecret(v[i])

\* Every list the context cuts keeps some of its items.
ASSUME LimitsAssumption ==
  /\ {"filesystems", "nameservers"} \subseteq DOMAIN Limits
  /\ \A l \in DOMAIN Limits : Limits[l] \in Nat \ {0}

\* A history gives answers of its queries, and remembers a failed query once.
ASSUME HistoryAssumption ==
  \A h \in Histories :
    /\ DOMAIN h.read \subseteq DOMAIN Readings
    /\ \A k \in DOMAIN h.read : h.read[k] \in Readings[k]
    /\ h.failed \in Seq(DOMAIN Readings) /\ IsInjective(h.failed)

ASSUME SlowAssumption == Slow \subseteq DOMAIN Readings

-----------------------------------------------------------------------------
Default == CHOOSE d \in Distros : TRUE

\* A session that has left another distro for this one, and seen a history of answers and
\* failures since.
Init ==
  /\ selected = Default
  /\ distros = [d \in Distros |-> "Running"]
  /\ answering = None /\ explorerPath = None
  /\ cwd = None
  /\ mcp = [running |-> TRUE, error |-> None]
  /\ \E h \in Histories :
       /\ dash = AfterHistory(h.read)
       /\ failures = h.failed
       /\ answers = [k \in DOMAIN Readings |->
                       IF k \in Range(h.failed) THEN "failed"
                       ELSE IF k \in DOMAIN h.read THEN "answered" ELSE None]
  /\ overruled = {}
  /\ warnings = RecomputeWarnings(Fields, failures)
  /\ current = Build
  /\ steps = 0

Tick == steps < MaxSteps /\ steps' = steps + 1
Recompute == warnings' = RecomputeWarnings(Fields', failures')
Publish == current' = Build'

\* noteRunnerFailure: query k is the last to have failed, and where the list is full the
\* first of it falls out.
Note(k, spokenFor) ==
  /\ failures' = NoteRunnerFailure(failures, k)
  /\ overruled' = spokenFor \union (Range(failures) \ Range(failures'))

\* The queries a running distro is asked; a distro that stopped answering is asked
\* nothing, the Windows side still is.
HostQueries == {"firewall", "portProxy"}
Asked(k) == /\ dash # None /\ distros[selected] = "Running"
            /\ k \in HostQueries \/ answering # FALSE

\* collect, the query answered: the section is replaced, its failure forgotten.
\* Nothing is published until the tier ends.
Collected(k) ==
  /\ Tick /\ Asked(k)
  /\ \E v \in Readings[k] : dash' = Apply(dash, k, v)
  /\ failures' = AllBut(failures, k) /\ overruled' = overruled \ {k}
  /\ answers' = [answers EXCEPT ![k] = "answered"]
  /\ UNCHANGED <<selected, distros, answering, cwd, explorerPath, mcp, current>>
  /\ IF k \in Range(failures) THEN Recompute ELSE UNCHANGED warnings

\* collect, the query failed: the last good section stays, the failure is a warning.
CollectFailed(k) ==
  /\ Tick /\ Asked(k)
  /\ dash' = CASE k = "tools" /\ ~ToolsKnown(dash) ->
                    [dash EXCEPT !.toolsCollectionStatus = "failed"]
               [] k = "ports" /\ ~PortsKnown(dash) ->
                    [dash EXCEPT !.portsCollectionStatus = "failed"]
               [] OTHER -> dash
  /\ Note(k, overruled \ {k})
  /\ answers' = [answers EXCEPT ![k] = "failed"]
  /\ UNCHANGED <<selected, distros, answering, cwd, explorerPath, mcp>>
  /\ Recompute /\ Publish

\* collect, of a query asked before the distro was selected: its answer goes into the
\* sections of then, which nobody reads any more, and its failure is forgotten or noted
\* in the list of now.  An answer to a query not in the list changes nothing.
LateAnswer(k) ==
  /\ Tick /\ k \in Range(failures)
  /\ failures' = AllBut(failures, k) /\ overruled' = overruled \union {k}
  /\ UNCHANGED <<selected, distros, dash, answering, cwd, explorerPath, mcp, current, answers>>
  /\ Recompute

LateFailure(k) ==
  /\ Tick /\ Note(k, overruled \union {k})
  /\ UNCHANGED <<selected, distros, dash, answering, cwd, explorerPath, mcp, answers>>
  /\ Recompute /\ Publish

\* The end of every tier.
TierEnds ==
  /\ UNCHANGED <<selected, distros, dash, answering, failures, cwd, explorerPath, mcp,
                 answers, overruled, steps>>
  /\ Recompute /\ Publish

\* setTerminalContext and setExplorerContext publish with the warnings of before.
SetTerminalContext ==
  /\ Tick /\ \E c \in Places \ {cwd} : cwd' = c
  /\ UNCHANGED <<selected, distros, dash, answering, failures, warnings, explorerPath, mcp,
                 answers, overruled>>
  /\ Publish

SetExplorerContext ==
  /\ Tick /\ explorerPath = None /\ explorerPath' = "/home/me"
  /\ UNCHANGED <<selected, distros, dash, answering, failures, warnings, cwd, mcp, answers,
                 overruled>>
  /\ Publish

SetMcpStatus ==
  /\ Tick
  /\ mcp' = IF mcp.running THEN [running |-> FALSE, error |-> "text"]
            ELSE [running |-> TRUE, error |-> None]
  /\ UNCHANGED <<selected, distros, dash, answering, failures, cwd, explorerPath, answers,
                 overruled>>
  /\ Recompute /\ Publish

\* runProbe: an answer after failures recomputes, a failure always does.
ProbeDistro(alive) ==
  /\ Tick /\ selected # None /\ distros[selected] = "Running" /\ answering # alive
  /\ answering' = alive
  /\ UNCHANGED <<selected, distros, dash, failures, cwd, explorerPath, mcp, current, answers,
                 overruled>>
  /\ IF answering = FALSE \/ ~alive THEN Recompute ELSE UNCHANGED warnings

\* Mutant: the failures of the distro left behind are kept.
SelectInternalKeepsFailures(d) ==
  /\ selected' = d /\ dash' = EmptySections
  /\ answering' = None /\ answers' = NoAnswers /\ overruled' = {} /\ UNCHANGED failures

\* selectInternal
SelectInternal(d) ==
  /\ selected' = d /\ dash' = EmptySections
  /\ failures' = <<>> /\ answering' = None /\ answers' = NoAnswers /\ overruled' = {}

SetDistro ==
  /\ Tick
  /\ \E d \in Distros \ {selected} : distros[d] # None /\ SelectInternal(d)
  /\ UNCHANGED <<distros, cwd, explorerPath, mcp>>
  /\ Recompute /\ Publish

\* Mutant: the sections outlive the last distro.
ListDistrosKeepsSections ==
  /\ Tick
  /\ \E list \in [Distros -> {"Running", "Stopped", None}] \ {distros} :
       /\ distros' = list
       /\ IF \E d \in Distros : list[d] # None
          THEN UNCHANGED selected ELSE selected' = None
  /\ UNCHANGED <<dash, failures, answering, answers, overruled, warnings, cwd, explorerPath,
                 mcp, current>>

\* applyDistroList: the selection stays while it is listed, else the default or the
\* first; without any distro there are no sections, though its failures stay.
ListDistros ==
  /\ Tick
  /\ \E list \in [Distros -> {"Running", "Stopped", None}] \ {distros} :
       /\ distros' = list
       /\ IF selected \in {d \in Distros : list[d] # None}
          THEN UNCHANGED <<selected, dash, failures, answering, answers, overruled>>
          ELSE IF \E d \in Distros : list[d] # None
          THEN SelectInternal(CHOOSE d \in Distros : list[d] # None)
          ELSE /\ selected' = None /\ dash' = None
               /\ UNCHANGED <<failures, answering, answers, overruled>>
  /\ UNCHANGED <<warnings, cwd, explorerPath, mcp, current>>

Next ==
  \/ \E k \in DOMAIN Readings : Collected(k) \/ CollectFailed(k)
  \/ \E k \in Slow : LateAnswer(k) \/ LateFailure(k)
  \/ TierEnds \/ SetTerminalContext \/ SetExplorerContext \/ SetMcpStatus
  \/ \E alive \in BOOLEAN : ProbeDistro(alive)
  \/ SetDistro \/ ListDistros

Spec == Init /\ [][Next]_vars

-----------------------------------------------------------------------------
(* Type *)

\* The sections are records of the domain model, present exactly while a distro is
\* selected.
TypeOK ==
  /\ selected \in Maybe(Distros)
  /\ distros \in [Distros -> Maybe({"Running", "Stopped"})]
  /\ (dash = None) = (selected = None)
  /\ answering \in Tri
  /\ \A s \in {Build, current} : s.dash # None => s.dash \in DashboardSnapshot

-----------------------------------------------------------------------------
(* Properties of the reports over any snapshot the store can build *)

\* A dashboard that never heard of section k.
Forget(d, k) ==
  LET Empty(f) == EmptySections[f] IN
  CASE k = "services" -> [d EXCEPT !.services = Empty(k), !.servicesCollected = FALSE]
    [] k = "tools" -> [d EXCEPT !.tools = Empty(k), !.toolsCollectionStatus = "pending"]
    [] k = "ports" -> [d EXCEPT !.ports = Empty(k), !.windowsPorts = <<>>,
                                !.portsCollectionStatus = "pending"]
    [] OTHER -> [d EXCEPT ![k] = Empty(k)]

\* The environment doctor never passes what was not read: forgetting a section turns
\* no verdict into ok ("Unknown means the check could not run, never that it passed",
\* tools.ts).  The directory check alone falls back on WSL's own automount root; and a
\* fact that is missing inside a section that was read is not looked at here (a null
\* count of inotify watches is judged ok).
UnreadNeverPasses ==
  dash # None =>
    LET with == Checks(Build) IN
    \A k \in DOMAIN Readings :
      LET without == Checks([Build EXCEPT !.dash = Forget(dash, k)]) IN
      \A c \in DOMAIN without \ {"cwd-boundary"} :
        without[c] = "ok" => c \in DOMAIN with /\ with[c] = "ok"

\* What the context calls not collected, and the counts it gives, follow what was
\* really answered since the distro was selected: a section never read is always
\* named, one that is named though it was read held nothing (services of a distro
\* without systemd aside, and the two sections that are judged by two of their facts),
\* and a count is null exactly when its list was never read.
ProvenanceIsExact(c) ==
  LET named == c.provenance.notCollected
      Read(k) == dash[k] # EmptySections[k]
      known == {k \in {"services", "tools", "ports"} :
                  CASE k = "services" -> c.services.total # None
                    [] k = "tools" -> c.groups.tools.installedCount # None
                    [] k = "ports" -> c.ports.listeningCount # None} IN
  /\ \A k \in DOMAIN Readings : answers[k] = None => k \in named /\ k \notin known
  /\ \A k \in DOMAIN Readings :
       answers[k] = "answered" /\ k \in named /\ Read(k) =>
         \/ k = "services" /\ dash.system.systemdEnabled = FALSE
         \/ k = "system" /\ dash.system.user = None /\ dash.system.kernel = None
         \/ k = "resources" /\ dash.resources.cpuCount = None
              /\ dash.resources.memTotalBytes = None
  /\ \A k \in {"services", "tools", "ports"} :
       answers[k] = "answered" => k \in known \union
         (IF dash.system.systemdEnabled = FALSE THEN {"services"} ELSE {})

\* The agent's Markdown leaves a heading out only when its fact is named as not
\* collected, or is known to be empty.
LeftOutIsNamed(c) ==
  LET m == DevEnvContextToMarkdown(c)
      About == [docker |-> {"docker"}, services |-> {"services"}, path |-> {"environment"},
                network |-> {"dns", "portProxy"}, configs |-> {"wslSettings"},
                storage |-> {"resources"},
                ports |-> {"ports"}, tools |-> {"tools"}] IN
  \A h \in DOMAIN About \ m.headings :
    \/ About[h] \subseteq m.notCollected
    \/ h = "ports" /\ c.ports.listeningCount = 0
    \/ h = "tools" /\ c.groups.tools.installedCount = 0

\* What an agent is told to be missing is what is missing: in the context by name and
\* by null, in the Markdown by a heading left out ("Unknown is never zero",
\* dev-env-context.ts).
WhatIsMissingIsNamed ==
  dash # None =>
    \A c \in {BuildContext(Build)} : ProvenanceIsExact(c) /\ LeftOutIsNamed(c)

\* On the facts they share, the clock, the services, the space on the root, the Windows
\* binaries, Docker, name resolution and the Console's directory, the three judges of one
\* snapshot do not contradict each other: what the warnings card or one doctor calls
\* broken, the others do not call healthy.  In two cases they do.  With no nameserver and
\* a resolv.conf that is WSL's own or a link, the agent is told of a problem
\* (dev-env-context.ts:740) and the desktop says healthy, because it looks at hand-written
\* files alone (doctor.ts:247).  And the warnings judge the Console's directory with the
\* automount root WSL starts with, the agent with the distro's own.
ReportsAgree ==
  dash # None =>
    LET agent == Checks(Build)
        desktop == RunDoctor(dash)
        warned == {w.id : w \in Range(ComputeWarnings(Build, failures))}
        lowRoot == \E d \in Range(dash.resources.disks) :
                     d.mountPoint = "/" /\ d.exists /\ d.usePercent # None
                     /\ d.usePercent >= DiskProblemPercent IN
    /\ "clock-skew" \in warned => agent["clock-skew"] = "problem" /\ desktop.clockSkew # "healthy"
    /\ desktop.clockSkew = "error" => agent["clock-skew"] = "problem"
    /\ agent["clock-skew"] = "problem" /\ StateOf(Build) = "Running" => "clock-skew" \in warned
    /\ "service-failed" \in warned =>
         agent["services"] # "ok" /\ desktop.systemdDocker \in {"error", "unknown"}
    /\ agent["services"] = "problem" => "service-failed" \in warned
    /\ lowRoot = (agent["disk-headroom"] = "problem")
    /\ desktop.binaryShadowing = "warning" => agent["windows-binaries"] # "ok"
    /\ agent["docker"] = "problem" => desktop.systemdDocker # "healthy"
    /\ desktop.dnsConfig = "error" => agent["dns"] = "unknown"
    /\ desktop.dnsConfig = "warning" => agent["dns"] # "ok"
    /\ agent["dns"] = "problem" /\ desktop.dnsConfig = "healthy" =>
         dash.dns.generateResolvConf \/ dash.dns.isGeneratedSymlink
    /\ "console-cwd-cross-boundary" \in warned /\ agent["cwd-boundary"] = "ok" =>
         AutomountRoot(dash) # "/mnt/"

\* Whenever the warnings are those of the present fields, the stale queries named in
\* the provenance are queries of this selection that failed last, as many as the cap lets
\* through: none that has answered since, and none of a distro selected before.  Two kinds
\* of query are left out.  A query of a distro left before that ends after the switch
\* notes or forgets its failure in the list of the new selection (store.ts:746-750); of
\* it, the list is right again once the new selection's own query has ended.  And what
\* fell out of the list when more than twenty had failed is not named.
StaleQueriesAreExact ==
  selected # None /\ warnings = RecomputeWarnings(Fields, failures) =>
    LET failed == {k \in DOMAIN answers : answers[k] = "failed"}
        stale == StaleQueries(Build) IN
    /\ stale \ overruled \subseteq failed
    /\ Cardinality(stale) <= MaxRunnerWarnings
    /\ Cardinality(stale) >= Min({Cardinality(failed \ overruled), MaxRunnerWarnings})

\* No report, export or tool ever carries the value of a secret variable, even when
\* the collector failed to mask it.
SecretsStay ==
  /\ "secret" \notin EnvironmentValues(current)
  /\ \A preset \in {"default", "bug-report", "agent-context"} :
       "secret" \notin SnapshotToMarkdown(current, preset).env
  /\ \A path \in DOMAIN Files :
       LET answer == GetTextFile(current, path, Files, {}, {}) IN
       ~answer.isError => answer.data.content \notin {"private-key", "secret-assignment"}

\* A directory tree that does not say it is truncated is complete to its depth, and
\* never holds more entries than the budget it reports.
TreeTells ==
  steps = 0 /\ selected # None =>
    \A dir \in DOMAIN Tree, depth \in 1 .. 3 :
      LET answer == GetDirectoryTree(current, Tree, dir, depth)
          Step(paths) == paths \union
            UNION {Range(Tree[p]) : p \in paths \intersect DOMAIN Tree}
          level1 == Range(Tree[dir])
          all == CASE depth = 1 -> level1 [] depth = 2 -> Step(level1)
                   [] depth = 3 -> Step(Step(level1))
          Nodes1(nodes) == {n.path : n \in Range(nodes)}
          Kids(nodes) == UNION {IF n.children = None THEN {} ELSE Range(n.children) :
                                  n \in Range(nodes)}
          shown == Nodes1(answer.data.tree) \union {n.path : n \in Kids(answer.data.tree)}
                   \union UNION {IF n.children = None THEN {} ELSE Nodes1(n.children) :
                                   n \in Kids(answer.data.tree)} IN
      /\ GetDirectory(current, Tree, dir).data = Tree[dir] /\ shown \subseteq all
      /\ Cardinality(shown) = answer.summary /\ answer.summary <= MaxTreeEntries
      /\ ~answer.data.truncated => shown = all

\* A fact no query has read is answered with null, and one that was read with what was
\* read; a service is found exactly when it was listed.
FactsOrNothing ==
  dash # None =>
    /\ \A tool \in DOMAIN FactTools :
         CallFact(Build, tool).data = dash[FactTools[tool]]
    /\ \A tool \in DOMAIN LateFactTools :
         CallLateFact(Build, tool).data = dash[LateFactTools[tool]]
    /\ \A name \in {"docker", "postgres"} :
         LET answer == CallFind(Build, "GetService", name) IN
         answer.isError = (name \notin {u.name : u \in Range(dash.services)})
    /\ \A port \in {80, 99} :
         CallPortOwner(Build, port).summary = "nothing-listening" =>
           \A p \in Range(dash.ports) : p.port # port

\* Before the first look a tool of a section is an error, and what a distro did not
\* answer is never taken for "not installed", for an empty log or for a path.
ErrorsAreErrors ==
  /\ \A tool \in OverviewTools \ {"GetDistros", "GetSelectedDistro"} :
       CallOverview(Build, tool).isError = (dash = None)
  /\ GetCommandResolution(Build, None).isError
  /\ \A path \in {"linux", "windows", "neither"} :
       GetPathMapping(Build, path, [linux |-> "windows", windows |-> "linux"]).isError
         = (selected = None \/ path = "neither")
  /\ selected # None =>
       GetServiceLog(Build, [lines |-> <<>>, error |-> "text"]).summary = "text"

\* What the MCP tools answer is no secret, no more than was read, and never a part of a
\* directory tree that passes for the whole.
ToolsKeepTheirWord == SecretsStay /\ FactsOrNothing /\ ErrorsAreErrors /\ TreeTells
=============================================================================
