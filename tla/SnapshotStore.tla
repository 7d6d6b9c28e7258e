---------------------------- MODULE SnapshotStore ----------------------------
(***************************************************************************)
(* The main process' single source of truth, src/main/state/store.ts: the  *)
(* distro list, the selected distro and its dashboard sections, the three  *)
(* collection tiers, the liveness gate in front of every in-distro         *)
(* collector, the runner-failure list, and the snapshot handed to          *)
(* subscribers.                                                            *)
(*                                                                         *)
(* Main is single-threaded: a step of this module is what runs between two *)
(* awaits.  The code of such a step is a chain of method calls on the      *)
(* store, so each method is an operator from a store value to a store      *)
(* value, and an action composes the methods its handler calls.            *)
(*                                                                         *)
(* The collectors differ only in tier, host or in-distro, and what they    *)
(* fill; one of each kind stands for the 24 of the code.                   *)
(***************************************************************************)
EXTENDS Integers, SequencesExt

CONSTANTS
  Distros,        \* names WSL may list
  DefaultDistro,  \* the one `wsl --list` marks as default
  StartStates,    \* states a distro may be in when the app starts
  Collectors,     \* the collectors an instance has, at most one of each kind
  None,           \* null
  Trust,          \* PROBE_TRUST_MS, in ticks
  BackoffBase,    \* PROBE_BACKOFF_BASE_MS, in ticks
  BackoffMax,     \* PROBE_BACKOFF_MAX_MS, in ticks
  MaxTracked,     \* MAX_TRACKED_RUNNER_FAILURES
  MaxWarned,      \* MAX_RUNNER_WARNINGS
  MaxProbeFailures, \* bound: where the failure counter stops counting
  Budgets         \* bound: how often what comes from outside may happen, one record a
                  \* scenario: changes of WSL itself, collector failures not caused by
                  \* a wedged distro (faults), switches by the user (selects), console,
                  \* explorer and MCP reports (contexts), quitting (disposals)

ASSUME DistroAssumption == DefaultDistro \in Distros /\ None \notin Distros
ASSUME ProbeAssumption ==
  /\ {Trust, BackoffBase, BackoffMax, MaxProbeFailures} \subseteq Nat \ {0}
  /\ BackoffBase <= BackoffMax
\* True of every bound; stated because the provers have no theory of ^.
ASSUME PowerAssumption == \A k \in 0..MaxProbeFailures : 2 ^ k \in Nat
ASSUME StartAssumption == StartStates \subseteq {"Absent", "Stopped", "Running"}
ASSUME TrackedAssumption == {MaxTracked, MaxWarned} \subseteq Nat \ {0}
ASSUME BoundAssumption ==
  Budgets \subseteq [{"changes", "faults", "selects", "contexts", "disposals"} -> Nat]

VARIABLES
  store,   \* the SnapshotStore object
  calls,   \* collectors in flight: [tier, cmd, distro, epoch, seen]
  probes,  \* [Tiers -> the distro its probe asks, or None]
  wsl,     \* WSL itself: the state of every distro
  wedged,  \* distros that accept a connection and then answer nothing
  budget   \* what is left of the bounds above

vars == <<store, calls, probes, wsl, wedged, budget>>

Tiers == {"fast", "medium", "slow"}
ASSUME TierAssumption == None \notin Tiers   \* null is not a tier
DistroState == {"Absent", "Stopped", "Running"}

HostCommands(t) ==
  Collectors \intersect
    CASE t = "fast" -> {"netstat"} [] t = "medium" -> {"firewall"} [] t = "slow" -> {}
DistroCommands(t) ==
  Collectors \intersect
    CASE t = "fast" -> {"ports"} [] t = "medium" -> {"services"} [] t = "slow" -> {"details"}
InDistro == {"ports", "services", "details"}
Commands == {"list", "netstat", "firewall"} \union InDistro

-----------------------------------------------------------------------------
(* The store value *)

FreshProbe == [failures |-> 0, until |-> 0, trusted |-> 0, everAlive |-> FALSE]

\* sectionsFor: a new selection starts with empty sections.
SectionsFor(st, d) ==
  [state |-> st.distros[d], data |-> [c \in InDistro |-> None], ports |-> "pending"]

IdleTier == [pc |-> "idle", distro |-> None, epoch |-> 0, on |-> None]

Selected(st) == st.selected # None

\* computeWarnings, the rules that read store state rather than collected facts.
ComputeWarnings(st) ==
  LET n == Len(st.failures) IN
  [stopped      |-> Selected(st) /\ st.distros[st.selected] = "Stopped",
   unresponsive |-> Selected(st) /\ st.probe.failures > 0,
   failed       |-> {st.failures[i] : i \in {j \in 1..n : j > n - MaxWarned}},
   mcp          |-> st.mcpError,
   crossing     |-> st.cwd = "windows"]

Recompute(st) == [st EXCEPT !.warnings = ComputeWarnings(st)]

Answering(st) ==
  IF st.probe.failures > 0 THEN "no" ELSE IF st.probe.everAlive THEN "yes" ELSE "unknown"

\* build
Build(st) ==
  [selected |-> st.selected, distros |-> st.distros, sections |-> st.sections,
   answering |-> IF Selected(st) THEN Answering(st) ELSE "unknown",
   warnings |-> st.warnings]

Commit(st) == [st EXCEPT !.current = Build(st), !.behind = TRUE]

\* emit: commit, then hand the snapshot to the subscribers (none once disposed).
Emit(st) == [Commit(st) EXCEPT !.behind = st.disposed]

Without(s, cmd) ==
  IF \E i \in 1..Len(s) : s[i] = cmd
  THEN RemoveAt(s, CHOOSE i \in 1..Len(s) : s[i] = cmd) ELSE s

NoteRunnerFailure(st, cmd) ==
  LET all == Append(Without(st.failures, cmd), cmd)
      kept == IF Len(all) > MaxTracked THEN Tail(all) ELSE all
  IN  Commit(Recompute([st EXCEPT !.failures = kept]))

ClearRunnerFailure(st, cmd) ==
  IF \E i \in 1..Len(st.failures) : st.failures[i] = cmd
  THEN Recompute([st EXCEPT !.failures = Without(@, cmd)]) ELSE st

SelectInternal(st, d) ==
  [st EXCEPT !.selected = d, !.sections = SectionsFor(st, d), !.epoch = @ + 1,
             !.failures = <<>>, !.probe = FreshProbe]

RunningSelected(st) ==
  IF Selected(st) /\ st.distros[st.selected] = "Running" THEN st.selected ELSE None

\* Mutated form: once a distro is selected the list is not looked at again.
ApplyDistroListOnce(st, list, first) ==
  IF Selected(st) THEN st ELSE SelectInternal([st EXCEPT !.distros = list], first)

\* applyDistroList: keep a selection that is still listed, else the default,
\* else the first of the list ("first" is what the caller of wsl.exe got first).
ApplyDistroList(st, list, first) ==
  LET now == [st EXCEPT !.distros = list]
      kept == Selected(st) /\ list[st.selected] # "Absent"
  IN  IF kept THEN [now EXCEPT !.sections.state = list[st.selected]]
      ELSE IF \A d \in Distros : list[d] = "Absent"
      THEN [now EXCEPT !.selected = None, !.sections = None]
      ELSE SelectInternal(now, IF list[DefaultDistro] # "Absent" THEN DefaultDistro ELSE first)

-----------------------------------------------------------------------------
(* A tier is its cycle's state in the store plus its calls in flight.  The  *)
(* operators from here on map [st, calls, probes] "m" to the same.          *)

Busy(m, t) == m.st.tier[t].pc # "idle"
CallsOf(m, t) == {c \in m.calls : c.tier = t}

OnStore(m, st) == [m EXCEPT !.st = st]

\* `seen`: WSL as it is when the call is issued, for the calls that report it.
Call(t, cmd, d, e) ==
  [tier |-> t, cmd |-> cmd, distro |-> d, epoch |-> e,
   seen |-> IF cmd \in {"list", "details"} THEN wsl ELSE None]

Issue(m, t, cmds) ==
  [m EXCEPT !.calls =
    @ \union {Call(t, cmd, m.st.tier[t].distro, m.st.tier[t].epoch) : cmd \in cmds}]

\* Mutated form: a tier ends without publishing.
FinishTierSilently(m, t) == OnStore(m, [Recompute(m.st) EXCEPT !.tier[t] = IdleTier])

\* The end of every tier: recomputeWarnings, emit, inFlight = false.
FinishTier(m, t) ==
  OnStore(m, [Emit(Recompute(m.st)) EXCEPT !.tier[t] = IdleTier])

FinishIfDone(m, t) ==
  IF m.st.tier[t].pc = "collect" /\ CallsOf(m, t) = {} THEN FinishTier(m, t) ELSE m

\* After the gate: all in-distro collectors at once, or none.
Proceed(m, t, alive) ==
  LET collecting == OnStore(m, [m.st EXCEPT !.tier[t] = [@ EXCEPT !.pc = "collect", !.on = None]])
  IN  FinishIfDone(IF alive THEN Issue(collecting, t, DistroCommands(t)) ELSE collecting, t)

SendProbe(m, t) ==
  LET asked == OnStore(m, [m.st EXCEPT !.probing = t])
      waits == OnStore(asked, [asked.st EXCEPT !.tier[t] = [@ EXCEPT !.pc = "gate", !.on = t]])
  IN  [waits EXCEPT !.probes[t] = m.st.tier[t].distro]

\* Mutated form: a probe already in flight is not shared.
GateUnshared(m, t) ==
  IF m.st.probe.trusted > 0 THEN Proceed(m, t, TRUE)
  ELSE IF m.st.probe.until > 0 THEN Proceed(m, t, FALSE)
  ELSE SendProbe(m, t)

\* distroResponsive: a recent success, a backoff still running, the probe some
\* tier already has in flight, or a probe of its own.
Gate(m, t) ==
  IF m.st.probe.trusted > 0 THEN Proceed(m, t, TRUE)
  ELSE IF m.st.probe.until > 0 THEN Proceed(m, t, FALSE)
  ELSE IF m.st.probing # None
  THEN OnStore(m, [m.st EXCEPT !.tier[t] = [@ EXCEPT !.pc = "gate", !.on = m.st.probing]])
  ELSE SendProbe(m, t)

\* A tier's work once the list is known: the distro and its sections are
\* captured here, host collectors start, and the gate decides on the rest.
TierBody(m, t) ==
  LET d == RunningSelected(m.st)
      begun == OnStore(m, [m.st EXCEPT !.tier[t] =
                 [pc |-> "begun", distro |-> d, epoch |-> m.st.epoch, on |-> None]])
  IN  IF d = None THEN FinishTier(m, t) ELSE Gate(Issue(begun, t, HostCommands(t)), t)

\* refreshFast, refreshMedium, refreshSlow up to their first await.
Refresh(m, t) ==
  IF m.st.disposed \/ Busy(m, t) THEN m
  ELSE IF t = "fast"
  THEN Issue(OnStore(m, [m.st EXCEPT !.tier[t] = [IdleTier EXCEPT !.pc = "list"]]), t, {"list"})
  ELSE TierBody(m, t)

Memory == [st |-> store, calls |-> calls, probes |-> probes]

Become(m) == store' = m.st /\ calls' = m.calls /\ probes' = m.probes

-----------------------------------------------------------------------------
(* Actions *)

\* A refresh timer of the polling scheduler, the refresh button or the tray.
Poll(t) ==
  /\ Become(Refresh(Memory, t))
  /\ UNCHANGED <<wsl, wedged, budget>>

SetDistro(d) ==
  /\ budget.selects > 0
  /\ store.distros[d] # "Absent" /\ d # store.selected
  /\ LET chosen == OnStore(Memory, Emit(Recompute(SelectInternal(store, d))))
     IN  Become(Refresh(Refresh(Refresh(chosen, "fast"), "medium"), "slow"))
  /\ budget' = [budget EXCEPT !.selects = @ - 1]
  /\ UNCHANGED <<wsl, wedged>>

\* What a call that reports WSL's state may have read while it ran.
Read(c) == {c.seen, wsl}

Return(c) == [Memory EXCEPT !.calls = @ \ {c}]

\* After the list call: initialize ends, refreshFast goes on with its body.
AfterList(m, t) ==
  IF t = "init" THEN OnStore(m, Emit(Recompute(m.st))) ELSE TierBody(m, t)

ListReply(c) ==
  /\ c.cmd = "list"
  /\ \E list \in Read(c), first \in Distros :
       /\ list[first] # "Absent" \/ \A d \in Distros : list[d] = "Absent"
       /\ Become(AfterList(
            OnStore(Return(c),
                    ClearRunnerFailure(ApplyDistroList(store, list, first), "list")), c.tier))
  /\ UNCHANGED <<wsl, wedged, budget>>

ListFailure(c) ==
  /\ c.cmd = "list"
  /\ budget.faults > 0
  /\ Become(AfterList(OnStore(Return(c), NoteRunnerFailure(store, "list")), c.tier))
  /\ budget' = [budget EXCEPT !.faults = @ - 1]
  /\ UNCHANGED <<wsl, wedged>>

\* What an apply callback writes into a sections object.
Fill(sections, c, reported) ==
  LET filled == [sections EXCEPT !.data[c.cmd] = c.distro] IN
  CASE c.cmd = "ports" -> [filled EXCEPT !.ports = "succeeded"]
    [] c.cmd = "services" -> filled
    [] c.cmd = "details" ->
         [filled EXCEPT !.state = IF reported = "Absent" THEN "Unknown" ELSE reported]

\* Mutated form: the callback writes this.sections instead of the captured object.
ApplyResultUncaptured(st, c, reported) ==
  IF c.cmd \notin InDistro \/ st.sections = None THEN st
  ELSE [st EXCEPT !.sections = Fill(@, c, reported)]

\* It writes the object captured together with the distro; once another distro
\* is selected nothing refers to that object any more.
ApplyResult(st, c, reported) ==
  IF c.cmd \notin InDistro \/ st.sections = None \/ c.epoch # st.epoch THEN st
  ELSE [st EXCEPT !.sections = Fill(@, c, reported)]

\* Running a command in a stopped distro starts it.
Woken(d) == [wsl EXCEPT ![d] = IF @ = "Stopped" THEN "Running" ELSE @]

CollectorReply(c) ==
  /\ c.cmd # "list"
  /\ c.cmd \in InDistro => c.distro \notin wedged /\ wsl[c.distro] # "Absent"
  /\ \E list \in (IF c.cmd = "details" THEN Read(c) ELSE {wsl}) :
       Become(FinishIfDone(
         OnStore(Return(c),
                 ClearRunnerFailure(ApplyResult(store, c, list[c.distro]), c.cmd)), c.tier))
  /\ wsl' = IF c.cmd \in InDistro THEN Woken(c.distro) ELSE wsl
  /\ UNCHANGED <<wedged, budget>>

\* Mutated form: a failure overrides an earlier success.
MarkFailedAlways(st, c) ==
  IF c.cmd = "ports" /\ st.sections # None /\ c.epoch = st.epoch
  THEN [st EXCEPT !.sections.ports = "failed"] ELSE st

\* onFailure: a section that never succeeded is marked failed.
MarkFailed(st, c) ==
  IF c.cmd = "ports" /\ st.sections # None /\ c.epoch = st.epoch /\ st.sections.ports # "succeeded"
  THEN [st EXCEPT !.sections.ports = "failed"] ELSE st

CollectorFailure(c) ==
  LET forced == c.cmd \in InDistro /\ (c.distro \in wedged \/ wsl[c.distro] = "Absent") IN
  /\ c.cmd # "list"
  /\ forced \/ budget.faults > 0
  /\ Become(FinishIfDone(
       OnStore(Return(c), NoteRunnerFailure(MarkFailed(store, c), c.cmd)), c.tier))
  /\ budget' = IF forced THEN budget ELSE [budget EXCEPT !.faults = @ - 1]
  /\ UNCHANGED <<wsl, wedged>>

\* runProbe after its await.
ProbeAnswered(st) ==
  LET alive == [st EXCEPT !.probe = [failures |-> 0, until |-> 0, trusted |-> Trust,
                                     everAlive |-> TRUE]]
  IN  IF st.probe.failures > 0 THEN Recompute(alive) ELSE alive

\* PROBE_BACKOFF_BASE_MS * 2 ** (failures - 1), at most PROBE_BACKOFF_MAX_MS.
Backoff(failures) ==
  LET doubled == BackoffBase * 2 ^ (failures - 1)
  IN  IF doubled < BackoffMax THEN doubled ELSE BackoffMax

ProbeUnanswered(st) ==
  LET n == IF st.probe.failures < MaxProbeFailures THEN st.probe.failures + 1
           ELSE MaxProbeFailures
  IN  Recompute([st EXCEPT !.probe = [failures |-> n, until |-> Backoff(n), trusted |-> 0,
                                      everAlive |-> st.probe.everAlive]])

ResumeWaiter(m, t, u, alive) ==
  IF m.st.tier[u].pc = "gate" /\ m.st.tier[u].on = t THEN Proceed(m, u, alive) ELSE m

ProbeSettles(t) ==
  LET d == probes[t]
      alive == d \notin wedged /\ wsl[d] # "Absent"
      known == IF alive THEN ProbeAnswered(store) ELSE ProbeUnanswered(store)
      done == [OnStore(Memory, [known EXCEPT !.probing = None]) EXCEPT !.probes[t] = None]
  IN  /\ d # None
      /\ Become(ResumeWaiter(ResumeWaiter(ResumeWaiter(done, t, "fast", alive),
                                          t, "medium", alive), t, "slow", alive))
      /\ wsl' = IF alive THEN Woken(d) ELSE wsl
      /\ UNCHANGED <<wedged, budget>>

\* One tick of Date.now(), seen only through the probe's two deadlines.
Tick ==
  /\ store.probe.until > 0 \/ store.probe.trusted > 0
  /\ store' = [store EXCEPT !.probe.until = IF @ > 0 THEN @ - 1 ELSE 0,
                            !.probe.trusted = IF @ > 0 THEN @ - 1 ELSE 0]
  /\ UNCHANGED <<calls, probes, wsl, wedged, budget>>

\* setTerminalContext commits and emits; it does not recompute the warnings.
SetTerminalContext(cwd) ==
  /\ budget.contexts > 0 /\ cwd # store.cwd
  /\ store' = Emit([store EXCEPT !.cwd = cwd])
  /\ budget' = [budget EXCEPT !.contexts = @ - 1]
  /\ UNCHANGED <<calls, probes, wsl, wedged>>

SetMcpStatus(error) ==
  /\ budget.contexts > 0 /\ error # store.mcpError
  /\ store' = Emit(Recompute([store EXCEPT !.mcpError = error]))
  /\ budget' = [budget EXCEPT !.contexts = @ - 1]
  /\ UNCHANGED <<calls, probes, wsl, wedged>>

\* setExplorerContext: the explorer fields are plain data, the emit is not.
SetExplorerContext ==
  /\ budget.contexts > 0
  /\ store' = Emit(store)
  /\ budget' = [budget EXCEPT !.contexts = @ - 1]
  /\ UNCHANGED <<calls, probes, wsl, wedged>>

Dispose ==
  /\ budget.disposals > 0 /\ ~store.disposed
  /\ store' = [store EXCEPT !.disposed = TRUE]
  /\ budget' = [budget EXCEPT !.disposals = @ - 1]
  /\ UNCHANGED <<calls, probes, wsl, wedged>>

\* The environment: distros come, go, stop and start, wedge and recover.
ChangeWsl(d, s) ==
  /\ budget.changes > 0 /\ wsl[d] # s
  /\ wsl' = [wsl EXCEPT ![d] = s]
  /\ budget' = [budget EXCEPT !.changes = @ - 1]
  /\ UNCHANGED <<store, calls, probes, wedged>>

ToggleWedge(d) ==
  /\ budget.changes > 0
  /\ wedged' = IF d \in wedged THEN wedged \ {d} ELSE wedged \union {d}
  /\ budget' = [budget EXCEPT !.changes = @ - 1]
  /\ UNCHANGED <<store, calls, probes, wsl>>

-----------------------------------------------------------------------------

NoDistros == [d \in Distros |-> "Absent"]

\* initialize has issued its list call; there is no selection yet.
InitStore ==
  LET st == [distros |-> NoDistros, selected |-> None, sections |-> None, epoch |-> 0,
             warnings |-> None, failures |-> <<>>, probe |-> FreshProbe, probing |-> None,
             tier |-> [t \in Tiers |-> IdleTier], cwd |-> "linux", mcpError |-> FALSE,
             disposed |-> FALSE, current |-> None, behind |-> FALSE]
      ready == Recompute(st)
  IN  [ready EXCEPT !.current = Build(ready)]

Init ==
  /\ wsl \in [Distros -> StartStates]
  /\ wedged = {}
  /\ store = InitStore
  /\ calls = {Call("init", "list", None, 0)}
  /\ probes = [t \in Tiers |-> None]
  /\ budget \in Budgets

Reply(c) == ListReply(c) \/ ListFailure(c) \/ CollectorReply(c) \/ CollectorFailure(c)

Next ==
  \/ \E t \in Tiers : Poll(t)
  \/ \E d \in Distros : SetDistro(d)
  \/ \E c \in calls : ListReply(c)
  \/ \E c \in calls : ListFailure(c)
  \/ \E c \in calls : CollectorReply(c)
  \/ \E c \in calls : CollectorFailure(c)
  \/ \E t \in Tiers : ProbeSettles(t)
  \/ Tick
  \/ \E cwd \in {"linux", "windows"} : SetTerminalContext(cwd)
  \/ \E error \in BOOLEAN : SetMcpStatus(error)
  \/ SetExplorerContext
  \/ Dispose
  \/ \E d \in Distros, s \in DistroState : ChangeWsl(d, s)
  \/ \E d \in Distros : ToggleWedge(d)

Spec == Init /\ [][Next]_vars

(***************************************************************************)
(* Every call settles: the runner kills a command at its timeout, and a    *)
(* collector then rejects.  The timers of the scheduler keep firing.  Each *)
(* conjunct is weak fairness with ENABLED written out, which TLC would     *)
(* otherwise evaluate through the whole chain of store methods.            *)
(***************************************************************************)
\* A refresh that does not return at once and finds something to do.
PollStarts(t) ==
  /\ ~store.disposed /\ store.tier[t].pc = "idle"
  /\ t = "fast" \/ (RunningSelected(store) # None /\ store.probe.until = 0)

InFlight(t, cmd) == \E c \in calls : c.tier = t /\ c.cmd = cmd

Fairness ==
  /\ \A t \in Tiers : []<>~PollStarts(t) \/ []<><<Poll(t)>>_vars
  /\ \A t \in Tiers : []<>(probes[t] = None) \/ []<><<ProbeSettles(t)>>_vars
  /\ \A t \in Tiers \union {"init"}, cmd \in Commands :
       []<>~InFlight(t, cmd) \/ []<><<\E c \in calls : c.tier = t /\ c.cmd = cmd /\ Reply(c)>>_vars
  /\ WF_vars(Tick)

FairSpec == Spec /\ Fairness

-----------------------------------------------------------------------------
(* Types *)

MaybeDistro == Distros \union {None}
SectionsType ==
  [state : DistroState \union {"Unknown"}, data : [InDistro -> MaybeDistro],
   ports : {"pending", "succeeded", "failed"}]
ASSUME NullAssumption == None \notin SectionsType   \* null is not an object

ProbeType ==
  [failures : 0..MaxProbeFailures, until : 0..BackoffMax, trusted : 0..Trust,
   everAlive : BOOLEAN]
TierType ==
  [pc : {"idle", "list", "begun", "gate", "collect"}, distro : MaybeDistro, epoch : Nat,
   on : Tiers \union {None}]
WarningsType ==
  [stopped : BOOLEAN, unresponsive : BOOLEAN, failed : SUBSET Commands, mcp : BOOLEAN,
   crossing : BOOLEAN]
SnapshotType ==
  [selected : MaybeDistro, distros : [Distros -> DistroState],
   sections : SectionsType \union {None}, answering : {"yes", "no", "unknown"},
   warnings : WarningsType]
StoreType ==
  [distros : [Distros -> DistroState], selected : MaybeDistro,
   sections : SectionsType \union {None}, epoch : Nat, warnings : WarningsType,
   failures : Seq(Commands), probe : ProbeType, probing : Tiers \union {None},
   tier : [Tiers -> TierType], cwd : {"linux", "windows"}, mcpError : BOOLEAN,
   disposed : BOOLEAN, current : SnapshotType, behind : BOOLEAN]
CallType ==
  {c \in [tier : Tiers \union {"init"}, cmd : Commands, distro : MaybeDistro, epoch : Nat,
          seen : [Distros -> DistroState] \union {None}] :
     /\ c.cmd \in {"list", "details"} => c.seen \in [Distros -> DistroState]
     /\ c.tier = "init" => c.cmd = "list"}

\* The store's types, the cap on tracked runner failures, and sections exactly
\* while a distro is selected.
StoreOK(st) ==
  /\ st \in StoreType
  /\ Len(st.failures) <= MaxTracked
  /\ st.selected = None <=> st.sections = None

TypeOK ==
  /\ StoreOK(store)
  /\ calls \in SUBSET CallType
  /\ probes \in [Tiers -> MaybeDistro]
  /\ wsl \in [Distros -> DistroState]
  /\ wedged \in SUBSET Distros

-----------------------------------------------------------------------------
(* Safety *)

\* Whatever the order in which tiers, switches and replies interleave, the
\* dashboard never shows a section read from another distro than the selected
\* one: each apply callback writes the object captured together with its distro.
SectionsFromSelected ==
  store.sections # None =>
    \A c \in InDistro : store.sections.data[c] \in {None, store.selected}

\* "Tiers overlap; one probe per cycle answers all of them": never two probes
\* of the liveness gate in flight, and probeInFlight is the one that is.
OneProbeInFlight ==
  \A t \in Tiers : probes[t] # None <=> store.probing = t

Quiet == calls = {} /\ \A t \in Tiers : probes[t] = None

\* Once nothing is in flight, get() and every subscriber hold the state the
\* store is in: a change made on the way (runner failures are committed without
\* an emit, the probe verdict is not even committed) is never left unpublished.
QuietSnapshotPublished ==
  Quiet /\ ~store.disposed =>
    /\ ~store.behind
    /\ store.current = Build(store)
    /\ store.warnings = [ComputeWarnings(store) EXCEPT !.crossing = store.warnings.crossing]

\* A later failure keeps the last good read: within one selection a section that
\* was filled is never emptied, and ports never go back from "succeeded".
KeepsLastGood ==
  [][store.sections # None /\ store'.epoch = store.epoch /\ store'.sections # None =>
       /\ \A c \in InDistro :
            store.sections.data[c] # None => store'.sections.data[c] # None
       /\ store.sections.ports = "succeeded" => store'.sections.ports = "succeeded"]_vars

-----------------------------------------------------------------------------
(* Liveness *)

\* What the store shows once the world stops changing under it.
Settled ==
  LET d == store.selected IN
  /\ store.distros = wsl
  /\ d = None <=> \A x \in Distros : wsl[x] = "Absent"
  /\ d # None /\ wsl[d] = "Running" =>
       /\ store.sections.state = "Running"
       /\ d \in wedged => store.probe.failures > 0 /\ store.warnings.unresponsive
       /\ d \notin wedged =>
            /\ store.probe.failures = 0 /\ ~store.warnings.unresponsive
            /\ store.failures = <<>>
            /\ \A c \in InDistro \intersect Collectors : store.sections.data[c] = d

\* However switches, failed collectors, wedges and stops interleaved, polling
\* ends with the true list, a selection if there is one to make, full sections
\* and no leftover failure for a distro that answers, and a standing warning
\* for one that does not.
Converges == <>[](store.disposed \/ Settled)
=============================================================================
