----------------------------- MODULE Diagnostics -----------------------------
(***************************************************************************)
(* DiagnosticsService (main/state/diagnostics.ts): the log of incidents    *)
(* derived from the snapshots the store publishes, from sleep and resume,  *)
(* and from the checks the user starts; with runNetworkCheck               *)
(* (wsl/network-check.ts) and buildRecoveryCheck (state/recovery.ts).      *)
(*                                                                         *)
(* Probes take time; snapshots are published and Windows sleeps meanwhile. *)
(***************************************************************************)
EXTENDS Naturals, FiniteSets, SequencesExt

CONSTANTS
  Distros, Nil,
  Modes, Resolvers,  \* networking modes, and contents of /etc/resolv.conf
  MaxIncidents,      \* MAX_INCIDENTS
  MaxFailures,       \* bound: how many probes of a check fail
  Budgets            \* bounds: sets of records, how often each thing happens

Things == {"publish", "power", "check"}
ASSUME DiagnosticsAssumption ==
  /\ Nil \notin Distros /\ Nil \notin Modes /\ Nil \notin Resolvers
  /\ MaxIncidents \in Nat \ {0} /\ MaxFailures \in Nat /\ Budgets \subseteq [Things -> Nat]

VARIABLES
  snapshot,   \* the store's, as far as diagnostics reads it
  late,       \* the distro a probe begun before a switch still asks, or Nil
  previous, suspended, resumedAt,  \* the service's fields of the same names
  incidents, nextId,
  last,       \* lastNetworkCheck and lastRecoveryCheck
  flights,    \* checkInFlight and recoveryInFlight, with what they captured
  happened,   \* history: what changed while its distro stayed selected
  clock,      \* history: how often Windows went to sleep or woke up
  budget

service == <<previous, suspended, resumedAt, incidents, nextId, last, flights>>
vars == <<snapshot, late, service, happened, clock, budget>>

Spend(thing) == budget[thing] > 0 /\ budget' = [budget EXCEPT ![thing] = @ - 1]

-----------------------------------------------------------------------------
(* What is observed, and what is logged of it *)

StepIds == {"reload-window", "restart-vscode-server", "terminate-distro", "shutdown-wsl"}

Facets == {"distro-state", "liveness", "network-mode", "dns", "console"}
ConsoleFailures == {"start-failed", "distro-stopped"}
Answers == {"alive", "silent"}  \* of a probe
Consoles == ConsoleFailures \union {"disconnected", "ready"}  \* the first for all others

ObserveState(s) ==
  [distro |-> s.selected,
   facts |-> [f \in Facets |->
     CASE f = "distro-state" -> IF s.selected = Nil THEN Nil ELSE s.states[s.selected]
       [] f = "console" -> s.console.status
       [] OTHER -> s.dash[f]]]

Incident(kind, distro, from, to) == [kind |-> kind, distro |-> distro, from |-> from, to |-> to]

AnswersAgain(was, is) == was = "silent" /\ is = "alive"

\* The kind of incident a change of a facet is, if it is one.
Recovered(was, is) == was \in ConsoleFailures /\ is = "ready"
KindOf(f, was, is) ==
  CASE f = "liveness" /\ was = "alive" /\ is = "silent" -> "distro-unresponsive"
    [] f = "liveness" /\ AnswersAgain(was, is) -> "distro-recovered"
    [] f = "console" /\ was \notin ConsoleFailures /\ is \in ConsoleFailures -> "console-failed"
    [] f = "console" /\ Recovered(was, is) -> "console-recovered"
    [] f \in {"distro-state", "network-mode", "dns"} /\ was # is /\ Nil \notin {was, is} -> f
    [] OTHER -> Nil

Selected(d) == IF d = Nil THEN <<>> ELSE <<Incident("distro-selected", d, Nil, Nil)>>

Change(f, prev, next) ==
  LET kind == KindOf(f, prev.facts[f], next.facts[f])
  IN IF kind = Nil THEN <<>>
     ELSE <<Incident(kind, next.distro, prev.facts[f], next.facts[f])>>

ChangesOf(prev, next) ==
  IF next.distro = Nil THEN <<>>
  ELSE Change("distro-state", prev, next) \o Change("liveness", prev, next)
         \o Change("network-mode", prev, next) \o Change("dns", prev, next)
         \o Change("console", prev, next)

\* (mutated form: a change of distro is compared like any other)
MutantObserved(prev, next) ==
  IF prev = Nil THEN <<Incident("monitoring-started", Nil, Nil, Nil)>> \o Selected(next.distro)
  ELSE (IF prev.distro # next.distro THEN Selected(next.distro) ELSE <<>>) \o ChangesOf(prev, next)
\* observe: what a snapshot adds to the log, oldest first.
Observed(prev, next) ==
  IF prev = Nil THEN <<Incident("monitoring-started", Nil, Nil, Nil)>> \o Selected(next.distro)
  ELSE IF prev.distro # next.distro THEN Selected(next.distro)
  ELSE ChangesOf(prev, next)

Capped(seq) == SubSeq(seq, 1, IF Len(seq) < MaxIncidents THEN Len(seq) ELSE MaxIncidents)

\* add, for each of the events: newest first, numbered, and no more than the cap.
Add(events) ==
  LET numbered == [i \in DOMAIN events |-> [id |-> nextId + i - 1, event |-> events[i]]]
  IN /\ incidents' = Capped(Reverse(numbered) \o incidents)
     /\ nextId' = nextId + Len(events)

-----------------------------------------------------------------------------
(* The store publishes: one thing changes at a time, and is observed at once *)

Unknown == [f \in {"liveness", "network-mode", "dns"} |-> Nil]

\* Whose answer a facet is: the store keeps the last answer to a probe and the last
\* event of a console, whichever distro they are of.
Of(f, s) == CASE f = "liveness" -> s.probed [] f = "console" -> s.console.distro [] OTHER -> s.selected

\* The facts of two snapshots of one distro; own: neither tells of another distro.
Differences(was, is) ==
  IF was.selected # is.selected THEN {}
  ELSE {[facet |-> f, distro |-> is.selected, from |-> ObserveState(was).facts[f],
         to |-> ObserveState(is).facts[f],
         own |-> Of(f, was) \in {Nil, is.selected} /\ Of(f, is) = is.selected] : f \in Facets}

Publish(s) ==
  /\ Spend("publish")
  /\ snapshot' = s
  /\ LET next == ObserveState(s)
     IN Add(Observed(previous, next)) /\ previous' = next
  /\ happened' = happened \union Differences(snapshot, s)
  /\ UNCHANGED <<suspended, resumedAt, last, flights, clock>>

\* The first emission, and those that change nothing diagnostics looks at.
Refresh == previous = Nil /\ Publish(snapshot) /\ UNCHANGED late

\* A selection starts with nothing known but the list of distros; the console of
\* before and a probe in flight stay.
SelectDistro(d) ==
  /\ d # snapshot.selected
  /\ late' \in IF late = Nil THEN {Nil, snapshot.selected} ELSE {late}
  /\ Publish([snapshot EXCEPT !.selected = d, !.dash = Unknown, !.probed = Nil, !.servers = {}])

DistroState(d, state) ==
  /\ state # snapshot.states[d]
  /\ Publish([snapshot EXCEPT !.states[d] = state])
  /\ UNCHANGED late

Collected(f, value) ==
  /\ snapshot.selected # Nil /\ snapshot.states[snapshot.selected] = "Running"
  /\ value # snapshot.dash[f]
  /\ Publish([snapshot EXCEPT !.dash[f] = value])
  /\ UNCHANGED late

\* One probe is in flight at a time, and its answer is kept whoever is selected by then.
Probed(d, answer) ==
  Publish([snapshot EXCEPT !.dash["liveness"] = answer, !.probed = d])

Probe(answer) ==
  /\ late = Nil /\ snapshot.selected # Nil /\ snapshot.states[snapshot.selected] = "Running"
  /\ Probed(snapshot.selected, answer)
  /\ UNCHANGED late

LateProbe(answer) ==
  /\ late # Nil /\ snapshot.selected # Nil
  /\ Probed(late, answer)
  /\ late' = Nil

\* Any distro's console reports, not only the selected one's.
ConsoleStatus(d, status) ==
  /\ [distro |-> d, status |-> status] # snapshot.console
  /\ Publish([snapshot EXCEPT !.console = [distro |-> d, status |-> status]])
  /\ UNCHANGED late

\* getProcesses finds processes of VS Code Server: parents ("server-main") or children.
Server(d, role) == [distro |-> d, role |-> role]
ServersFound(roles) ==
  /\ snapshot.selected # Nil /\ snapshot.states[snapshot.selected] = "Running"
  /\ Publish([snapshot EXCEPT !.servers = {Server(snapshot.selected, r) : r \in roles}])
  /\ UNCHANGED late

\* recordPower
Power(kind) ==
  /\ Spend("power")
  /\ kind = "power-resume" <=> clock % 2 = 1
  /\ clock' = clock + 1
  /\ IF kind = "power-suspend"
     THEN suspended' = ObserveState(snapshot) /\ UNCHANGED resumedAt
     ELSE resumedAt' = clock' /\ UNCHANGED suspended
  /\ Add(<<Incident(kind, snapshot.selected, Nil, Nil)>>)
  /\ UNCHANGED <<snapshot, late, previous, last, flights, happened>>

-----------------------------------------------------------------------------
(* Checks *)

InDistro == {"distro", "wsl-dns", "default-route"}
Probes(port) == InDistro \union {"windows-dns"} \union IF port THEN {"windows-localhost"} ELSE {}

StateIn(s) == IF s.selected = Nil THEN Nil ELSE s.states[s.selected]

\* What runNetworkCheck may come back with: what cannot be run in the distro is
\* unknown; a probe that runs passes, or fails, or runs into its limit of time.
NetworkResults(flight) ==
  LET ids == Probes(flight.port)
      canRun == StateIn(flight.snapshot) = "Running"
  IN {p \in [ids -> {"pass", "fail", "unknown"}] :
        /\ Cardinality({id \in ids : p[id] = "fail"}) <= MaxFailures
        /\ \A id \in ids : (p[id] = "unknown") <=> (id \in InDistro /\ ~canRun)}

Failed(probes) == {id \in DOMAIN probes : probes[id] = "fail"}
Severity(probes) == IF Failed(probes) # {} THEN "warning" ELSE "info"

\* "A live parent owns the remote session and is the narrowest useful target."
Targets(servers) ==
  LET mains == {p \in servers : p.role = "server-main"}
  IN IF mains # {} THEN mains ELSE servers

RecommendedStep(s, probes) ==
  IF \/ StateIn(s) # "Running" \/ s.dash["liveness"] = "silent"
     \/ \E id \in InDistro : probes[id] = "fail"
  THEN "terminate-distro"
  ELSE IF s.servers # {} /\ \A p \in s.servers : p.role # "server-main"
  THEN "restart-vscode-server"
  ELSE "reload-window"

\* statusFor, and the command: what it would stop.
Step(id, recommended, available, stops) ==
  [status |-> IF ~available THEN "unavailable" ELSE IF id = recommended THEN "recommended"
              ELSE IF id = "shutdown-wsl" THEN "last-resort" ELSE "available",
   stops |-> stops]

Steps(s, recommended) ==
  LET targets == Targets(s.servers)
  IN [id \in StepIds |->
        CASE id = "reload-window" -> Step(id, recommended, TRUE, {})
          [] id = "restart-vscode-server" -> Step(id, recommended, targets # {}, targets)
          [] id = "terminate-distro" -> Step(id, recommended, TRUE, {s.selected})
          [] id = "shutdown-wsl" -> Step(id, recommended, TRUE, Distros)]

\* resumeChanges: as of the snapshot the check began with.
ResumeChanges(s) ==
  LET after == ObserveState(s)
  IN IF Nil \in {suspended, resumedAt} \/ suspended.distro # after.distro THEN {}
     ELSE {f \in Facets : suspended.facts[f] # after.facts[f]}

\* (mutated form: the steps are for what is selected when the probes have ended)
MutantJudged(flight) == snapshot
Judged(flight) == flight.snapshot

\* buildRecoveryCheck; asOf and resumedAt tell what was compared with what.
BuildRecoveryCheck(flight, probes) ==
  LET s == Judged(flight)
      step == RecommendedStep(s, probes)
  IN [distro |-> flight.snapshot.selected, recommendedStep |-> step, steps |-> Steps(s, step),
      vscodeServerInstalled |-> s.servers # {}, began |-> flight.began,
      resumedAt |-> resumedAt, resumeChanges |-> ResumeChanges(s)]

Network(flight, probes) == [distro |-> flight.snapshot.selected, probes |-> probes]

\* A second call while one is under way is given the same promise.
RunCheck(kind, port) ==
  /\ flights[kind] = Nil /\ Spend("check")
  /\ flights' = [flights EXCEPT ![kind] = [snapshot |-> snapshot, port |-> port, began |-> clock]]
  /\ UNCHANGED <<snapshot, late, previous, suspended, resumedAt, incidents, nextId, last, happened,
                 clock>>

Shown(kind, flight, probes) ==
  [last EXCEPT !.network = Network(flight, probes),
               !.recovery = IF kind = "recovery-check"
                            THEN BuildRecoveryCheck(flight, probes) ELSE @]

\* (mutated form: a check that throws stays in flight)
MutantReleased(kind, ok) == IF ok THEN [flights EXCEPT ![kind] = Nil] ELSE flights
Released(kind, ok) == [flights EXCEPT ![kind] = Nil]

CheckDone(kind) ==
  LET flight == flights[kind]
  IN /\ flight # Nil
     /\ IF flight.snapshot.selected = Nil  \* 'No WSL distribution selected'
        THEN UNCHANGED <<last, incidents, nextId>> /\ flights' = Released(kind, FALSE)
        ELSE \E probes \in NetworkResults(flight) :
               /\ last' = Shown(kind, flight, probes)
               /\ Add(<<Incident(kind, flight.snapshot.selected, Severity(probes),
                                 Cardinality(Failed(probes)))>>)
               /\ flights' = Released(kind, TRUE)
     /\ UNCHANGED <<snapshot, late, previous, suspended, resumedAt, happened, clock, budget>>

-----------------------------------------------------------------------------

Init ==
  /\ snapshot \in [selected : Distros \union {Nil}, states : {[d \in Distros |-> "Running"]},
                  dash : {Unknown}, probed : {Nil},
                  console : {[distro |-> Nil, status |-> "disconnected"]}, servers : {{}}]
  /\ late = Nil
  /\ previous = Nil /\ suspended = Nil /\ resumedAt = Nil
  /\ incidents = <<>> /\ nextId = 1
  /\ last = [network |-> Nil, recovery |-> Nil]
  /\ flights = [k \in {"network-check", "recovery-check"} |-> Nil]
  /\ happened = {} /\ clock = 0 /\ budget \in Budgets

Published ==
  \/ Refresh
  \/ \E d \in Distros \union {Nil} : SelectDistro(d)
  \/ \E d \in Distros, state \in {"Running", "Stopped"} : DistroState(d, state)
  \/ \E answer \in Answers : Probe(answer) \/ LateProbe(answer)
  \/ \E m \in Modes : Collected("network-mode", m)
  \/ \E r \in Resolvers : Collected("dns", r)
  \/ \E d \in Distros, status \in Consoles : ConsoleStatus(d, status)
  \/ \E roles \in SUBSET {"server-main", "other"} : ServersFound(roles)

Checks ==
  \E kind \in DOMAIN flights : CheckDone(kind) \/ \E port \in BOOLEAN : RunCheck(kind, port)

Next ==
  \/ Published
  \/ \E kind \in {"power-suspend", "power-resume"} : Power(kind)
  \/ Checks

\* Every probe has a limit of time (the commands and the connection in the code, the
\* name lookup in the system's resolver).
Spec == Init /\ [][Next]_vars

-----------------------------------------------------------------------------
(* Properties *)

\* An incident tells of a change that the distro it names went through while it was
\* selected, not of the difference between one distro and the next.  Two kinds are left
\* out, for the code logs what never happened: a probe of the distro selected before
\* settles after the switch and is taken for the new one's ("answering again", though it
\* never stopped), and the console of another distro is taken for the selected one's.
ChangeKinds ==
  {"distro-state", "distro-unresponsive", "distro-recovered", "network-mode", "dns",
   "console-failed", "console-recovered"}
MayBeForeign == {"liveness", "console"}
ChangesHappened ==
  \A i \in DOMAIN incidents :
    LET e == incidents[i].event
    IN e.kind \in ChangeKinds =>
         \E h \in happened :
           /\ h.distro = e.distro /\ h.from = e.from /\ h.to = e.to
           /\ KindOf(h.facet, e.from, e.to) = e.kind
           /\ h.own \/ h.facet \in MayBeForeign

\* A recovery check is about one distro, whatever is selected meanwhile: the step it
\* recommends is one it offers, and none but the two that say so stop more than
\* VS Code Server in that very distro.
RecoveryIsNarrow ==
  last.recovery # Nil =>
    LET r == last.recovery
    IN /\ r.steps[r.recommendedStep].status = "recommended"
       /\ r.steps["terminate-distro"].stops = {r.distro}
       /\ \A p \in r.steps["restart-vscode-server"].stops : p.distro = r.distro
=============================================================================
