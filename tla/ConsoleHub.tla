------------------------------ MODULE ConsoleHub ------------------------------
(***************************************************************************)
(* The consoles of all distros: TerminalManager                            *)
(* (src/main/terminal/manager.ts), which owns one session per distro, and  *)
(* ConsolePanel (src/renderer/src/console/ConsolePanel.tsx), which shows   *)
(* the selected distro's and brings a dead one back.                       *)
(*                                                                         *)
(* They run in different processes.  Answers and status events travel from *)
(* main to the panel in order, on "wire"; what the panel asks is handled   *)
(* by main at once.  A session is seen here from outside: opening, at work *)
(* or dead (ConsoleSession has the inside).                                *)
(***************************************************************************)
EXTENDS Naturals, Sequences

CONSTANTS
  Distros,
  NoDistro,        \* null
  MaxAutoRetries,  \* MAX_AUTO_RETRIES
  Budgets          \* bounds: sets of records, how often each disturbance occurs

ASSUME DistroAssumption == NoDistro \notin Distros
ASSUME RetryAssumption == MaxAutoRetries \in Nat

Disturbances == {"select", "exit", "fail", "flip", "click", "prepare", "quit"}
ASSUME BudgetAssumption == Budgets \subseteq [Disturbances -> Nat]

VARIABLES
  session,   \* TerminalManager.sessions: [status, pty, everReady, wanted] per distro
  orphans,   \* ptys the manager no longer holds: [opening, open] per distro
  wire,      \* answers to ensure() and status events the panel has not handled
  panel,     \* ConsolePanel's refs and state
  running,   \* the distros the snapshot lists as running
  typed,     \* history: <<distro selected, distro of the session>> of prepared commands
  quitting,  \* AppController.dispose has run
  budget     \* what is left of the bounds

vars == <<session, orphans, wire, panel, running, typed, quitting, budget>>

Dead == {"disconnected", "distro-stopped", "start-failed"}
Statuses == Dead \union {"running", "ready"}

\* No session yet: ensure() makes one.
NoSession == [status |-> "disconnected", pty |-> "none", everReady |-> FALSE, wanted |-> FALSE]

Answer(d, status) == [kind |-> "answer", distro |-> d, status |-> status, cancelled |-> FALSE]
Event(d, status) == [kind |-> "status", distro |-> d, status |-> status, cancelled |-> FALSE]

Spend(what) == budget[what] > 0 /\ budget' = [budget EXCEPT ![what] = @ - 1]

-----------------------------------------------------------------------------
(* TerminalManager *)

\* dispose() of the session a respawn replaces: an open pty is killed, one that
\* is still being opened is forgotten.
Disposed(o, s) == IF s.pty = "opening" THEN [o EXCEPT !.opening = @ + 1] ELSE o

\* (mutated form: every ensure() starts a session)
MutantReusable(s) == FALSE
\* A session that is not dead is shared, also while its pty is being opened.
Reusable(s) == s.status \notin Dead

\* ensure(d), of the sessions, orphans and wire it finds: the answer is there at
\* once, or when the spawn has settled.
NewSession == [status |-> "running", pty |-> "opening", everReady |-> FALSE, wanted |-> TRUE]
Ensure(d, sessions, messages) ==
  IF Reusable(sessions[d])
  THEN /\ wire' = Append(messages, Answer(d, sessions[d].status))
       /\ session' = sessions
       /\ UNCHANGED orphans
  ELSE /\ session' = [sessions EXCEPT ![d] = NewSession]
       /\ orphans' = [orphans EXCEPT ![d] = Disposed(@, sessions[d])]
       /\ wire' = messages

\* What the factory can come back with: a shell with WSLPad's prompt hook, a
\* plain one where the shell is unknown or the hook could not be installed, or
\* no shell at all.
SpawnOutcomes == {"hooked", "plain", "failed"}

\* session.start after its await.  A plain shell sends no prompt marker, so it is
\* ready at once.
SpawnStatus(outcome) ==
  CASE outcome = "hooked" -> "running"
    [] outcome = "plain"  -> "ready"
    [] outcome = "failed" -> "start-failed"
SpawnEvent(d, outcome) ==
  IF outcome = "hooked" THEN <<>> ELSE <<Event(d, SpawnStatus(outcome))>>

\* A spawn settles, and with it the ensure() that began it.
Spawned(d, outcome) ==
  LET status == SpawnStatus(outcome)
      answer == [Answer(d, status) EXCEPT !.cancelled = ~session[d].wanted]
  IN /\ session[d].pty = "opening"
     /\ outcome \in SpawnOutcomes
     /\ IF outcome = "failed" THEN Spend("fail") ELSE UNCHANGED budget
     /\ session' = [session EXCEPT ![d] =
          [status |-> status, pty |-> IF outcome = "failed" THEN "none" ELSE "open",
           everReady |-> outcome = "plain", wanted |-> FALSE]]
     /\ wire' = Append(wire \o SpawnEvent(d, outcome), answer)
     /\ UNCHANGED <<orphans, panel, running, typed, quitting>>

\* The same for a session that was disposed of meanwhile: start() keeps the pty
\* and reports all the same, and nothing will end that shell but its own exit.
OrphanSpawned(d, outcome) ==
  /\ orphans[d].opening > 0
  /\ outcome \in SpawnOutcomes
  /\ orphans' = [orphans EXCEPT ![d].opening = @ - 1,
                                ![d].open = IF outcome = "failed" THEN @ ELSE @ + 1]
  /\ wire' = wire \o SpawnEvent(d, outcome)
  /\ UNCHANGED <<session, panel, running, typed, quitting, budget>>

\* The first prompt marker of a hooked shell.
Prompt(d) ==
  /\ session[d].pty = "open" /\ session[d].status = "running"
  /\ session' = [session EXCEPT ![d].status = "ready", ![d].everReady = TRUE]
  /\ wire' = Append(wire, Event(d, "ready"))
  /\ UNCHANGED <<orphans, panel, running, typed, quitting, budget>>

\* handleExit: a shell that ends before its first prompt could not be started.
HandleExit(d) ==
  LET status == IF session[d].everReady THEN "disconnected" ELSE "distro-stopped"
  IN /\ session[d].pty = "open"
     /\ Spend("exit")
     /\ session' = [session EXCEPT ![d].status = status, ![d].pty = "none"]
     /\ wire' = Append(wire, Event(d, status))
     /\ UNCHANGED <<orphans, panel, running, typed, quitting>>

\* disposeAll, from AppController.dispose, which has removed the IPC handlers first.
DisposeAll ==
  /\ Spend("quit")
  /\ quitting' = TRUE
  /\ orphans' = [d \in Distros |-> Disposed(orphans[d], session[d])]
  /\ session' = [d \in Distros |-> NoSession]
  /\ UNCHANGED <<wire, panel, running, typed>>

-----------------------------------------------------------------------------
(* ConsolePanel *)

\* (mutated form: a spawn that failed is left to the user)
MutantHealDisconnected(p, q, wasRunning, isRunning) ==
  IF p.status = q.status /\ wasRunning = isRunning THEN q
  ELSE IF ~isRunning \/ q.status \notin Dead THEN [q EXCEPT !.retries = 0, !.timer = FALSE]
  ELSE [q EXCEPT !.timer = q.retries < MaxAutoRetries /\ q.status = "disconnected"]
\* The self-healing effect, which React runs when the distro's running flag or the
\* status changed from p to q.
Heal(p, q, wasRunning, isRunning) ==
  IF p.status = q.status /\ wasRunning = isRunning THEN q
  ELSE IF ~isRunning \/ q.status \notin Dead THEN [q EXCEPT !.retries = 0, !.timer = FALSE]
  ELSE [q EXCEPT !.timer = q.retries < MaxAutoRetries]

Shown(p, runs) == p.distro # NoDistro /\ p.distro \in runs

\* (mutated form: on its way to a live session the panel keeps the one before)
MutantForget(p, d) ==
  IF Reusable(session[d]) THEN [p EXCEPT !.distro = d]
  ELSE [p EXCEPT !.distro = d, !.sid = NoDistro, !.status = "disconnected"]
\* The session effect forgets the session it had ...
Forget(p, d) == [p EXCEPT !.distro = d, !.sid = NoDistro, !.status = "disconnected"]

\* ... its cleanup cancels the answer still to come ...
Cancelled(messages) ==
  [i \in DOMAIN messages |-> [messages[i] EXCEPT !.cancelled = TRUE]]
Unwanted(sessions) == [d \in Distros |-> [sessions[d] EXCEPT !.wanted = FALSE]]

\* ... and a new one is asked for.  Runs for another distro and for another attempt.
SessionEffect(d, p) ==
  /\ panel' = Heal(panel, Forget(p, d), Shown(panel, running), Shown(Forget(p, d), running))
  /\ Ensure(d, Unwanted(session), Cancelled(wire))

\* The snapshot's selected distro changes; sessions of other distros live on.
SelectDistro(d) ==
  /\ ~quitting /\ d # panel.distro
  /\ Spend("select")
  /\ SessionEffect(d, panel)
  /\ UNCHANGED <<running, typed, quitting>>

\* The timer of the self-healing effect.
AutoRetry ==
  /\ ~quitting /\ panel.timer
  /\ SessionEffect(panel.distro, [panel EXCEPT !.retries = @ + 1, !.timer = FALSE])
  /\ UNCHANGED <<running, typed, quitting, budget>>

\* The reconnect button, there while the status is a dead one.
Reconnect ==
  /\ ~quitting /\ panel.distro # NoDistro /\ panel.status \in Dead
  /\ Spend("click")
  /\ SessionEffect(panel.distro, [panel EXCEPT !.retries = 0])
  /\ UNCHANGED <<running, typed, quitting>>

\* (mutated form: an answer is taken whatever it was asked for)
MutantAccepts(p, m) == m.kind = "answer" \/ m.distro = p.sid
\* An answer counts unless its effect was cleaned up; an event, for the session shown.
Accepts(p, m) == IF m.kind = "answer" THEN ~m.cancelled ELSE m.distro = p.sid

Handled(p, m) ==
  IF m.kind = "answer" THEN [p EXCEPT !.sid = m.distro, !.status = m.status]
                       ELSE [p EXCEPT !.status = m.status]

Deliver ==
  /\ wire # <<>>
  /\ wire' = Tail(wire)
  /\ LET m == Head(wire)
         shown == Shown(panel, running)
     IN IF Accepts(panel, m)
        THEN panel' = Heal(panel, Handled(panel, m), shown, shown)
        ELSE UNCHANGED panel
  /\ UNCHANGED <<session, orphans, running, typed, quitting, budget>>

\* A snapshot says that d started or stopped.
Flip(d) ==
  /\ Spend("flip")
  /\ running' = IF d \in running THEN running \ {d} ELSE running \union {d}
  /\ panel' = Heal(panel, panel, Shown(panel, running), Shown(panel, running'))
  /\ UNCHANGED <<session, orphans, wire, typed, quitting>>

\* A command prepared elsewhere is inserted in a ready session and refused otherwise.
InsertPrepared ==
  /\ ~quitting /\ panel.distro # NoDistro
  /\ Spend("prepare")
  /\ typed' = IF panel.sid # NoDistro /\ panel.status = "ready"
              THEN typed \union {<<panel.distro, panel.sid>>} ELSE typed
  /\ UNCHANGED <<session, orphans, wire, panel, running, quitting>>

-----------------------------------------------------------------------------

Init ==
  /\ session = [d \in Distros |-> NoSession]
  /\ orphans = [d \in Distros |-> [opening |-> 0, open |-> 0]]
  /\ wire = <<>>
  /\ panel = [distro |-> NoDistro, sid |-> NoDistro, status |-> "disconnected",
              retries |-> 0, timer |-> FALSE]
  /\ running = {}
  /\ typed = {}
  /\ quitting = FALSE
  /\ budget \in Budgets

Settles(d) == \E outcome \in SpawnOutcomes : Spawned(d, outcome)

Next ==
  \/ \E d \in Distros :
       \/ Settles(d)
       \/ \E outcome \in SpawnOutcomes : OrphanSpawned(d, outcome)
       \/ Prompt(d)
       \/ HandleExit(d)
       \/ SelectDistro(d)
       \/ Flip(d)
  \/ AutoRetry
  \/ Reconnect
  \/ Deliver
  \/ InsertPrepared
  \/ DisposeAll

\* Every command of a spawn has a time limit, messages arrive, timers fire, and a
\* hooked shell prints a prompt or exits.
Fairness ==
  /\ \A d \in Distros : WF_vars(Settles(d)) /\ WF_vars(Prompt(d))
  /\ \A d \in Distros : WF_vars(\E outcome \in SpawnOutcomes : OrphanSpawned(d, outcome))
  /\ WF_vars(Deliver)
  /\ WF_vars(AutoRetry)

Spec == Init /\ [][Next]_vars /\ Fairness

-----------------------------------------------------------------------------
(* Properties *)

\* The shape of the state, whatever the order of questions, spawns and exits (manager.ts).
TypeOK ==
  /\ session \in [Distros -> [status : Statuses, pty : {"none", "opening", "open"},
                              everReady : BOOLEAN, wanted : BOOLEAN]]
  /\ orphans \in [Distros -> [opening : Nat, open : Nat]]
  /\ wire \in Seq([kind : {"answer", "status"}, distro : Distros, status : Statuses,
                   cancelled : BOOLEAN])
  /\ panel \in [distro : Distros \union {NoDistro}, sid : Distros \union {NoDistro},
                status : Statuses, retries : 0..MaxAutoRetries, timer : BOOLEAN]
  /\ running \subseteq Distros
  /\ typed \subseteq Distros \X Distros
  /\ quitting \in BOOLEAN
  /\ budget \in [Disturbances -> Nat]

\* "Exactly one per distro": whatever the panel asks, and however its questions
\* overlap with spawns and exits, no distro has two shells or two being opened
\* (manager.ts ensure, spawnSession).
Opening(d) == orphans[d].opening + (IF session[d].pty = "opening" THEN 1 ELSE 0)
Open(d) == orphans[d].open + (IF session[d].pty = "open" THEN 1 ELSE 0)
ShellOf(d) ==
  CASE Opening(d) = 0 /\ Open(d) = 0 -> "none"
    [] Opening(d) = 1 /\ Open(d) = 0 -> "opening"
    [] Opening(d) = 0 /\ Open(d) = 1 -> "open"
    [] OTHER -> "several"
Service == INSTANCE ConsoleService WITH shell <- [d \in Distros |-> ShellOf(d)]
OneShellPerDistro == Service!Spec

\* Once its mail is read the panel shows the selected distro's session as it is,
\* or waits for a spawn whose answer it will take: no switch, retry or late
\* answer leaves it with another distro's session or with none (ConsolePanel's
\* session effect).
PanelTellsTruth ==
  (wire = <<>> /\ ~quitting /\ panel.distro # NoDistro) =>
    IF panel.sid = NoDistro
    THEN session[panel.distro].pty = "opening" /\ session[panel.distro].wanted
    ELSE panel.sid = panel.distro /\ panel.status = session[panel.sid].status

\* A prepared command only ever reaches the console of the distro on screen.
PreparedReachesSelected == \A entry \in typed : entry[1] = entry[2]

\* A dead console of a running distro comes back by itself, or its automatic
\* retries are used up: it is never left dead with attempts to spare.
Heals ==
  []<>(\/ quitting
       \/ ~Shown(panel, running)
       \/ panel.status \notin Dead
       \/ panel.retries = MaxAutoRetries)
=============================================================================
