--------------------------- MODULE ConsoleHubProofs ---------------------------
(***************************************************************************)
(* Proofs about ConsoleHub: its types, that the manager and the panel      *)
(* together keep the promise of ConsoleService, that a prepared command    *)
(* is for the distro on screen, and that the panel tells the truth, for    *)
(* any set of distros, any number of automatic retries and any bounds.     *)
(***************************************************************************)
EXTENDS ConsoleHub, TLAPS

SessionType == [status : Statuses, pty : {"none", "opening", "open"},
                everReady : BOOLEAN, wanted : BOOLEAN]
MessageType == [kind : {"answer", "status"}, distro : Distros, status : Statuses,
                cancelled : BOOLEAN]
PanelType == [distro : Distros \union {NoDistro}, sid : Distros \union {NoDistro},
              status : Statuses, retries : 0..MaxAutoRetries, timer : BOOLEAN]

\* An automatic retry is only ever due with a distro on screen and attempts left.
TimerIsDue(p) == p.timer => p.distro \in Distros /\ p.retries < MaxAutoRetries

NoOrphan == [opening |-> 0, open |-> 0]

\* A dead session holds no pty, so that replacing it leaves nothing behind.
DeadHoldsNothing == \A d \in Distros : session[d].status \in Dead => session[d].pty = "none"

\* Ptys are let go of only by the shutdown, one at most per distro and only while it
\* is being opened; the sessions are gone from then on.
OnlyQuittingOrphans ==
  \A d \in Distros :
    IF quitting
    THEN /\ session[d].pty = "none"
         /\ orphans[d] \in {NoOrphan, [opening |-> 1, open |-> 0], [opening |-> 0, open |-> 1]}
    ELSE orphans[d] = NoOrphan

Inv ==
  /\ TypeOK
  /\ TimerIsDue(panel)
  /\ DeadHoldsNothing
  /\ OnlyQuittingOrphans

-----------------------------------------------------------------------------
(* What the operators keep *)

\* A disturbance is taken from the bounds, which stay natural numbers.
LEMMA SpendKeepsTypes ==
  ASSUME budget \in [Disturbances -> Nat], NEW what \in Disturbances, Spend(what)
  PROVE  budget' \in [Disturbances -> Nat]
  BY DEF Spend

\* The self-healing effect leaves a panel that is well formed and arms its timer only
\* when a retry is due (ConsolePanel's self-healing effect).
LEMMA HealKeepsPanel ==
  ASSUME NEW p \in PanelType, NEW q \in PanelType, TimerIsDue(q),
         NEW was, NEW is, is => q.distro \in Distros
  PROVE  Heal(p, q, was, is) \in PanelType /\ TimerIsDue(Heal(p, q, was, is))
<1> USE RetryAssumption
<1>1. CASE p.status = q.status /\ was = is
  <2>1. Heal(p, q, was, is) = q
    BY <1>1 DEF Heal
  <2> QED BY <2>1
<1>2. CASE ~(p.status = q.status /\ was = is) /\ (~is \/ q.status \notin Dead)
  <2>1. Heal(p, q, was, is) = [q EXCEPT !.retries = 0, !.timer = FALSE]
    BY <1>2 DEF Heal
  <2> DEFINE s == [q EXCEPT !.retries = 0]
             r == [s EXCEPT !.timer = FALSE]
  <2>2. s \in PanelType
    BY DEF PanelType
  <2> HIDE DEF s
  <2>3. r \in PanelType /\ ~r.timer
    BY <2>2 DEF PanelType
  <2>4. Heal(p, q, was, is) = r
    BY <2>1 DEF s
  <2> QED BY <2>3, <2>4 DEF TimerIsDue
<1>3. CASE ~(p.status = q.status /\ was = is) /\ ~(~is \/ q.status \notin Dead)
  <2>1. Heal(p, q, was, is) = [q EXCEPT !.timer = q.retries < MaxAutoRetries]
    BY <1>3 DEF Heal
  <2> DEFINE left == q.retries < MaxAutoRetries
             r == [q EXCEPT !.timer = left]
  <2>2. left \in BOOLEAN
    BY DEF PanelType
  <2>3. r \in PanelType
    BY <2>2 DEF PanelType
  <2>4. r.distro = q.distro /\ r.retries = q.retries /\ r.timer = left
    BY DEF PanelType
  <2>5. TimerIsDue(r)
    BY <1>3, <2>4 DEF TimerIsDue
  <2> QED BY <2>1, <2>3, <2>5
<1> QED BY <1>1, <1>2, <1>3

\* Asking for a session keeps the sessions, the mail and the orphans well formed, gives
\* no orphan to a manager that holds sessions only, and leaves no dead session with a pty.
LEMMA EnsureKeeps ==
  ASSUME NEW d \in Distros, NEW sessions \in [Distros -> SessionType],
         NEW messages \in Seq(MessageType),
         \A e \in Distros : sessions[e].status \in Dead => sessions[e].pty = "none",
         orphans \in [Distros -> [opening : Nat, open : Nat]],
         Ensure(d, sessions, messages)
  PROVE  /\ session' \in [Distros -> SessionType]
         /\ wire' \in Seq(MessageType)
         /\ orphans' = orphans
         /\ \A e \in Distros : session'[e].status \in Dead => session'[e].pty = "none"
<1>1. CASE Reusable(sessions[d])
  <2>1. Answer(d, sessions[d].status) \in MessageType
    BY DEF Answer, MessageType, SessionType
  <2>2. session' = sessions /\ wire' = Append(messages, Answer(d, sessions[d].status))
        /\ orphans' = orphans
    BY <1>1 DEF Ensure
  <2>3. wire' \in Seq(MessageType)
    BY <2>1, <2>2
  <2> QED BY <2>2, <2>3
<1>2. CASE ~Reusable(sessions[d])
  <2>1. sessions[d].pty = "none"
    BY <1>2 DEF Reusable
  <2>2. orphans' = orphans
    BY <1>2, <2>1 DEF Ensure, Disposed
  <2>3. NewSession \in SessionType /\ NewSession.status \notin Dead
    BY DEF NewSession, SessionType, Statuses, Dead
  <2> QED BY <1>2, <2>2, <2>3 DEF Ensure
<1> QED BY <1>1, <1>2

\* Cancelling the answers to come keeps the mail and the sessions well formed.
LEMMA CancelKeeps ==
  ASSUME TypeOK
  PROVE  /\ Unwanted(session) \in [Distros -> SessionType]
         /\ \A d \in Distros : /\ Unwanted(session)[d].status = session[d].status
                               /\ Unwanted(session)[d].pty = session[d].pty
         /\ Cancelled(wire) \in Seq(MessageType)
<1>1. wire \in Seq(MessageType) /\ session \in [Distros -> SessionType]
  BY DEF TypeOK, MessageType, SessionType
<1>2. \A i \in DOMAIN wire : [wire[i] EXCEPT !.cancelled = TRUE] \in MessageType
  <2> SUFFICES ASSUME NEW i \in DOMAIN wire
               PROVE  [wire[i] EXCEPT !.cancelled = TRUE] \in MessageType
    OBVIOUS
  <2>1. wire[i] \in MessageType
    BY <1>1
  <2> QED BY <2>1 DEF MessageType
<1>3. Cancelled(wire) \in Seq(MessageType)
  BY <1>1, <1>2 DEF Cancelled
<1> QED BY <1>1, <1>3 DEF Unwanted, SessionType

\* The session effect, run for a panel p whose timer is off or due, keeps the invariant.
LEMMA SessionEffectKeeps ==
  ASSUME Inv, ~quitting, UNCHANGED <<running, typed, quitting>>,
         NEW d \in Distros, NEW p \in PanelType, p.timer => p.retries < MaxAutoRetries,
         budget' \in [Disturbances -> Nat],
         SessionEffect(d, p)
  PROVE  Inv'
<1>1. Forget(p, d) \in PanelType /\ TimerIsDue(Forget(p, d))
  BY DEF Forget, PanelType, TimerIsDue, Statuses, Dead
<1>2. Forget(p, d).distro = d
  BY DEF Forget, PanelType
<1>3. panel \in PanelType
  BY DEF Inv, TypeOK, PanelType
<1>4. panel' \in PanelType /\ TimerIsDue(panel')
  BY <1>1, <1>2, <1>3, HealKeepsPanel DEF SessionEffect
<1>5. orphans \in [Distros -> [opening : Nat, open : Nat]]
  BY DEF Inv, TypeOK
<1>6. /\ Unwanted(session) \in [Distros -> SessionType]
      /\ \A e \in Distros : /\ Unwanted(session)[e].status = session[e].status
                            /\ Unwanted(session)[e].pty = session[e].pty
      /\ Cancelled(wire) \in Seq(MessageType)
  BY CancelKeeps DEF Inv
<1>7. \A e \in Distros :
        Unwanted(session)[e].status \in Dead => Unwanted(session)[e].pty = "none"
  BY <1>6 DEF Inv, DeadHoldsNothing
<1>8. Ensure(d, Unwanted(session), Cancelled(wire))
  BY DEF SessionEffect
<1>9. /\ session' \in [Distros -> SessionType]
      /\ wire' \in Seq(MessageType)
      /\ orphans' = orphans
      /\ \A e \in Distros : session'[e].status \in Dead => session'[e].pty = "none"
  BY <1>5, <1>6, <1>7, <1>8, EnsureKeeps
<1>10. TypeOK'
  BY <1>4, <1>5, <1>9 DEF Inv, TypeOK, PanelType, MessageType, SessionType
<1>11. DeadHoldsNothing'
  BY <1>9 DEF DeadHoldsNothing
<1>12. OnlyQuittingOrphans'
  BY <1>9 DEF Inv, OnlyQuittingOrphans
<1> QED BY <1>4, <1>10, <1>11, <1>12 DEF Inv

-----------------------------------------------------------------------------
(* The invariant *)

\* The manager starts without a session.
LEMMA InitInv == Init => Inv
<1> SUFFICES ASSUME Init PROVE Inv
  OBVIOUS
<1> USE RetryAssumption DEF Init
<1>1. session \in [Distros -> SessionType]
  BY DEF NoSession, SessionType, Statuses, Dead
<1>2. panel \in PanelType /\ ~panel.timer
  BY DEF PanelType, Statuses, Dead
<1>3. budget \in [Disturbances -> Nat]
  BY BudgetAssumption
<1>4. wire \in Seq(MessageType) /\ orphans \in [Distros -> [opening : Nat, open : Nat]]
  OBVIOUS
<1>5. TypeOK
  BY <1>1, <1>2, <1>3, <1>4 DEF TypeOK, SessionType, PanelType, MessageType
<1>6. DeadHoldsNothing /\ OnlyQuittingOrphans
  BY DEF DeadHoldsNothing, OnlyQuittingOrphans, NoSession, NoOrphan
<1> QED BY <1>2, <1>5, <1>6 DEF Inv, TimerIsDue

\* A spawn settles: its events and its answer are put on the wire, and a session that
\* got no shell holds no pty.
LEMMA SpawnedKeeps ==
  ASSUME Inv, NEW d \in Distros, NEW outcome, Spawned(d, outcome)
  PROVE  Inv'
<1> DEFINE status == SpawnStatus(outcome)
           answer == [Answer(d, status) EXCEPT !.cancelled = ~session[d].wanted]
           opened == [status |-> status, pty |-> IF outcome = "failed" THEN "none" ELSE "open",
                      everReady |-> outcome = "plain", wanted |-> FALSE]
<1>1. /\ session[d].pty = "opening"
      /\ outcome \in SpawnOutcomes
      /\ session' = [session EXCEPT ![d] = opened]
      /\ wire' = Append(wire \o SpawnEvent(d, outcome), answer)
      /\ UNCHANGED <<orphans, panel, running, typed, quitting>>
  BY DEF Spawned
<1>2. /\ session \in [Distros -> SessionType]
      /\ wire \in Seq(MessageType)
      /\ budget \in [Disturbances -> Nat]
  BY DEF Inv, TypeOK, SessionType, MessageType
<1>3. status \in Statuses /\ (status \in Dead <=> outcome = "failed")
  BY <1>1 DEF SpawnOutcomes, SpawnStatus, Statuses, Dead
<1>4. opened \in SessionType /\ (opened.status \in Dead => opened.pty = "none")
  <2>1. opened.everReady \in BOOLEAN
    OBVIOUS
  <2> QED BY <1>3, <2>1 DEF SessionType
<1>5. answer \in MessageType
  BY <1>2, <1>3 DEF Answer, MessageType, SessionType
<1>6. SpawnEvent(d, outcome) \in Seq(MessageType)
  <2>1. Event(d, status) \in MessageType
    BY <1>3 DEF Event, MessageType
  <2> QED BY <2>1 DEF SpawnEvent
<1> HIDE DEF answer, opened, status
<1>7. wire' \in Seq(MessageType)
  BY <1>1, <1>2, <1>5, <1>6
<1>8. session' \in [Distros -> SessionType]
  BY <1>1, <1>2, <1>4
<1>9. budget' \in [Disturbances -> Nat]
  <2>1. Spend("fail") \/ UNCHANGED budget
    BY DEF Spawned
  <2> QED BY <1>2, <2>1, SpendKeepsTypes DEF Disturbances
<1>10. TypeOK'
  BY <1>1, <1>7, <1>8, <1>9 DEF Inv, TypeOK, SessionType, MessageType
<1>11. DeadHoldsNothing'
  BY <1>1, <1>2, <1>4 DEF Inv, DeadHoldsNothing
<1>12. OnlyQuittingOrphans'
  BY <1>1, <1>2 DEF Inv, OnlyQuittingOrphans
<1> QED BY <1>1, <1>10, <1>11, <1>12 DEF Inv

\* A spawn whose session is gone settles: its orphan is an open shell from then on, or
\* nothing.
LEMMA OrphanSettles ==
  ASSUME Inv, NEW d \in Distros, NEW outcome, OrphanSpawned(d, outcome)
  PROVE  /\ quitting
         /\ orphans[d] = [opening |-> 1, open |-> 0]
         /\ orphans' = [orphans EXCEPT ![d] =
              IF outcome = "failed" THEN NoOrphan ELSE [opening |-> 0, open |-> 1]]
<1>1. orphans[d].opening > 0
  BY DEF OrphanSpawned
<1>2. orphans \in [Distros -> [opening : Nat, open : Nat]]
  BY DEF Inv, TypeOK
<1>3. quitting /\ orphans[d] = [opening |-> 1, open |-> 0]
  BY <1>1 DEF Inv, OnlyQuittingOrphans, NoOrphan
<1> DEFINE settled == IF outcome = "failed" THEN NoOrphan ELSE [opening |-> 0, open |-> 1]
<1>4. orphans' = [orphans EXCEPT ![d] = settled]
  <2> DEFINE first == [orphans EXCEPT ![d].opening = @ - 1]
             second == [first EXCEPT ![d].open = IF outcome = "failed" THEN @ ELSE @ + 1]
  <2>1. orphans' = second
    BY DEF OrphanSpawned
  <2>2. first = [orphans EXCEPT ![d] = NoOrphan]
    <3> DEFINE r == [orphans[d] EXCEPT !.opening = orphans[d].opening - 1]
    <3>1. r \in [opening : Nat, open : Nat] /\ r.opening = 0 /\ r.open = 0
      BY <1>2, <1>3
    <3> HIDE DEF r
    <3>2. r = NoOrphan
      BY <3>1 DEF NoOrphan
    <3> QED BY <3>2 DEF r
  <2>3. first[d] = NoOrphan /\ DOMAIN first = Distros
    BY <1>2, <2>2
  <2> HIDE DEF first
  <2>4. second = [first EXCEPT ![d] = settled]
    <3> DEFINE r == [first[d] EXCEPT !.open = IF outcome = "failed" THEN first[d].open
                                              ELSE first[d].open + 1]
    <3>1. /\ r \in [opening : Nat, open : Nat]
          /\ r.opening = 0
          /\ r.open = IF outcome = "failed" THEN 0 ELSE 1
      BY <2>3 DEF NoOrphan
    <3> HIDE DEF r
    <3>2. r = settled
      BY <3>1 DEF NoOrphan
    <3> QED BY <3>2 DEF r
  <2> HIDE DEF settled
  <2> QED BY <1>2, <2>1, <2>2, <2>4
<1> QED BY <1>3, <1>4

\* Such a spawn keeps the invariant.
LEMMA OrphanSpawnedKeeps ==
  ASSUME Inv, NEW d \in Distros, NEW outcome, OrphanSpawned(d, outcome)
  PROVE  Inv'
<1>1. /\ outcome \in SpawnOutcomes
      /\ wire' = wire \o SpawnEvent(d, outcome)
      /\ UNCHANGED <<session, panel, running, typed, quitting, budget>>
  BY DEF OrphanSpawned
<1>2. wire \in Seq(MessageType) /\ orphans \in [Distros -> [opening : Nat, open : Nat]]
  BY DEF Inv, TypeOK, MessageType
<1>3. SpawnEvent(d, outcome) \in Seq(MessageType)
  <2>1. Event(d, SpawnStatus(outcome)) \in MessageType
    BY <1>1 DEF Event, MessageType, SpawnOutcomes, SpawnStatus, Statuses, Dead
  <2> QED BY <2>1 DEF SpawnEvent
<1>4. wire' \in Seq(MessageType)
  BY <1>1, <1>2, <1>3
<1>5. quitting /\ orphans[d] = [opening |-> 1, open |-> 0]
  BY OrphanSettles
<1> DEFINE settled == IF outcome = "failed" THEN NoOrphan ELSE [opening |-> 0, open |-> 1]
<1>6. orphans' = [orphans EXCEPT ![d] = settled]
  BY OrphanSettles
<1>7. settled \in [opening : Nat, open : Nat]
  BY DEF NoOrphan
<1>8. orphans' \in [Distros -> [opening : Nat, open : Nat]]
  BY <1>2, <1>6, <1>7
<1>9. OnlyQuittingOrphans'
  <2>1. settled \in {NoOrphan, [opening |-> 0, open |-> 1]}
    OBVIOUS
  <2> HIDE DEF settled
  <2> QED BY <1>1, <1>2, <1>5, <1>6, <2>1 DEF Inv, OnlyQuittingOrphans
<1>10. TypeOK'
  BY <1>1, <1>4, <1>8 DEF Inv, TypeOK, MessageType
<1> QED BY <1>1, <1>9, <1>10 DEF Inv, DeadHoldsNothing

\* A hooked shell shows its first prompt: the session is ready and keeps its pty.
LEMMA PromptKeeps ==
  ASSUME Inv, NEW d \in Distros, Prompt(d)
  PROVE  Inv'
<1> DEFINE ready == [session[d] EXCEPT !.status = "ready", !.everReady = TRUE]
<1>1. /\ session[d].pty = "open"
      /\ wire' = Append(wire, Event(d, "ready"))
      /\ UNCHANGED <<orphans, panel, running, typed, quitting, budget>>
  BY DEF Prompt
<1>2. session \in [Distros -> SessionType] /\ wire \in Seq(MessageType)
  BY DEF Inv, TypeOK, SessionType, MessageType
<1>3. session' = [session EXCEPT ![d] = ready]
  BY <1>2 DEF Prompt
<1>4. ready \in SessionType /\ ready.pty = "open" /\ ready.status = "ready"
  <2> DEFINE half == [session[d] EXCEPT !.status = "ready"]
  <2>1. half \in SessionType /\ half.pty = "open" /\ half.status = "ready"
    BY <1>1, <1>2 DEF SessionType, Statuses
  <2> HIDE DEF half
  <2>2. LET whole == [half EXCEPT !.everReady = TRUE]
        IN whole \in SessionType /\ whole.pty = "open" /\ whole.status = "ready"
    BY <2>1 DEF SessionType
  <2> QED BY <2>2 DEF half
<1>5. wire' \in Seq(MessageType)
  BY <1>1, <1>2 DEF Event, MessageType, Statuses
<1> HIDE DEF ready
<1>6. session' \in [Distros -> SessionType]
  BY <1>2, <1>3, <1>4
<1>7. TypeOK'
  BY <1>1, <1>5, <1>6 DEF Inv, TypeOK, SessionType, MessageType
<1>8. DeadHoldsNothing'
  BY <1>2, <1>3, <1>4 DEF Inv, DeadHoldsNothing, Dead
<1>9. OnlyQuittingOrphans'
  BY <1>1, <1>2, <1>3, <1>4 DEF Inv, OnlyQuittingOrphans
<1> QED BY <1>1, <1>7, <1>8, <1>9 DEF Inv

\* A shell ends: its session is dead and holds nothing.
LEMMA HandleExitKeeps ==
  ASSUME Inv, NEW d \in Distros, HandleExit(d)
  PROVE  Inv'
<1> DEFINE status == IF session[d].everReady THEN "disconnected" ELSE "distro-stopped"
           ended == [session[d] EXCEPT !.status = status, !.pty = "none"]
<1>1. /\ session[d].pty = "open"
      /\ Spend("exit")
      /\ wire' = Append(wire, Event(d, status))
      /\ UNCHANGED <<orphans, panel, running, typed, quitting>>
  BY DEF HandleExit
<1>2. /\ session \in [Distros -> SessionType]
      /\ wire \in Seq(MessageType)
      /\ budget \in [Disturbances -> Nat]
  BY DEF Inv, TypeOK, SessionType, MessageType
<1>3. session' = [session EXCEPT ![d] = ended]
  BY <1>2 DEF HandleExit
<1>4. status \in Statuses
  BY DEF Statuses, Dead
<1>5. wire' \in Seq(MessageType)
  BY <1>1, <1>2, <1>4 DEF Event, MessageType
<1>6. ended \in SessionType /\ ended.pty = "none"
  <2> DEFINE half == [session[d] EXCEPT !.status = status]
  <2>1. half \in SessionType
    BY <1>2, <1>4 DEF SessionType
  <2> HIDE DEF half
  <2>2. LET whole == [half EXCEPT !.pty = "none"]
        IN whole \in SessionType /\ whole.pty = "none"
    BY <2>1 DEF SessionType
  <2> QED BY <2>2 DEF half
<1> HIDE DEF ended, status
<1>7. session' \in [Distros -> SessionType]
  BY <1>2, <1>3, <1>6
<1>8. budget' \in [Disturbances -> Nat]
  BY <1>1, <1>2, SpendKeepsTypes DEF Disturbances
<1>9. TypeOK'
  BY <1>1, <1>5, <1>7, <1>8 DEF Inv, TypeOK, SessionType, MessageType
<1>10. DeadHoldsNothing'
  BY <1>2, <1>3, <1>6 DEF Inv, DeadHoldsNothing
<1>11. OnlyQuittingOrphans'
  BY <1>1, <1>2, <1>3, <1>6 DEF Inv, OnlyQuittingOrphans
<1> QED BY <1>1, <1>9, <1>10, <1>11 DEF Inv

\* The shutdown leaves no session, and an orphan for each pty that was being opened.
LEMMA DisposeAllKeeps ==
  ASSUME Inv, DisposeAll
  PROVE  Inv'
<1>1. /\ Spend("quit")
      /\ quitting' = TRUE
      /\ orphans' = [d \in Distros |-> Disposed(orphans[d], session[d])]
      /\ session' = [d \in Distros |-> NoSession]
      /\ UNCHANGED <<wire, panel, running, typed>>
  BY DEF DisposeAll
<1>2. NoSession \in SessionType /\ NoSession.pty = "none"
  BY DEF NoSession, SessionType, Statuses, Dead
<1>3. budget' \in [Disturbances -> Nat]
  BY <1>1, SpendKeepsTypes DEF Inv, TypeOK, Disturbances
<1>4. ASSUME NEW d \in Distros
      PROVE  Disposed(orphans[d], session[d]) \in
               {NoOrphan, [opening |-> 1, open |-> 0], [opening |-> 0, open |-> 1]}
  BY DEF Inv, OnlyQuittingOrphans, Disposed, NoOrphan
<1>5. OnlyQuittingOrphans'
  BY <1>1, <1>2, <1>4 DEF OnlyQuittingOrphans
<1>6. orphans' \in [Distros -> [opening : Nat, open : Nat]]
  BY <1>1, <1>4 DEF NoOrphan
<1>7. session' \in [Distros -> SessionType]
  BY <1>1, <1>2
<1>8. TypeOK'
  BY <1>1, <1>3, <1>6, <1>7 DEF Inv, TypeOK, SessionType
<1>9. DeadHoldsNothing'
  BY <1>1, <1>2 DEF DeadHoldsNothing
<1> QED BY <1>1, <1>5, <1>8, <1>9 DEF Inv

\* Every step keeps the invariant.
LEMMA NextKeeps == Inv /\ [Next]_vars => Inv'
<1> SUFFICES ASSUME Inv, [Next]_vars PROVE Inv'
  OBVIOUS
<1>1. panel \in PanelType /\ TimerIsDue(panel) /\ budget \in [Disturbances -> Nat]
  BY DEF Inv, TypeOK, PanelType
<1>2. ASSUME NEW d \in Distros, Settles(d) PROVE Inv'
  BY <1>2, SpawnedKeeps DEF Settles
<1>3. ASSUME NEW d \in Distros, NEW outcome \in SpawnOutcomes, OrphanSpawned(d, outcome)
      PROVE  Inv'
  BY <1>3, OrphanSpawnedKeeps
<1>4. ASSUME NEW d \in Distros, Prompt(d) PROVE Inv'
  BY <1>4, PromptKeeps
<1>5. ASSUME NEW d \in Distros, HandleExit(d) PROVE Inv'
  BY <1>5, HandleExitKeeps
<1>6. ASSUME NEW d \in Distros, SelectDistro(d) PROVE Inv'
  <2>1. budget' \in [Disturbances -> Nat]
    BY <1>1, <1>6, SpendKeepsTypes DEF SelectDistro, Disturbances
  <2>2. panel.timer => panel.retries < MaxAutoRetries
    BY <1>1 DEF TimerIsDue
  <2>3. ~quitting /\ SessionEffect(d, panel) /\ UNCHANGED <<running, typed, quitting>>
    BY <1>6 DEF SelectDistro
  <2> QED BY <1>1, <2>1, <2>2, <2>3, SessionEffectKeeps
<1>7. ASSUME NEW d \in Distros, Flip(d) PROVE Inv'
  <2>1. budget' \in [Disturbances -> Nat]
    BY <1>1, <1>7, SpendKeepsTypes DEF Flip, Disturbances
  <2>2. panel' \in PanelType /\ TimerIsDue(panel')
    <3>1. panel' = Heal(panel, panel, Shown(panel, running), Shown(panel, running'))
      BY <1>7 DEF Flip
    <3>2. Shown(panel, running') => panel.distro \in Distros
      BY <1>1 DEF Shown, PanelType
    <3> QED BY <1>1, <3>1, <3>2, HealKeepsPanel
  <2>3. running' \subseteq Distros /\ UNCHANGED <<session, orphans, wire, typed, quitting>>
    BY <1>7 DEF Flip, Inv, TypeOK
  <2> QED BY <2>1, <2>2, <2>3
       DEF Inv, TypeOK, PanelType, DeadHoldsNothing, OnlyQuittingOrphans
<1>8. CASE AutoRetry
  <2> DEFINE p == [panel EXCEPT !.retries = @ + 1, !.timer = FALSE]
  <2>1. panel.distro \in Distros /\ panel.retries < MaxAutoRetries
    BY <1>1, <1>8 DEF AutoRetry, TimerIsDue
  <2>2. p \in PanelType /\ ~p.timer
    <3> DEFINE half == [panel EXCEPT !.retries = @ + 1]
    <3>1. half \in PanelType
      BY <1>1, <2>1, RetryAssumption DEF PanelType
    <3> HIDE DEF half
    <3>2. LET whole == [half EXCEPT !.timer = FALSE] IN whole \in PanelType /\ ~whole.timer
      BY <3>1 DEF PanelType
    <3> QED BY <3>2 DEF half
  <2>3. /\ ~quitting
        /\ SessionEffect(panel.distro, p)
        /\ UNCHANGED <<running, typed, quitting, budget>>
    BY <1>8 DEF AutoRetry
  <2> HIDE DEF p
  <2> QED BY <1>1, <2>1, <2>2, <2>3, SessionEffectKeeps
<1>9. CASE Reconnect
  <2> DEFINE p == [panel EXCEPT !.retries = 0]
  <2>1. panel.distro \in Distros
    BY <1>1, <1>9 DEF Reconnect, PanelType
  <2>2. p \in PanelType /\ (p.timer => p.retries < MaxAutoRetries)
    BY <1>1, RetryAssumption DEF PanelType, TimerIsDue
  <2>3. budget' \in [Disturbances -> Nat]
    BY <1>1, <1>9, SpendKeepsTypes DEF Reconnect, Disturbances
  <2>4. ~quitting /\ SessionEffect(panel.distro, p) /\ UNCHANGED <<running, typed, quitting>>
    BY <1>9 DEF Reconnect
  <2> HIDE DEF p
  <2> QED BY <2>1, <2>2, <2>3, <2>4, SessionEffectKeeps
<1>10. CASE Deliver
  <2>1. /\ wire # <<>>
        /\ wire' = Tail(wire)
        /\ UNCHANGED <<session, orphans, running, typed, quitting, budget>>
    BY <1>10 DEF Deliver
  <2>2. Head(wire) \in MessageType /\ wire' \in Seq(MessageType)
    <3>1. wire \in Seq(MessageType)
      BY DEF Inv, TypeOK, MessageType
    <3> QED BY <2>1, <3>1
  <2> DEFINE q == Handled(panel, Head(wire))
             shown == Shown(panel, running)
  <2>3. q \in PanelType /\ q.distro = panel.distro /\ TimerIsDue(q)
    <3>1. CASE Head(wire).kind = "answer"
      <4> DEFINE half == [panel EXCEPT !.sid = Head(wire).distro]
                 whole == [half EXCEPT !.status = Head(wire).status]
      <4>1. half \in PanelType /\ half.distro = panel.distro /\ TimerIsDue(half)
        BY <1>1, <2>2 DEF PanelType, MessageType, TimerIsDue
      <4>2. q = whole
        BY <3>1 DEF Handled
      <4> HIDE DEF half
      <4>3. whole \in PanelType /\ whole.distro = half.distro /\ TimerIsDue(whole)
        BY <2>2, <4>1 DEF PanelType, MessageType, TimerIsDue
      <4> QED BY <4>1, <4>2, <4>3
    <3>2. CASE Head(wire).kind # "answer"
      <4>1. q = [panel EXCEPT !.status = Head(wire).status]
        BY <3>2 DEF Handled
      <4> QED BY <1>1, <2>2, <4>1 DEF PanelType, MessageType, TimerIsDue
    <3> QED BY <3>1, <3>2
  <2>4. shown => panel.distro \in Distros
    BY <1>1 DEF Shown, PanelType
  <2>5. panel' = panel \/ panel' = Heal(panel, q, shown, shown)
    BY <1>10 DEF Deliver
  <2> HIDE DEF q, shown
  <2>6. panel' \in PanelType /\ TimerIsDue(panel')
    BY <1>1, <2>3, <2>4, <2>5, HealKeepsPanel
  <2> QED BY <2>1, <2>2, <2>6
       DEF Inv, TypeOK, PanelType, MessageType, DeadHoldsNothing, OnlyQuittingOrphans
<1>11. CASE InsertPrepared
  <2>1. budget' \in [Disturbances -> Nat]
    BY <1>1, <1>11, SpendKeepsTypes DEF InsertPrepared, Disturbances
  <2>2. typed' \subseteq Distros \X Distros
    <3>1. typed \subseteq Distros \X Distros
      BY DEF Inv, TypeOK
    <3>2. panel.distro # NoDistro /\ (panel.sid # NoDistro => panel.sid \in Distros)
      BY <1>1, <1>11 DEF InsertPrepared, PanelType
    <3>3. panel.distro \in Distros
      BY <1>1, <3>2 DEF PanelType
    <3>4. typed' = typed \/ (panel.sid # NoDistro /\ typed' = typed \union {<<panel.distro, panel.sid>>})
      BY <1>11 DEF InsertPrepared
    <3> QED BY <3>1, <3>2, <3>3, <3>4
  <2>3. UNCHANGED <<session, orphans, wire, panel, running, quitting>>
    BY <1>11 DEF InsertPrepared
  <2> QED BY <2>1, <2>2, <2>3 DEF Inv, TypeOK, DeadHoldsNothing, OnlyQuittingOrphans
<1>12. CASE DisposeAll
  BY <1>12, DisposeAllKeeps
<1>13. CASE UNCHANGED vars
  BY <1>13 DEF vars, Inv, TypeOK, DeadHoldsNothing, OnlyQuittingOrphans
<1> QED BY <1>2, <1>3, <1>4, <1>5, <1>6, <1>7, <1>8, <1>9, <1>10, <1>11, <1>12, <1>13 DEF Next

\* The inductive invariant holds in every reachable state.
LEMMA InvAlways == Spec => []Inv
<1> QED BY InitInv, NextKeeps, PTL DEF Spec

\* Sessions, mail, panel and bounds keep their shape whatever the order of questions,
\* spawns, exits and the shutdown (manager.ts and ConsolePanel.tsx).
THEOREM TypeCorrect == Spec => []TypeOK
<1>1. Inv => TypeOK
  BY DEF Inv
<1> QED BY <1>1, InvAlways, PTL

-----------------------------------------------------------------------------
(* ConsoleHub implements ConsoleService *)

\* What the manager's own session holds is all there is while the app runs, and an
\* orphan is all there is once it is quitting.
LEMMA ShellIs ==
  ASSUME Inv
  PROVE  \A d \in Distros :
           ShellOf(d) = IF ~quitting THEN session[d].pty
                        ELSE IF orphans[d].opening = 1 THEN "opening"
                        ELSE IF orphans[d].open = 1 THEN "open" ELSE "none"
<1> SUFFICES ASSUME NEW d \in Distros
             PROVE  ShellOf(d) = IF ~quitting THEN session[d].pty
                                 ELSE IF orphans[d].opening = 1 THEN "opening"
                                 ELSE IF orphans[d].open = 1 THEN "open" ELSE "none"
  OBVIOUS
<1>1. session[d].pty \in {"none", "opening", "open"}
  BY DEF Inv, TypeOK
<1>2. CASE quitting
  <2>1. session[d].pty = "none"
    BY <1>2 DEF Inv, OnlyQuittingOrphans
  <2>2. orphans[d] \in {NoOrphan, [opening |-> 1, open |-> 0], [opening |-> 0, open |-> 1]}
    BY <1>2 DEF Inv, OnlyQuittingOrphans
  <2>3. Opening(d) = orphans[d].opening /\ Open(d) = orphans[d].open
    BY <2>1, <2>2 DEF Opening, Open, NoOrphan
  <2> QED BY <1>2, <2>2, <2>3 DEF ShellOf, NoOrphan
<1>3. CASE ~quitting
  <2>1. orphans[d].opening = 0 /\ orphans[d].open = 0
    BY <1>3 DEF Inv, OnlyQuittingOrphans, NoOrphan
  <2>2. /\ Opening(d) = IF session[d].pty = "opening" THEN 1 ELSE 0
        /\ Open(d) = IF session[d].pty = "open" THEN 1 ELSE 0
    BY <2>1 DEF Opening, Open
  <2> QED BY <1>1, <1>3, <2>2 DEF ShellOf
<1> QED BY <1>2, <1>3

\* The same of the state after a step.
LEMMA ShellIsNext ==
  ASSUME Inv'
  PROVE  \A d \in Distros :
           ShellOf(d)' = IF ~quitting' THEN session'[d].pty
                         ELSE IF orphans'[d].opening = 1 THEN "opening"
                         ELSE IF orphans'[d].open = 1 THEN "open" ELSE "none"
<1> SUFFICES ASSUME NEW d \in Distros
             PROVE  ShellOf(d)' = IF ~quitting' THEN session'[d].pty
                                  ELSE IF orphans'[d].opening = 1 THEN "opening"
                                  ELSE IF orphans'[d].open = 1 THEN "open" ELSE "none"
  OBVIOUS
<1>1. session'[d].pty \in {"none", "opening", "open"}
  BY DEF Inv, TypeOK
<1>2. CASE quitting'
  <2>1. session'[d].pty = "none"
    BY <1>2 DEF Inv, OnlyQuittingOrphans
  <2>2. orphans'[d] \in {NoOrphan, [opening |-> 1, open |-> 0], [opening |-> 0, open |-> 1]}
    BY <1>2 DEF Inv, OnlyQuittingOrphans
  <2>3. Opening(d)' = orphans'[d].opening /\ Open(d)' = orphans'[d].open
    BY <2>1, <2>2 DEF Opening, Open, NoOrphan
  <2> QED BY <1>2, <2>2, <2>3 DEF ShellOf, NoOrphan
<1>3. CASE ~quitting'
  <2>1. orphans'[d].opening = 0 /\ orphans'[d].open = 0
    BY <1>3 DEF Inv, OnlyQuittingOrphans, NoOrphan
  <2>2. /\ Opening(d)' = IF session'[d].pty = "opening" THEN 1 ELSE 0
        /\ Open(d)' = IF session'[d].pty = "open" THEN 1 ELSE 0
    BY <2>1 DEF Opening, Open
  <2> QED BY <1>1, <1>3, <2>2 DEF ShellOf
<1> QED BY <1>2, <1>3

\* Asking for a session begins a shell where there is none, or nothing.
LEMMA EnsureBegins ==
  ASSUME Inv, Inv', ~quitting, UNCHANGED quitting, NEW d \in Distros, NEW messages,
         Ensure(d, Unwanted(session), messages)
  PROVE  Service!Begin(d) \/ \A e \in Distros : ShellOf(e)' = ShellOf(e)
<1>1. \A e \in Distros : /\ ShellOf(e) = session[e].pty
                         /\ ShellOf(e)' = session'[e].pty
  BY ShellIs, ShellIsNext
<1>2. /\ Unwanted(session) \in [Distros -> SessionType]
      /\ \A e \in Distros : /\ Unwanted(session)[e].status = session[e].status
                            /\ Unwanted(session)[e].pty = session[e].pty
  BY CancelKeeps DEF Inv
<1> HIDE DEF Unwanted
<1>3. CASE Reusable(Unwanted(session)[d])
  <2>1. session' = Unwanted(session)
    BY <1>3 DEF Ensure
  <2> QED BY <1>1, <1>2, <2>1
<1>4. CASE ~Reusable(Unwanted(session)[d])
  <2>1. session' = [Unwanted(session) EXCEPT ![d] = NewSession]
    BY <1>4 DEF Ensure
  <2>2. session[d].pty = "none"
    BY <1>2, <1>4 DEF Reusable, Inv, DeadHoldsNothing
  <2>3. \A e \in Distros : ShellOf(e)' = IF e = d THEN "opening" ELSE ShellOf(e)
    BY <1>1, <1>2, <2>1 DEF NewSession
  <2> QED BY <1>1, <2>2, <2>3 DEF Service!Begin
<1> QED BY <1>3, <1>4

\* Every step of the hub is a step of the service or leaves its shells alone.
LEMMA StepServes ==
  ASSUME Inv, Inv', [Next]_vars
  PROVE  Service!Next \/ \A d \in Distros : ShellOf(d)' = ShellOf(d)
<1> DEFINE Same == \A d \in Distros : ShellOf(d)' = ShellOf(d)
<1>1. ASSUME NEW d \in Distros, NEW outcome, Spawned(d, outcome)
      PROVE  Service!Settle(d)
  <2> DEFINE after == IF outcome = "failed" THEN "none" ELSE "open"
  <2>1. session[d].pty = "opening" /\ UNCHANGED quitting
    BY <1>1 DEF Spawned
  <2>2. ~quitting
    BY <2>1 DEF Inv, OnlyQuittingOrphans
  <2>3. session \in [Distros -> SessionType]
    BY DEF Inv, TypeOK, SessionType
  <2>4. \A e \in Distros : session'[e].pty = IF e = d THEN after ELSE session[e].pty
    BY <1>1, <2>3 DEF Spawned
  <2>5. \A e \in Distros : ShellOf(e)' = IF e = d THEN after ELSE ShellOf(e)
    BY <2>1, <2>2, <2>4, ShellIs, ShellIsNext
  <2>6. ShellOf(d) = "opening"
    BY <2>1, <2>2, ShellIs
  <2>7. after \in {"open", "none"}
    OBVIOUS
  <2> HIDE DEF after
  <2> QED BY <2>5, <2>6, <2>7 DEF Service!Settle
<1>2. ASSUME NEW d \in Distros, NEW outcome, OrphanSpawned(d, outcome)
      PROVE  Service!Settle(d)
  <2> DEFINE after == IF outcome = "failed" THEN "none" ELSE "open"
           left == IF outcome = "failed" THEN NoOrphan ELSE [opening |-> 0, open |-> 1]
  <2>1. orphans \in [Distros -> [opening : Nat, open : Nat]] /\ UNCHANGED quitting
    BY <1>2 DEF Inv, TypeOK, OrphanSpawned
  <2>2. /\ quitting
        /\ orphans[d] = [opening |-> 1, open |-> 0]
        /\ orphans' = [orphans EXCEPT ![d] = left]
    BY <1>2, OrphanSettles
  <2>3. /\ left.opening = 0
        /\ after = IF left.open = 1 THEN "open" ELSE "none"
    BY DEF NoOrphan
  <2> HIDE DEF left
  <2>4. \A e \in Distros : ShellOf(e)' = IF e = d THEN after ELSE ShellOf(e)
    BY <2>1, <2>2, <2>3, ShellIs, ShellIsNext
  <2>5. ShellOf(d) = "opening"
    BY <2>2, ShellIs
  <2>6. after \in {"open", "none"}
    OBVIOUS
  <2> HIDE DEF after
  <2> QED BY <2>4, <2>5, <2>6 DEF Service!Settle
<1>3. ASSUME NEW d \in Distros, Prompt(d) PROVE Same
  <2>1. session \in [Distros -> SessionType] /\ UNCHANGED <<orphans, quitting>>
    BY <1>3 DEF Inv, TypeOK, SessionType, Prompt
  <2>2. \A e \in Distros : session'[e].pty = session[e].pty
    <3> DEFINE first == [session EXCEPT ![d].status = "ready"]
    <3>1. session' = [first EXCEPT ![d].everReady = TRUE]
      BY <1>3 DEF Prompt
    <3>2. first \in [Distros -> SessionType] /\ \A e \in Distros : first[e].pty = session[e].pty
      BY <2>1 DEF SessionType, Statuses
    <3> HIDE DEF first
    <3> QED BY <3>1, <3>2 DEF SessionType
  <2> QED BY <2>1, <2>2, ShellIs, ShellIsNext
<1>4. ASSUME NEW d \in Distros, HandleExit(d) PROVE Service!End({d})
  <2>1. session \in [Distros -> SessionType] /\ session[d].pty = "open" /\ UNCHANGED quitting
    BY <1>4 DEF Inv, TypeOK, SessionType, HandleExit
  <2>2. ~quitting
    BY <2>1 DEF Inv, OnlyQuittingOrphans
  <2>3. \A e \in Distros : session'[e].pty = IF e = d THEN "none" ELSE session[e].pty
    <3> DEFINE status == IF session[d].everReady THEN "disconnected" ELSE "distro-stopped"
               first == [session EXCEPT ![d].status = status]
    <3>1. session' = [first EXCEPT ![d].pty = "none"]
      BY <1>4 DEF HandleExit
    <3>2. status \in Statuses
      BY DEF Statuses, Dead
    <3> HIDE DEF status
    <3>3. first \in [Distros -> SessionType] /\ \A e \in Distros : first[e].pty = session[e].pty
      BY <2>1, <3>2 DEF SessionType
    <3> HIDE DEF first
    <3> QED BY <3>1, <3>3 DEF SessionType
  <2>4. \A e \in Distros : ShellOf(e)' = IF e \in {d} THEN "none" ELSE ShellOf(e)
    BY <2>1, <2>2, <2>3, ShellIs, ShellIsNext
  <2>5. ShellOf(d) = "open"
    BY <2>1, <2>2, ShellIs
  <2> QED BY <2>4, <2>5 DEF Service!End
<1>5. ASSUME NEW d \in Distros, NEW p, ~quitting, SessionEffect(d, p), UNCHANGED quitting
      PROVE  Service!Begin(d) \/ Same
  BY <1>5, EnsureBegins DEF SessionEffect
<1>6. CASE DisposeAll
  <2> DEFINE D == {d \in Distros : ShellOf(d) = "open" /\ ~quitting}
  <2>1. /\ quitting'
        /\ orphans' = [d \in Distros |-> Disposed(orphans[d], session[d])]
    BY <1>6 DEF DisposeAll
  <2>2. \A d \in Distros : ShellOf(d)' = IF d \in D THEN "none" ELSE ShellOf(d)
    <3> SUFFICES ASSUME NEW d \in Distros
                 PROVE  ShellOf(d)' = IF d \in D THEN "none" ELSE ShellOf(d)
      OBVIOUS
    <3>1. CASE quitting
      <4>1. session[d].pty = "none"
        BY <3>1 DEF Inv, OnlyQuittingOrphans
      <4>2. orphans'[d] = orphans[d]
        BY <2>1, <4>1 DEF Disposed
      <4> QED BY <2>1, <3>1, <4>2, ShellIs, ShellIsNext
    <3>2. CASE ~quitting
      <4>1. orphans[d] = NoOrphan /\ session[d].pty \in {"none", "opening", "open"}
        BY <3>2 DEF Inv, TypeOK, OnlyQuittingOrphans
      <4>2. ShellOf(d) = session[d].pty
        BY <3>2, ShellIs
      <4>3. CASE session[d].pty = "opening"
        <5>1. orphans'[d].opening = 1
          BY <2>1, <4>1, <4>3 DEF Disposed, NoOrphan
        <5> QED BY <2>1, <4>2, <4>3, <5>1, ShellIsNext
      <4>4. CASE session[d].pty # "opening"
        <5>1. orphans'[d] = NoOrphan
          BY <2>1, <4>1, <4>4 DEF Disposed
        <5>2. ShellOf(d)' = "none"
          BY <2>1, <5>1, ShellIsNext DEF NoOrphan
        <5> QED BY <3>2, <4>1, <4>2, <4>4, <5>2
      <4> QED BY <4>3, <4>4
    <3> QED BY <3>1, <3>2
  <2>3. D \in SUBSET Distros /\ \A d \in D : ShellOf(d) = "open"
    OBVIOUS
  <2>4. CASE D = {}
    BY <2>2, <2>4
  <2>5. CASE D # {}
    <3> HIDE DEF D
    <3>1. Service!End(D)
      BY <2>2, <2>3, <2>5 DEF Service!End
    <3> QED BY <2>3, <3>1 DEF Service!Next
  <2> QED BY <2>4, <2>5
<1>7. ASSUME UNCHANGED <<session, orphans, quitting>> PROVE Same
  BY <1>7, ShellIs, ShellIsNext
<1>8. ASSUME NEW d \in Distros, SelectDistro(d) PROVE Service!Next \/ Same
  BY <1>5, <1>8 DEF SelectDistro, Service!Next
<1>9. ASSUME AutoRetry \/ Reconnect PROVE Service!Next \/ Same
  <2>1. panel.distro \in Distros
    BY <1>9 DEF AutoRetry, Reconnect, Inv, TypeOK, TimerIsDue
  <2>2. PICK p : ~quitting /\ SessionEffect(panel.distro, p) /\ UNCHANGED quitting
    BY <1>9 DEF AutoRetry, Reconnect
  <2> QED BY <1>5, <2>1, <2>2 DEF Service!Next
<1>10. ASSUME Deliver \/ InsertPrepared \/ \E d \in Distros : Flip(d) PROVE Same
  BY <1>7, <1>10 DEF Deliver, InsertPrepared, Flip
<1>11. \A d \in Distros : {d} \in SUBSET Distros
  OBVIOUS
<1>12. ASSUME UNCHANGED vars PROVE Same
  BY <1>7, <1>12 DEF vars
<1>13. ASSUME NEW d \in Distros, Settles(d) PROVE Service!Next
  BY <1>1, <1>13 DEF Settles, Service!Next
<1>14. ASSUME NEW d \in Distros, NEW outcome, OrphanSpawned(d, outcome) PROVE Service!Next
  BY <1>2, <1>14 DEF Service!Next
<1>15. ASSUME NEW d \in Distros, HandleExit(d) PROVE Service!Next
  BY <1>4, <1>11, <1>15 DEF Service!Next
<1> QED BY <1>3, <1>6, <1>8, <1>9, <1>10, <1>12, <1>13, <1>14, <1>15 DEF Next

\* "Exactly one per distro": the manager and the panel implement ConsoleService, for
\* every set of distros and however questions, spawns, exits and the shutdown overlap.
THEOREM ServesOneShell == Spec => OneShellPerDistro
<1>1. Init => Service!Init
  <2> SUFFICES ASSUME Init PROVE \A d \in Distros : ShellOf(d) = "none"
    BY DEF Service!Init
  <2>1. Inv
    BY InitInv
  <2>2. \A d \in Distros : session[d].pty = "none" /\ ~quitting
    BY DEF Init, NoSession
  <2> QED BY <2>1, <2>2, ShellIs
<1>2. Inv /\ Inv' /\ [Next]_vars => [Service!Next]_[d \in Distros |-> ShellOf(d)]
  <2> SUFFICES ASSUME Inv, Inv', [Next]_vars
               PROVE  [Service!Next]_[d \in Distros |-> ShellOf(d)]
    OBVIOUS
  <2>1. Service!Next \/ \A d \in Distros : ShellOf(d)' = ShellOf(d)
    BY StepServes
  <2> QED BY <2>1
<1> QED BY <1>1, <1>2, InvAlways, PTL DEF Spec, OneShellPerDistro, Service!Spec

-----------------------------------------------------------------------------
(* The panel.  A prepared command reaches the console of the distro on screen,
   because only an answer to the session effect in force counts; and once the mail
   is read the panel shows that console as it is, because the mail under way tells
   its state. *)

\* What may be on the wire while d is on screen: an answer that still counts is d's.
MailFor(d) == {m \in MessageType : m.kind = "answer" /\ ~m.cancelled => m.distro = d}

\* Only the session effect in force is owed an answer, and it asked for the distro on screen.
PanelInv ==
  /\ panel.sid \in {NoDistro, panel.distro}
  /\ \A d \in Distros : session[d].wanted => d = panel.distro
  /\ wire \in Seq(MailFor(panel.distro))
  /\ PreparedReachesSelected

-----------------------------------------------------------------------------

\* The self-healing effect changes neither the distro shown nor the session.
LEMMA HealKeepsPlace ==
  ASSUME NEW p \in PanelType, NEW q \in PanelType, NEW was, NEW is
  PROVE  Heal(p, q, was, is).distro = q.distro /\ Heal(p, q, was, is).sid = q.sid
<1> DEFINE s == [q EXCEPT !.retries = 0]
           left == q.retries < MaxAutoRetries
<1>1. Heal(p, q, was, is) \in {q, [s EXCEPT !.timer = FALSE], [q EXCEPT !.timer = left]}
  BY DEF Heal
<1>2. s.distro = q.distro /\ s.sid = q.sid /\ DOMAIN s = DOMAIN q
  BY DEF PanelType
<1> HIDE DEF s, left
<1> QED BY <1>1, <1>2 DEF PanelType

\* Events are nobody's answer, and a cancelled answer counts for nobody.
LEMMA EventIsForAll ==
  ASSUME NEW d \in Distros, NEW status \in Statuses, NEW shown
  PROVE  Event(d, status) \in MailFor(shown)
  BY DEF Event, MailFor, MessageType

\* Whatever a spawn tells is mail every panel understands.
LEMMA SpawnEventIsForAll ==
  ASSUME NEW d \in Distros, NEW outcome \in SpawnOutcomes, NEW shown
  PROVE  SpawnEvent(d, outcome) \in Seq(MailFor(shown))
<1>1. SpawnStatus(outcome) \in Statuses
  BY DEF SpawnOutcomes, SpawnStatus, Statuses, Dead
<1>2. Event(d, SpawnStatus(outcome)) \in MailFor(shown)
  BY <1>1, EventIsForAll
<1> DEFINE event == Event(d, SpawnStatus(outcome))
           mail == MailFor(shown)
<1>3. SpawnEvent(d, outcome) = <<>> \/ SpawnEvent(d, outcome) = <<event>>
  BY DEF SpawnEvent
<1>4. event \in mail
  BY <1>2
<1> HIDE DEF event, mail
<1>5. SpawnEvent(d, outcome) \in Seq(mail)
  <2>1. <<>> \in Seq(mail)
    OBVIOUS
  <2>2. <<event>> \in Seq(mail)
    BY <1>4
  <2>3. CASE SpawnEvent(d, outcome) = <<>>
    BY <2>1, <2>3, Zenon
  <2>4. CASE SpawnEvent(d, outcome) = <<event>>
    BY <2>2, <2>4, Zenon
  <2> QED BY <1>3, <2>3, <2>4
<1> QED BY <1>5 DEF mail

\* Cancelling an answer leaves every message readable.
LEMMA CancelledIsForAll ==
  ASSUME TypeOK, NEW shown
  PROVE  Cancelled(wire) \in Seq(MailFor(shown))
<1>1. wire \in Seq(MessageType)
  BY DEF TypeOK, MessageType
<1>2. ASSUME NEW i \in DOMAIN wire
      PROVE  [wire[i] EXCEPT !.cancelled = TRUE] \in MailFor(shown)
  <2>1. wire[i] \in MessageType
    BY <1>1
  <2> DEFINE m == [wire[i] EXCEPT !.cancelled = TRUE]
  <2>2. m \in MessageType /\ m.cancelled
    BY <2>1 DEF MessageType
  <2> HIDE DEF m
  <2>3. m \in MailFor(shown)
    BY <2>2 DEF MailFor
  <2> QED BY <2>3 DEF m
<1> QED BY <1>1, <1>2 DEF Cancelled

\* The session effect makes d the distro shown, drops the session and every answer to
\* come, and is itself owed the next one.
LEMMA SessionEffectAsks ==
  ASSUME Inv, PanelInv, UNCHANGED typed, NEW d \in Distros, NEW p \in PanelType,
         SessionEffect(d, p)
  PROVE  PanelInv'
<1>1. panel \in PanelType /\ Forget(p, d) \in PanelType
  BY DEF Inv, TypeOK, PanelType, Forget, Statuses, Dead
<1>2. Forget(p, d).distro = d /\ Forget(p, d).sid = NoDistro
  BY DEF Forget, PanelType
<1>3. panel'.distro = d /\ panel'.sid = NoDistro
  BY <1>1, <1>2, HealKeepsPlace DEF SessionEffect
<1>4. Cancelled(wire) \in Seq(MailFor(d))
  BY CancelledIsForAll DEF Inv
<1>5. \A e \in Distros : ~Unwanted(session)[e].wanted
  BY DEF Unwanted, Inv, TypeOK
<1>6. Unwanted(session) \in [Distros -> SessionType]
  BY CancelKeeps DEF Inv
<1>7. Ensure(d, Unwanted(session), Cancelled(wire))
  BY DEF SessionEffect
<1> HIDE DEF Unwanted, Cancelled
<1>8. /\ wire' \in Seq(MailFor(d))
      /\ \A e \in Distros : session'[e].wanted => e = d
  <2>1. CASE Reusable(Unwanted(session)[d])
    <3>1. Answer(d, Unwanted(session)[d].status) \in MailFor(d)
      BY <1>6 DEF Answer, MailFor, MessageType, SessionType
    <3>2. /\ session' = Unwanted(session)
          /\ wire' = Append(Cancelled(wire), Answer(d, Unwanted(session)[d].status))
      BY <1>7, <2>1 DEF Ensure
    <3> QED BY <1>4, <1>5, <3>1, <3>2
  <2>2. CASE ~Reusable(Unwanted(session)[d])
    <3>1. wire' = Cancelled(wire) /\ session' = [Unwanted(session) EXCEPT ![d] = NewSession]
      BY <1>7, <2>2 DEF Ensure
    <3> QED BY <1>4, <1>5, <1>6, <3>1
  <2> QED BY <2>1, <2>2
<1> QED BY <1>3, <1>8 DEF PanelInv, PreparedReachesSelected

\* No session and no mail at the start.
LEMMA InitPanelInv == Init => PanelInv
  BY DEF Init, PanelInv, NoSession, PreparedReachesSelected

\* Every step keeps what the panel holds tied to the manager's sessions.
LEMMA NextKeepsPanelInv == Inv /\ PanelInv /\ [Next]_vars => PanelInv'
<1> SUFFICES ASSUME Inv, PanelInv, [Next]_vars PROVE PanelInv'
  OBVIOUS
<1>1. /\ panel \in PanelType
      /\ session \in [Distros -> SessionType]
      /\ wire \in Seq(MessageType)
  BY DEF Inv, TypeOK, PanelType, SessionType, MessageType
<1>2. wire \in Seq(MailFor(panel.distro))
  BY DEF PanelInv
<1>3. ASSUME NEW d \in Distros, NEW outcome, Spawned(d, outcome) PROVE PanelInv'
  <2> DEFINE status == SpawnStatus(outcome)
             answer == [Answer(d, status) EXCEPT !.cancelled = ~session[d].wanted]
             opened == [status |-> status, pty |-> IF outcome = "failed" THEN "none" ELSE "open",
                        everReady |-> outcome = "plain", wanted |-> FALSE]
  <2>1. /\ outcome \in SpawnOutcomes
        /\ session' = [session EXCEPT ![d] = opened]
        /\ wire' = Append(wire \o SpawnEvent(d, outcome), answer)
        /\ UNCHANGED <<panel, typed>>
    BY <1>3 DEF Spawned
  <2>2. status \in Statuses
    BY <2>1 DEF SpawnOutcomes, SpawnStatus, Statuses, Dead
  <2>3. SpawnEvent(d, outcome) \in Seq(MailFor(panel.distro))
    BY <2>1, SpawnEventIsForAll
  <2>4. answer \in MailFor(panel.distro)
    <3>1. session[d].wanted \in BOOLEAN /\ (session[d].wanted => d = panel.distro)
      BY <1>1 DEF SessionType, PanelInv
    <3>2. answer = [kind |-> "answer", distro |-> d, status |-> status,
                    cancelled |-> ~session[d].wanted]
      BY DEF Answer
    <3> HIDE DEF answer, status
    <3>3. answer \in MessageType /\ (~answer.cancelled => answer.distro = panel.distro)
      BY <2>2, <3>1, <3>2 DEF MessageType
    <3> QED BY <3>3 DEF MailFor
  <2>5. ~opened.wanted
    OBVIOUS
  <2> HIDE DEF answer, opened, status
  <2>6. wire' \in Seq(MailFor(panel.distro))
    BY <1>2, <2>1, <2>3, <2>4
  <2> QED BY <1>1, <2>1, <2>5, <2>6 DEF PanelInv, PreparedReachesSelected
<1>4. ASSUME NEW d \in Distros, NEW outcome, OrphanSpawned(d, outcome) PROVE PanelInv'
  <2>1. /\ outcome \in SpawnOutcomes
        /\ wire' = wire \o SpawnEvent(d, outcome)
        /\ UNCHANGED <<session, panel, typed>>
    BY <1>4 DEF OrphanSpawned
  <2>2. SpawnEvent(d, outcome) \in Seq(MailFor(panel.distro))
    BY <2>1, SpawnEventIsForAll
  <2>3. wire' \in Seq(MailFor(panel.distro))
    BY <1>2, <2>1, <2>2
  <2> QED BY <2>1, <2>3 DEF PanelInv, PreparedReachesSelected
<1>5. ASSUME NEW d \in Distros, Prompt(d) PROVE PanelInv'
  <2>1. /\ wire' = Append(wire, Event(d, "ready"))
        /\ UNCHANGED <<panel, typed>>
    BY <1>5 DEF Prompt
  <2>2. \A e \in Distros : session'[e].wanted = session[e].wanted
    <3> DEFINE first == [session EXCEPT ![d].status = "ready"]
    <3>1. session' = [first EXCEPT ![d].everReady = TRUE]
      BY <1>5 DEF Prompt
    <3>2. /\ first \in [Distros -> SessionType]
          /\ \A e \in Distros : first[e].wanted = session[e].wanted
      BY <1>1 DEF SessionType, Statuses
    <3> HIDE DEF first
    <3> QED BY <3>1, <3>2 DEF SessionType
  <2>3. wire' \in Seq(MailFor(panel.distro))
    BY <1>2, <2>1, EventIsForAll DEF Statuses
  <2> QED BY <2>1, <2>2, <2>3 DEF PanelInv, PreparedReachesSelected
<1>6. ASSUME NEW d \in Distros, HandleExit(d) PROVE PanelInv'
  <2> DEFINE status == IF session[d].everReady THEN "disconnected" ELSE "distro-stopped"
  <2>1. /\ wire' = Append(wire, Event(d, status))
        /\ UNCHANGED <<panel, typed>>
    BY <1>6 DEF HandleExit
  <2>2. status \in Statuses
    BY DEF Statuses, Dead
  <2>3. \A e \in Distros : session'[e].wanted = session[e].wanted
    <3> DEFINE first == [session EXCEPT ![d].status = status]
    <3>1. session' = [first EXCEPT ![d].pty = "none"]
      BY <1>6 DEF HandleExit
    <3> HIDE DEF status
    <3>2. /\ first \in [Distros -> SessionType]
          /\ \A e \in Distros : first[e].wanted = session[e].wanted
      BY <1>1, <2>2 DEF SessionType
    <3> HIDE DEF first
    <3> QED BY <3>1, <3>2 DEF SessionType
  <2>4. wire' \in Seq(MailFor(panel.distro))
    BY <1>2, <2>1, <2>2, EventIsForAll
  <2> QED BY <2>1, <2>3, <2>4 DEF PanelInv, PreparedReachesSelected
<1>7. ASSUME NEW d \in Distros, SelectDistro(d) PROVE PanelInv'
  BY <1>1, <1>7, SessionEffectAsks DEF SelectDistro
<1>8. ASSUME AutoRetry \/ Reconnect PROVE PanelInv'
  <2>1. panel.distro \in Distros
    BY <1>1, <1>8 DEF AutoRetry, Reconnect, PanelType, Inv, TimerIsDue
  <2>2. CASE AutoRetry
    <3> DEFINE half == [panel EXCEPT !.retries = @ + 1]
               p == [half EXCEPT !.timer = FALSE]
    <3>1. SessionEffect(panel.distro, p) /\ UNCHANGED typed
      BY <2>2 DEF AutoRetry
    <3>2. half \in PanelType
      BY <1>1, <2>2, RetryAssumption DEF AutoRetry, Inv, TimerIsDue, PanelType
    <3> HIDE DEF half
    <3>3. p \in PanelType
      BY <3>2 DEF PanelType
    <3> HIDE DEF p
    <3> QED BY <2>1, <3>1, <3>3, SessionEffectAsks
  <2>3. CASE Reconnect
    <3> DEFINE p == [panel EXCEPT !.retries = 0]
    <3>1. SessionEffect(panel.distro, p) /\ UNCHANGED typed
      BY <2>3 DEF Reconnect
    <3>2. p \in PanelType
      BY <1>1, RetryAssumption DEF PanelType
    <3> HIDE DEF p
    <3> QED BY <2>1, <3>1, <3>2, SessionEffectAsks
  <2> QED BY <1>8, <2>2, <2>3
<1>9. ASSUME Deliver PROVE PanelInv'
  <2> DEFINE m == Head(wire)
             q == Handled(panel, m)
             shown == Shown(panel, running)
  <2>1. wire # <<>> /\ wire' = Tail(wire) /\ UNCHANGED <<session, typed>>
    BY <1>9 DEF Deliver
  <2>2. m \in MailFor(panel.distro) /\ wire' \in Seq(MailFor(panel.distro))
    BY <1>2, <2>1
  <2>3. m \in MessageType
    BY <2>2 DEF MailFor
  <2>4. panel' = panel \/ (Accepts(panel, m) /\ panel' = Heal(panel, q, shown, shown))
    BY <1>9 DEF Deliver
  <2>5. ASSUME Accepts(panel, m)
        PROVE  q \in PanelType /\ q.distro = panel.distro /\ q.sid \in {NoDistro, panel.distro}
    <3>1. CASE m.kind = "answer"
      <4>1. m.distro = panel.distro
        BY <2>2, <2>5, <3>1 DEF Accepts, MailFor
      <4> DEFINE half == [panel EXCEPT !.sid = m.distro]
                 whole == [half EXCEPT !.status = m.status]
      <4>2. half \in PanelType /\ half.distro = panel.distro /\ half.sid = panel.distro
        BY <1>1, <2>3, <4>1 DEF PanelType, MessageType
      <4>3. q = whole
        BY <3>1 DEF Handled
      <4> HIDE DEF half
      <4>4. whole \in PanelType /\ whole.distro = panel.distro /\ whole.sid = panel.distro
        BY <2>3, <4>2 DEF PanelType, MessageType
      <4> QED BY <4>3, <4>4
    <3>2. CASE m.kind # "answer"
      <4>1. q = [panel EXCEPT !.status = m.status]
        BY <3>2 DEF Handled
      <4>2. panel.sid \in {NoDistro, panel.distro}
        BY DEF PanelInv
      <4> QED BY <1>1, <2>3, <4>1, <4>2 DEF PanelType, MessageType
    <3> QED BY <3>1, <3>2
  <2> HIDE DEF m, q, shown
  <2>6. panel'.distro = panel.distro /\ panel'.sid \in {NoDistro, panel.distro}
    BY <1>1, <2>4, <2>5, HealKeepsPlace DEF PanelInv
  <2> QED BY <2>1, <2>2, <2>6 DEF PanelInv, PreparedReachesSelected
<1>10. ASSUME NEW d \in Distros, Flip(d) PROVE PanelInv'
  <2>1. /\ panel' = Heal(panel, panel, Shown(panel, running), Shown(panel, running'))
        /\ UNCHANGED <<session, wire, typed>>
    BY <1>10 DEF Flip
  <2>2. panel'.distro = panel.distro /\ panel'.sid = panel.sid
    BY <1>1, <2>1, HealKeepsPlace
  <2> QED BY <2>1, <2>2 DEF PanelInv, PreparedReachesSelected
<1>11. ASSUME InsertPrepared PROVE PanelInv'
  <2>1. /\ \/ typed' = typed
           \/ panel.sid # NoDistro /\ typed' = typed \union {<<panel.distro, panel.sid>>}
        /\ UNCHANGED <<session, wire, panel>>
    BY <1>11 DEF InsertPrepared
  <2>2. PreparedReachesSelected'
    BY <2>1 DEF PanelInv, PreparedReachesSelected
  <2> QED BY <2>1, <2>2 DEF PanelInv
<1>12. ASSUME DisposeAll PROVE PanelInv'
  <2>1. session' = [d \in Distros |-> NoSession] /\ UNCHANGED <<wire, panel, typed>>
    BY <1>12 DEF DisposeAll
  <2> QED BY <2>1 DEF PanelInv, PreparedReachesSelected, NoSession
<1>13. ASSUME UNCHANGED vars PROVE PanelInv'
  BY <1>13 DEF vars, PanelInv, PreparedReachesSelected
<1> QED BY <1>3, <1>4, <1>5, <1>6, <1>7, <1>8, <1>9, <1>10, <1>11, <1>12, <1>13
     DEF Next, Settles

\* A prepared command reaches the console of the distro on screen and no other, for any
\* distros and however selections, retries, late answers and exits overlap
\* (ConsolePanel's session effect and its insert handler).
THEOREM PreparedIsForSelected == Spec => []PreparedReachesSelected
<1>1. PanelInv => PreparedReachesSelected
  BY DEF PanelInv
<1> QED BY <1>1, InitPanelInv, NextKeepsPanelInv, InvAlways, PTL DEF Spec

-----------------------------------------------------------------------------
(* What the panel shows once its mail is read *)

\* The answers on the wire that still count, and what is said there of d's session.
Due(w) == {i \in 1..Len(w) : w[i].kind = "answer" /\ ~w[i].cancelled}
News(w, d) ==
  {i \in 1..Len(w) : w[i].distro = d /\ (w[i].kind = "status" \/ ~w[i].cancelled)}

\* The panel will show the session of its distro with this status: it has the session or
\* will be answered, and the last that is said of it, or else what is shown, is the status.
Tells(w, p, status) ==
  /\ p.sid = p.distro \/ Due(w) # {}
  /\ \A i \in News(w, p.distro) :
       (\A j \in News(w, p.distro) : j <= i) => w[i].status = status
  /\ News(w, p.distro) = {} => p.status = status

\* A session effect that waits for a spawn has no session and no answer on the wire;
\* otherwise the mail tells the state of the session on screen.
TellInv ==
  ~quitting =>
    /\ \A d \in Distros : /\ session[d].wanted => session[d].pty = "opening"
                          /\ session[d].pty = "opening" => session[d].status = "running"
    /\ panel.distro # NoDistro =>
         IF session[panel.distro].wanted THEN panel.sid = NoDistro /\ Due(wire) = {}
         ELSE Tells(wire, panel, session[panel.distro].status)

\* The self-healing effect does not touch the status either.
LEMMA HealKeepsStatus ==
  ASSUME NEW p \in PanelType, NEW q \in PanelType, NEW was, NEW is
  PROVE  Heal(p, q, was, is).status = q.status
<1> DEFINE s == [q EXCEPT !.retries = 0]
           left == q.retries < MaxAutoRetries
<1>1. Heal(p, q, was, is) \in {q, [s EXCEPT !.timer = FALSE], [q EXCEPT !.timer = left]}
  BY DEF Heal
<1>2. s.status = q.status /\ DOMAIN s = DOMAIN q
  BY DEF PanelType
<1> HIDE DEF s, left
<1> QED BY <1>1, <1>2 DEF PanelType

\* Tells looks at three fields of the panel.
LEMMA TellsOf ==
  ASSUME NEW w, NEW p, NEW q, NEW status, Tells(w, p, status),
         q.distro = p.distro, q.sid = p.sid, q.status = p.status
  PROVE  Tells(w, q, status)
  BY DEF Tells

\* A message sent goes to the end of the mail; it is due if it is an answer still wanted.
LEMMA Posted ==
  ASSUME NEW w \in Seq(MessageType), NEW m \in MessageType, NEW d
  PROVE  /\ Len(w) \in Nat /\ Len(Append(w, m)) = Len(w) + 1
         /\ Append(w, m)[Len(w) + 1] = m /\ \A i \in 1..Len(w) : Append(w, m)[i] = w[i]
         /\ Due(w) \subseteq Due(Append(w, m))
         /\ Len(w) + 1 \in Due(Append(w, m)) <=> m.kind = "answer" /\ ~m.cancelled
         /\ Due(Append(w, m)) \subseteq Due(w) \union {Len(w) + 1}
         /\ News(w, d) \subseteq News(Append(w, m), d)
         /\ Len(w) + 1 \in News(Append(w, m), d)
              <=> m.distro = d /\ (m.kind = "status" \/ ~m.cancelled)
         /\ News(Append(w, m), d) \subseteq News(w, d) \union {Len(w) + 1}
<1> DEFINE x == Append(w, m)
           n == Len(w)
<1>1. n \in Nat /\ Len(x) = n + 1 /\ x[n + 1] = m /\ \A i \in 1..n : x[i] = w[i]
  OBVIOUS
<1> HIDE DEF x, n
<1>2. n + 1 \in 1..(n + 1) /\ 1..n \subseteq 1..(n + 1) /\ 1..(n + 1) \subseteq (1..n) \union {n + 1}
  BY <1>1
<1>3. /\ Due(w) \subseteq Due(x)
      /\ n + 1 \in Due(x) <=> m.kind = "answer" /\ ~m.cancelled
      /\ Due(x) \subseteq Due(w) \union {n + 1}
  BY <1>1, <1>2 DEF Due, n
<1>4. /\ News(w, d) \subseteq News(x, d)
      /\ n + 1 \in News(x, d) <=> m.distro = d /\ (m.kind = "status" \/ ~m.cancelled)
      /\ News(x, d) \subseteq News(w, d) \union {n + 1}
  BY <1>1, <1>2 DEF News, n
<1> QED BY <1>1, <1>3, <1>4 DEF x, n

\* No answer becomes due by a message that is none.
LEMMA NoneDue ==
  ASSUME NEW w \in Seq(MessageType), NEW m \in MessageType, Due(w) = {},
         m.kind = "answer" => m.cancelled
  PROVE  Due(Append(w, m)) = {}
<1>1. \A d : /\ Len(w) + 1 \in Due(Append(w, m)) <=> m.kind = "answer" /\ ~m.cancelled
             /\ Due(Append(w, m)) \subseteq Due(w) \union {Len(w) + 1}
  BY Posted
<1> QED BY <1>1

\* What is said last of the session on screen is what will be shown.
LEMMA TellsNews ==
  ASSUME NEW w \in Seq(MessageType), NEW m \in MessageType, NEW p, NEW status,
         m.distro = p.distro, m.status = status, m.kind = "status" \/ ~m.cancelled,
         p.sid = p.distro \/ Due(w) # {} \/ (m.kind = "answer" /\ ~m.cancelled)
  PROVE  Tells(Append(w, m), p, status)
<1> DEFINE x == Append(w, m)
           n == Len(w)
           d == p.distro
<1>1. /\ n \in Nat /\ x[n + 1] = m /\ Due(w) \subseteq Due(x)
      /\ n + 1 \in Due(x) <=> m.kind = "answer" /\ ~m.cancelled
      /\ n + 1 \in News(x, d)
      /\ News(x, d) \subseteq News(w, d) \union {n + 1}
  BY Posted
<1>2. \A i \in News(w, d) : i \in Nat /\ i <= n
  BY <1>1 DEF News
<1> HIDE DEF x, n
<1>3. ASSUME NEW i \in News(x, d), \A j \in News(x, d) : j <= i PROVE x[i].status = status
  <2>1. i = n + 1
    BY <1>1, <1>2, <1>3
  <2> QED BY <1>1, <2>1
<1> QED BY <1>1, <1>3 DEF Tells, x

\* What is said of another session, or to nobody, changes nothing.
LEMMA TellsOther ==
  ASSUME NEW w \in Seq(MessageType), NEW m \in MessageType, NEW p, NEW status, Tells(w, p, status),
         m.distro # p.distro \/ (m.kind = "answer" /\ m.cancelled)
  PROVE  Tells(Append(w, m), p, status)
<1> DEFINE x == Append(w, m)
           n == Len(w)
           d == p.distro
<1>0. ~(m.distro = d /\ (m.kind = "status" \/ ~m.cancelled))
  OBVIOUS
<1>1. /\ \A i \in 1..n : x[i] = w[i]
      /\ Due(w) \subseteq Due(x)
      /\ n + 1 \in News(x, d) <=> m.distro = d /\ (m.kind = "status" \/ ~m.cancelled)
      /\ News(w, d) \subseteq News(x, d)
      /\ News(x, d) \subseteq News(w, d) \union {n + 1}
  BY Posted
<1>2. News(x, d) = News(w, d) /\ \A i \in News(w, d) : x[i] = w[i]
  BY <1>0, <1>1 DEF News
<1> HIDE DEF x, n
<1> QED BY <1>1, <1>2 DEF Tells, x

\* A message is read.  It was the answer, and the session is there; or news of it; or of
\* no concern, and there is later news of the session than that.
LEMMA TellsRead ==
  ASSUME NEW w \in Seq(MessageType), w # <<>>, NEW p \in PanelType, NEW q, NEW status,
         p.sid \in {NoDistro, p.distro}, p.distro \in Distros, Tells(w, p, status),
         \A i \in Due(w) : w[i].distro = p.distro,
         IF Accepts(p, Head(w))
         THEN q.distro = p.distro /\ q.sid = p.distro /\ q.status = Head(w).status
         ELSE q = p
  PROVE  Tells(Tail(w), q, status)
<1> DEFINE x == Tail(w)
           m == Head(w)
           n == Len(w)
           d == p.distro
<1>1. /\ m \in MessageType /\ m = w[1] /\ n \in Nat /\ n > 0
      /\ Len(x) = n - 1 /\ \A i \in 1..(n - 1) : x[i] = w[i + 1]
  OBVIOUS
<1> HIDE DEF x, m, n
<1>2. \A i \in 1..n : i = 1 \/ i - 1 \in 1..(n - 1)
  BY <1>1
<1>3. \A i \in 1..(n - 1) : i + 1 \in 1..n /\ i + 1 # 1 /\ (i + 1) - 1 = i
  BY <1>1
<1>4. \A i \in News(x, d) : i + 1 \in News(w, d) /\ x[i] = w[i + 1] /\ i \in Nat
  BY <1>1, <1>3 DEF News, n
<1>5. \A i \in News(w, d) : i = 1 \/ i - 1 \in News(x, d)
  <2> SUFFICES ASSUME NEW i \in News(w, d), i # 1 PROVE i - 1 \in News(x, d)
    OBVIOUS
  <2>1. i \in 1..n /\ i - 1 \in 1..(n - 1) /\ (i - 1) + 1 = i
    BY <1>1, <1>2 DEF News, n
  <2>2. x[i - 1] = w[i]
    BY <1>1, <2>1
  <2> QED BY <1>1, <2>1, <2>2 DEF News
<1>6. \A i \in Due(w) : i = 1 \/ i - 1 \in Due(x)
  <2> SUFFICES ASSUME NEW i \in Due(w), i # 1 PROVE i - 1 \in Due(x)
    OBVIOUS
  <2>1. i \in 1..n /\ i - 1 \in 1..(n - 1) /\ (i - 1) + 1 = i
    BY <1>1, <1>2 DEF Due, n
  <2>2. x[i - 1] = w[i]
    BY <1>1, <2>1
  <2> QED BY <1>1, <2>1, <2>2 DEF Due
<1>7. Due(x) \subseteq News(x, d)
  <2> SUFFICES ASSUME NEW i \in Due(x) PROVE i \in News(x, d)
    OBVIOUS
  <2>1. i \in 1..(n - 1) /\ x[i] = w[i + 1] /\ i + 1 \in 1..n
    BY <1>1, <1>3 DEF Due
  <2>2. i + 1 \in Due(w)
    BY <2>1 DEF Due, n
  <2> QED BY <2>1, <2>2 DEF Due, News
<1>8. 1 \in 1..n /\ (1 \in News(w, d) <=> m.distro = d /\ (m.kind = "status" \/ ~m.cancelled))
      /\ (1 \in Due(w) <=> m.kind = "answer" /\ ~m.cancelled)
  <2>1. 1 \in 1..n
    BY <1>1
  <2> QED BY <1>1, <2>1 DEF News, Due, n
\* The last news on the tail is the last news on the wire.
<1>9. ASSUME NEW i \in News(x, d), \A j \in News(x, d) : j <= i PROVE x[i].status = status
  <2>1. i + 1 \in News(w, d) /\ x[i] = w[i + 1] /\ i \in Nat /\ i >= 1
    BY <1>4 DEF News
  <2>2. \A j \in News(w, d) : j \in Nat /\ (j = 1 \/ j - 1 <= i)
    BY <1>5, <1>9 DEF News
  <2>3. \A j \in News(w, d) : j <= i + 1
    BY <2>1, <2>2
  <2> QED BY <2>1, <2>3 DEF Tells
<1>10. CASE Accepts(p, m)
  <2>1. 1 \in News(w, d) /\ q.distro = d /\ q.sid = d /\ q.status = m.status
    <3>1. q.distro = d /\ q.sid = d /\ q.status = m.status
      BY <1>10 DEF m
    <3>2. CASE m.kind = "answer"
      BY <1>1, <1>8, <1>10, <3>1, <3>2 DEF Accepts
    <3>3. CASE m.kind = "status"
      <4>1. m.distro = p.sid /\ p.sid # NoDistro
        BY <1>1, <1>10, <3>3, DistroAssumption DEF Accepts, MessageType
      <4> QED BY <1>8, <3>1, <3>3, <4>1
    <3> QED BY <1>1, <3>2, <3>3 DEF MessageType
  <2>2. News(x, d) = {} => m.status = status
    <3> SUFFICES ASSUME News(x, d) = {} PROVE m.status = status
      OBVIOUS
    <3>1. \A j \in News(w, d) : j <= 1
      BY <1>5
    <3> QED BY <1>1, <2>1, <3>1 DEF Tells
  <2> QED BY <1>9, <2>1, <2>2 DEF Tells, x
<1>11. CASE ~Accepts(p, m)
  <2>1. q = p /\ 1 \notin Due(w)
    BY <1>8, <1>11 DEF Accepts, m
  <2>2. p.sid = d \/ Due(x) # {}
    BY <1>6, <2>1 DEF Tells
  <2>3. News(x, d) = {} => p.status = status
    <3> SUFFICES ASSUME News(x, d) = {} PROVE p.status = status
      OBVIOUS
    <3>1. p.sid = d
      BY <1>7, <2>2
    <3>2. 1 \notin News(w, d)
      BY <1>1, <1>8, <1>11, <3>1 DEF Accepts, MessageType
    <3> QED BY <1>5, <3>2 DEF Tells
  <2> QED BY <1>9, <2>1, <2>2, <2>3 DEF Tells, x
<1> QED BY <1>10, <1>11

\* The session effect is answered at once with the state of d's session, or waits for the
\* spawn it has begun; what was on the wire is forgotten.
LEMMA SessionEffectTells ==
  ASSUME Inv, TellInv, ~quitting, NEW d \in Distros, NEW p \in PanelType, SessionEffect(d, p)
  PROVE  TellInv'
<1> DEFINE sessions == Unwanted(session)
           mail == Cancelled(wire)
<1>1. panel \in PanelType /\ Forget(p, d) \in PanelType
  BY DEF Inv, TypeOK, PanelType, Forget, Statuses, Dead
<1>2. Forget(p, d).distro = d /\ Forget(p, d).sid = NoDistro
  BY DEF Forget, PanelType
<1>3. panel'.distro = d /\ panel'.sid = NoDistro
  BY <1>1, <1>2, HealKeepsPlace DEF SessionEffect
<1>4. /\ sessions \in [Distros -> SessionType] /\ mail \in Seq(MessageType)
      /\ \A e \in Distros : sessions[e].status = session[e].status /\ sessions[e].pty = session[e].pty
  BY CancelKeeps DEF Inv
<1>5. \A e \in Distros : ~sessions[e].wanted
  BY DEF Unwanted, Inv, TypeOK
<1>6. Due(mail) = {}
  <2>1. wire \in Seq(MessageType)
    BY DEF Inv, TypeOK, MessageType
  <2>2. \A i \in DOMAIN wire : mail[i].cancelled
    <3> SUFFICES ASSUME NEW i \in DOMAIN wire PROVE mail[i].cancelled
      OBVIOUS
    <3>1. wire[i] \in MessageType /\ mail[i] = [wire[i] EXCEPT !.cancelled = TRUE]
      BY <2>1 DEF Cancelled
    <3> QED BY <3>1 DEF MessageType
  <2>3. DOMAIN mail = DOMAIN wire /\ DOMAIN mail = 1..Len(mail)
    BY <1>4 DEF Cancelled
  <2> QED BY <2>2, <2>3 DEF Due
<1>7. Ensure(d, sessions, mail)
  BY DEF SessionEffect
<1> HIDE DEF sessions, mail
<1>8. CASE Reusable(sessions[d])
  <2> DEFINE answer == Answer(d, sessions[d].status)
  <2>1. session' = sessions /\ wire' = Append(mail, answer)
    BY <1>7, <1>8 DEF Ensure
  <2>2. /\ answer \in MessageType /\ answer.distro = d /\ answer.status = sessions[d].status
        /\ answer.kind = "answer" /\ ~answer.cancelled
    BY <1>4 DEF Answer, MessageType, SessionType
  <2> HIDE DEF answer
  <2>3. Tells(wire', panel', sessions[d].status)
    BY <1>3, <1>4, <2>1, <2>2, TellsNews
  <2> QED BY <1>3, <1>4, <1>5, <2>1, <2>3 DEF TellInv
<1>9. CASE ~Reusable(sessions[d])
  <2>1. wire' = mail /\ session' = [sessions EXCEPT ![d] = NewSession]
    BY <1>7, <1>9 DEF Ensure
  <2>2. NewSession.wanted /\ NewSession.pty = "opening" /\ NewSession.status = "running"
    BY DEF NewSession
  <2>3. \A e \in Distros : session'[e] = IF e = d THEN NewSession ELSE sessions[e]
    BY <1>4, <2>1
  <2> HIDE DEF NewSession
  <2> QED BY <1>3, <1>4, <1>5, <1>6, <2>1, <2>2, <2>3 DEF TellInv
<1> QED BY <1>8, <1>9

\* The mail of a distro that is not on screen, or whose answers are cancelled.
LEMMA OtherMailTells ==
  ASSUME Inv, TellInv, ~quitting, UNCHANGED panel,
         \A d \in Distros : /\ session'[d].wanted => session'[d].pty = "opening"
                            /\ session'[d].pty = "opening" => session'[d].status = "running",
         panel.distro # NoDistro => session'[panel.distro] = session[panel.distro],
         NEW m \in MessageType, m.distro # panel.distro, m.kind = "answer" => m.cancelled,
         wire' = Append(wire, m)
  PROVE  TellInv'
<1>1. wire \in Seq(MessageType)
  BY DEF Inv, TypeOK, MessageType
<1>2. Due(wire) = {} => Due(wire') = {}
  BY <1>1, NoneDue
<1>3. panel.distro # NoDistro /\ ~session[panel.distro].wanted =>
        Tells(wire', panel, session[panel.distro].status)
  BY <1>1, TellsOther DEF TellInv
<1> QED BY <1>2, <1>3 DEF TellInv

\* An event of d's session, whose status is the one it reports.
LEMMA EventTells ==
  ASSUME Inv, PanelInv, TellInv, ~quitting, UNCHANGED panel, NEW d \in Distros,
         ~session[d].wanted, session' \in [Distros -> SessionType],
         \A e \in Distros \ {d} : session'[e] = session[e],
         ~session'[d].wanted, session'[d].pty # "opening",
         wire' = Append(wire, Event(d, session'[d].status))
  PROVE  TellInv'
<1> DEFINE m == Event(d, session'[d].status)
<1>1. m \in MessageType /\ m.distro = d /\ m.kind = "status" /\ m.status = session'[d].status
  BY DEF Event, MessageType, SessionType
<1> HIDE DEF m
<1>2. wire \in Seq(MessageType) /\ wire' = Append(wire, m)
  BY DEF Inv, TypeOK, MessageType, m
<1>3. \A e \in Distros : /\ session'[e].wanted => session'[e].pty = "opening"
                         /\ session'[e].pty = "opening" => session'[e].status = "running"
  BY DEF TellInv
<1>4. CASE d # panel.distro
  <2>1. panel.distro \in Distros \union {NoDistro}
    BY DEF Inv, TypeOK
  <2> QED BY <1>1, <1>2, <1>3, <1>4, <2>1, OtherMailTells
<1>5. CASE d = panel.distro
  <2>1. panel.sid = panel.distro \/ Due(wire) # {}
    BY <1>5, DistroAssumption DEF TellInv, Tells
  <2>2. Tells(wire', panel, session'[d].status)
    BY <1>1, <1>2, <1>5, <2>1, TellsNews
  <2> QED BY <1>3, <1>5, <2>2 DEF TellInv
<1> QED BY <1>4, <1>5

\* A spawn settles: the effect that waits for it is answered, and where none does the
\* event tells what became of it.
LEMMA SpawnedTells ==
  ASSUME Inv, PanelInv, TellInv, ~quitting, NEW d \in Distros, NEW outcome, Spawned(d, outcome)
  PROVE  TellInv'
<1> DEFINE status == SpawnStatus(outcome)
           event == Event(d, status)
           answer == [Answer(d, status) EXCEPT !.cancelled = ~session[d].wanted]
           opened == [status |-> status, pty |-> IF outcome = "failed" THEN "none" ELSE "open",
                      everReady |-> outcome = "plain", wanted |-> FALSE]
           w == wire \o SpawnEvent(d, outcome)
<1>1. /\ outcome \in SpawnOutcomes /\ session[d].pty = "opening"
      /\ session' = [session EXCEPT ![d] = opened]
      /\ wire' = Append(w, answer)
      /\ UNCHANGED panel
  BY DEF Spawned
<1>2. status \in Statuses /\ (outcome = "hooked" => status = "running")
  BY <1>1 DEF SpawnOutcomes, SpawnStatus, Statuses, Dead
<1>3. /\ session \in [Distros -> SessionType] /\ wire \in Seq(MessageType)
      /\ panel.distro \in Distros \union {NoDistro}
  BY DEF Inv, TypeOK, SessionType, MessageType
<1>4. event \in MessageType /\ event.distro = d /\ event.kind = "status" /\ event.status = status
  BY <1>2 DEF Event, MessageType
<1>5. /\ answer \in MessageType /\ answer.distro = d /\ answer.kind = "answer"
      /\ answer.status = status /\ answer.cancelled = ~session[d].wanted
  <2>1. session[d].wanted \in BOOLEAN
    BY <1>3 DEF SessionType
  <2>2. answer = [kind |-> "answer", distro |-> d, status |-> status,
                  cancelled |-> ~session[d].wanted]
    BY DEF Answer
  <2> HIDE DEF answer, status
  <2> QED BY <1>2, <2>1, <2>2 DEF MessageType
<1>6. (outcome = "hooked" /\ w = wire) \/ w = Append(wire, event)
  <2>1. SpawnEvent(d, outcome) = IF outcome = "hooked" THEN <<>> ELSE <<event>>
    BY DEF SpawnEvent
  <2> HIDE DEF event
  <2> QED BY <1>3, <1>4, <2>1
<1>7. ~opened.wanted /\ opened.pty # "opening" /\ opened.status = status
  OBVIOUS
<1> HIDE DEF status, event, answer, opened, w
<1>8. w \in Seq(MessageType)
  BY <1>3, <1>4, <1>6
<1>9. \A e \in Distros : /\ session'[e].wanted => session'[e].pty = "opening"
                         /\ session'[e].pty = "opening" => session'[e].status = "running"
  BY <1>1, <1>3, <1>7 DEF TellInv
<1>10. CASE d # panel.distro
  <2>1. answer.cancelled
    BY <1>5, <1>10 DEF PanelInv
  <2>2. Due(wire) = {} => Due(wire') = {}
    <3>1. Due(wire) = {} => Due(w) = {}
      BY <1>3, <1>4, <1>6, NoneDue
    <3>2. Due(w) = {} => Due(wire') = {}
      BY <1>1, <1>5, <1>8, <2>1, NoneDue
    <3> QED BY <3>1, <3>2
  <2>3. ASSUME NEW s, Tells(wire, panel, s) PROVE Tells(wire', panel, s)
    <3>1. Tells(w, panel, s)
      BY <1>3, <1>4, <1>6, <1>10, <2>3, TellsOther
    <3> QED BY <1>1, <1>5, <1>8, <1>10, <3>1, TellsOther
  <2>4. panel.distro # NoDistro => session'[panel.distro] = session[panel.distro]
    BY <1>1, <1>3, <1>10
  <2> QED BY <1>1, <1>9, <2>2, <2>3, <2>4 DEF TellInv
<1>11. CASE d = panel.distro /\ session[d].wanted
  <2>1. Tells(wire', panel, status)
    BY <1>1, <1>5, <1>8, <1>11, TellsNews
  <2> QED BY <1>1, <1>3, <1>7, <1>9, <1>11, <2>1 DEF TellInv
<1>12. CASE d = panel.distro /\ ~session[d].wanted
  <2>1. Tells(wire, panel, "running")
    BY <1>1, <1>12, DistroAssumption DEF TellInv
  <2>2. Tells(w, panel, status)
    <3>1. CASE outcome = "hooked" /\ w = wire
      BY <1>2, <2>1, <3>1
    <3>2. CASE w = Append(wire, event)
      BY <1>3, <1>4, <1>12, <2>1, <3>2, TellsNews DEF Tells
    <3> QED BY <1>6, <3>1, <3>2
  <2>3. Tells(wire', panel, status)
    BY <1>1, <1>5, <1>8, <1>12, <2>2, TellsOther
  <2> QED BY <1>1, <1>3, <1>7, <1>9, <1>12, <2>3 DEF TellInv
<1> QED BY <1>10, <1>11, <1>12

\* A message is handled, or passed over, as TellsRead says.
LEMMA DeliverTells ==
  ASSUME Inv, PanelInv, TellInv, ~quitting, Deliver
  PROVE  TellInv'
<1> DEFINE m == Head(wire)
           q == Handled(panel, m)
           shown == Shown(panel, running)
<1>1. wire # <<>> /\ wire' = Tail(wire) /\ UNCHANGED session
  BY DEF Deliver
<1>2. wire \in Seq(MessageType) /\ panel \in PanelType /\ m \in MessageType
  <2>1. wire \in Seq(MessageType) /\ panel \in PanelType
    BY DEF Inv, TypeOK, MessageType, PanelType
  <2> QED BY <1>1, <2>1
<1>3. \A i \in Due(wire) : wire[i].distro = panel.distro
  <2> SUFFICES ASSUME NEW i \in Due(wire) PROVE wire[i].distro = panel.distro
    OBVIOUS
  <2>1. wire[i] \in MailFor(panel.distro)
    BY DEF PanelInv, Due
  <2> QED BY <2>1 DEF MailFor, Due
<1>4. m = wire[1] /\ (m.kind = "answer" /\ ~m.cancelled => 1 \in Due(wire))
  BY <1>1, <1>2 DEF Due
<1>5. panel.sid \in {NoDistro, panel.distro}
  BY DEF PanelInv
<1>6. IF Accepts(panel, m)
      THEN panel'.distro = panel.distro /\ panel'.sid = panel.distro /\ panel'.status = m.status
      ELSE panel' = panel
  <2>1. CASE Accepts(panel, m)
    <3>1. panel' = Heal(panel, q, shown, shown)
      BY <2>1 DEF Deliver
    <3>2. q \in PanelType /\ q.distro = panel.distro /\ q.sid = panel.distro /\ q.status = m.status
      <4>1. CASE m.kind = "answer"
        <5>1. m.distro = panel.distro
          BY <1>3, <1>4, <2>1, <4>1 DEF Accepts
        <5> DEFINE half == [panel EXCEPT !.sid = m.distro]
                   whole == [half EXCEPT !.status = m.status]
        <5>2. half \in PanelType /\ half.distro = panel.distro /\ half.sid = panel.distro
          BY <1>2, <5>1 DEF PanelType, MessageType
        <5>3. q = whole
          BY <4>1 DEF Handled
        <5> HIDE DEF half
        <5>4. /\ whole \in PanelType /\ whole.distro = panel.distro
              /\ whole.sid = panel.distro /\ whole.status = m.status
          BY <1>2, <5>2 DEF PanelType, MessageType
        <5> QED BY <5>3, <5>4
      <4>2. CASE m.kind # "answer"
        <5>1. q = [panel EXCEPT !.status = m.status]
          BY <4>2 DEF Handled
        <5>2. panel.sid = panel.distro
          BY <1>2, <1>5, <2>1, <4>2, DistroAssumption DEF Accepts, MessageType
        <5> QED BY <1>2, <5>1, <5>2 DEF PanelType, MessageType
      <4> QED BY <4>1, <4>2
    <3> HIDE DEF m, q, shown
    <3> QED BY <1>2, <2>1, <3>1, <3>2, HealKeepsPlace, HealKeepsStatus
  <2>2. CASE ~Accepts(panel, m)
    BY <2>2 DEF Deliver
  <2> QED BY <2>1, <2>2
<1> HIDE DEF m
<1>7. panel'.distro = panel.distro
  BY <1>6
<1>8. CASE panel.distro = NoDistro
  BY <1>1, <1>7, <1>8 DEF TellInv
<1>9. CASE panel.distro # NoDistro /\ session[panel.distro].wanted
  <2>1. panel.sid = NoDistro /\ Due(wire) = {}
    BY <1>1, <1>9 DEF TellInv
  <2>2. ~Accepts(panel, m)
    BY <1>2, <1>4, <2>1, DistroAssumption DEF Accepts, MessageType
  <2>3. Due(wire') = {}
    <3>1. \A i \in 1..Len(wire') : i + 1 \in 1..Len(wire) /\ wire'[i] = wire[i + 1]
      BY <1>1, <1>2
    <3> QED BY <2>1, <3>1 DEF Due
  <2> QED BY <1>1, <1>6, <1>9, <2>1, <2>2, <2>3 DEF TellInv
<1>10. CASE panel.distro # NoDistro /\ ~session[panel.distro].wanted
  <2>1. panel.distro \in Distros /\ Tells(wire, panel, session[panel.distro].status)
    BY <1>1, <1>2, <1>10 DEF TellInv, PanelType
  <2>2. Tells(wire', panel', session[panel.distro].status)
    BY <1>1, <1>2, <1>3, <1>5, <1>6, <2>1, TellsRead DEF m
  <2> QED BY <1>1, <1>7, <1>10, <2>2 DEF TellInv
<1> QED BY <1>8, <1>9, <1>10

\* Every step keeps the news about the panel's session on its way or told.
LEMMA NextKeepsTellInv == Inv /\ PanelInv /\ TellInv /\ [Next]_vars => TellInv'
<1> SUFFICES ASSUME Inv, PanelInv, TellInv, [Next]_vars, ~quitting' PROVE TellInv'
  BY DEF TellInv
<1>1. panel \in PanelType /\ session \in [Distros -> SessionType]
  BY DEF Inv, TypeOK, PanelType, SessionType
<1>2. ~quitting /\ ~DisposeAll
  <2>1. ~DisposeAll
    BY DEF DisposeAll
  <2>2. ASSUME NEW d \in Distros,
               \/ \E outcome \in SpawnOutcomes : Spawned(d, outcome) \/ OrphanSpawned(d, outcome)
               \/ Prompt(d) \/ HandleExit(d) \/ SelectDistro(d) \/ Flip(d)
        PROVE  quitting' = quitting
    BY <2>2 DEF Spawned, OrphanSpawned, Prompt, HandleExit, SelectDistro, Flip
  <2>3. AutoRetry \/ Reconnect \/ Deliver \/ InsertPrepared \/ UNCHANGED vars => quitting' = quitting
    BY DEF AutoRetry, Reconnect, Deliver, InsertPrepared, vars
  <2> QED BY <2>1, <2>2, <2>3 DEF Next, Settles
<1>3. ASSUME UNCHANGED <<session, wire>>, panel'.distro = panel.distro,
             panel'.sid = panel.sid, panel'.status = panel.status
      PROVE  TellInv'
  BY <1>2, <1>3, TellsOf DEF TellInv
<1>4. ASSUME NEW d \in Distros, NEW outcome, Spawned(d, outcome) PROVE TellInv'
  BY <1>2, <1>4, SpawnedTells
<1>5. ASSUME NEW d \in Distros, NEW outcome PROVE ~OrphanSpawned(d, outcome)
  BY <1>2 DEF OrphanSpawned, Inv, OnlyQuittingOrphans, NoOrphan
<1>6. ASSUME NEW d \in Distros, Prompt(d) PROVE TellInv'
  <2> DEFINE first == [session EXCEPT ![d].status = "ready"]
  <2>1. session' = [first EXCEPT ![d].everReady = TRUE]
    BY <1>6 DEF Prompt
  <2>2. /\ first \in [Distros -> SessionType]
        /\ \A e \in Distros \ {d} : first[e] = session[e]
        /\ first[d].wanted = session[d].wanted /\ first[d].pty = session[d].pty
        /\ first[d].status = "ready"
    BY <1>1 DEF SessionType, Statuses
  <2> HIDE DEF first
  <2>3. /\ session' \in [Distros -> SessionType]
        /\ \A e \in Distros \ {d} : session'[e] = session[e]
        /\ session'[d].wanted = session[d].wanted /\ session'[d].pty = session[d].pty
        /\ session'[d].status = "ready"
    BY <2>1, <2>2 DEF SessionType
  <2>4. session[d].pty = "open" /\ ~session[d].wanted
    BY <1>2, <1>6 DEF Prompt, TellInv
  <2> QED BY <1>2, <1>6, <2>3, <2>4, EventTells DEF Prompt
<1>7. ASSUME NEW d \in Distros, HandleExit(d) PROVE TellInv'
  <2> DEFINE status == IF session[d].everReady THEN "disconnected" ELSE "distro-stopped"
             first == [session EXCEPT ![d].status = status]
  <2>1. session' = [first EXCEPT ![d].pty = "none"] /\ wire' = Append(wire, Event(d, status))
    BY <1>7 DEF HandleExit
  <2>2. status \in Statuses
    BY DEF Statuses, Dead
  <2> HIDE DEF status
  <2>3. /\ first \in [Distros -> SessionType]
        /\ \A e \in Distros \ {d} : first[e] = session[e]
        /\ first[d].wanted = session[d].wanted /\ first[d].status = status
    BY <1>1, <2>2 DEF SessionType
  <2> HIDE DEF first
  <2>4. /\ session' \in [Distros -> SessionType]
        /\ \A e \in Distros \ {d} : session'[e] = session[e]
        /\ session'[d].wanted = session[d].wanted /\ session'[d].pty = "none"
        /\ session'[d].status = status
    BY <2>1, <2>3 DEF SessionType
  <2>5. ~session[d].wanted
    BY <1>2, <1>7 DEF HandleExit, TellInv
  <2> QED BY <1>2, <1>7, <2>1, <2>4, <2>5, EventTells DEF HandleExit
<1>8. ASSUME NEW d \in Distros, SelectDistro(d) PROVE TellInv'
  BY <1>1, <1>2, <1>8, SessionEffectTells DEF SelectDistro
<1>9. ASSUME AutoRetry \/ Reconnect PROVE TellInv'
  <2>1. panel.distro \in Distros
    BY <1>1, <1>9 DEF AutoRetry, Reconnect, PanelType, Inv, TimerIsDue
  <2>2. CASE AutoRetry
    <3> DEFINE half == [panel EXCEPT !.retries = @ + 1]
               p == [half EXCEPT !.timer = FALSE]
    <3>1. SessionEffect(panel.distro, p)
      BY <2>2 DEF AutoRetry
    <3>2. half \in PanelType
      BY <1>1, <2>2, RetryAssumption DEF AutoRetry, Inv, TimerIsDue, PanelType
    <3> HIDE DEF half
    <3>3. p \in PanelType
      BY <3>2 DEF PanelType
    <3> HIDE DEF p
    <3> QED BY <1>2, <2>1, <3>1, <3>3, SessionEffectTells
  <2>3. CASE Reconnect
    <3> DEFINE p == [panel EXCEPT !.retries = 0]
    <3>1. SessionEffect(panel.distro, p)
      BY <2>3 DEF Reconnect
    <3>2. p \in PanelType
      BY <1>1, RetryAssumption DEF PanelType
    <3> HIDE DEF p
    <3> QED BY <1>2, <2>1, <3>1, <3>2, SessionEffectTells
  <2> QED BY <1>9, <2>2, <2>3
<1>10. ASSUME Deliver PROVE TellInv'
  BY <1>2, <1>10, DeliverTells
<1>11. ASSUME NEW d \in Distros, Flip(d) PROVE TellInv'
  <2>1. panel' = Heal(panel, panel, Shown(panel, running), Shown(panel, running'))
        /\ UNCHANGED <<session, wire>>
    BY <1>11 DEF Flip
  <2> QED BY <1>1, <1>3, <2>1, HealKeepsPlace, HealKeepsStatus
<1>12. ASSUME InsertPrepared \/ UNCHANGED vars PROVE TellInv'
  BY <1>3, <1>12 DEF InsertPrepared, vars
<1> QED
  BY <1>2, <1>4, <1>5, <1>6, <1>7, <1>8, <1>9, <1>10, <1>11, <1>12 DEF Next, Settles

\* Once its mail is read the panel shows the session of the selected distro as it is, or
\* waits for a spawn whose answer it will take: for any distros, retries and bounds, and
\* however switches, retries, exits and late answers overlap (ConsolePanel's session effect).
THEOREM TellsTruth == Spec => []PanelTellsTruth
<1>1. Init => TellInv
  BY DEF Init, TellInv, NoSession
<1>2. Inv /\ PanelInv /\ TellInv => PanelTellsTruth
  <2> SUFFICES ASSUME Inv, PanelInv, TellInv, wire = <<>>, ~quitting, panel.distro # NoDistro
               PROVE  IF panel.sid = NoDistro
                      THEN session[panel.distro].pty = "opening" /\ session[panel.distro].wanted
                      ELSE panel.sid = panel.distro /\ panel.status = session[panel.sid].status
    BY DEF PanelTellsTruth
  <2>1. panel.distro \in Distros /\ panel.sid \in {NoDistro, panel.distro}
    BY DEF Inv, TypeOK, PanelInv
  <2>2. Due(wire) = {} /\ News(wire, panel.distro) = {}
    BY DEF Due, News
  <2> QED BY <2>1, <2>2 DEF TellInv, Tells
<1> QED
  BY <1>1, <1>2, InitPanelInv, NextKeepsPanelInv, NextKeepsTellInv, InvAlways, PTL DEF Spec
=============================================================================
