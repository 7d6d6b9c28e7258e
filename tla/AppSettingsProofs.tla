-------------------------- MODULE AppSettingsProofs --------------------------
(***************************************************************************)
(* For every set of ports and periods and every bound, however calls into  *)
(* the MCP host overlap: what is kept as running holds a port, and the     *)
(* timers of the scheduler are those the settings ask for.                 *)
(*                                                                         *)
(* The two parts share no state but the settings.  The host's goes         *)
(* operator by operator (HostOK is kept by each piece of a call that runs  *)
(* between two awaits), the scheduler's by what each of its methods does   *)
(* to a scheduler that follows the settings of before.                     *)
(***************************************************************************)
EXTENDS AppSettings, FiniteSetTheorems, TLAPS

-----------------------------------------------------------------------------
(* The host *)

HostMemory ==
  [h : HostType, ops : SUBSET OpType, listening : SUBSET ServerType]

\* RunningListens of a memory, with its types; only finitely many calls and servers
\* exist, so a fresh identity can be found.
HostOK(m) ==
  /\ m \in HostMemory
  /\ IsFiniteSet(m.ops) /\ IsFiniteSet(m.listening)
  /\ m.h.http # None => \E s \in m.listening : s.id = m.h.http

\* A call between two awaits.
RunningType ==
  [id : Nat, steps : Seq({"stop", "listen"}), port : Ports, token : Nat,
   at : {"running", "closing", "binding"}, tag : {"start", "handler"}]

\* Finitely many records have finitely many identities.
LEMMA IdsFinite ==
  ASSUME NEW S, IsFiniteSet(S)
  PROVE  IsFiniteSet({x.id : x \in S})
<1> DEFINE T == {x.id : x \in S}
           f == [x \in S |-> x.id]
<1>1. f \in Surjection(S, T)
  BY DEF Surjection
<1>2. QED
  BY <1>1, FS_Surjection

\* There is always an identity nobody has.
LEMMA FreshIsFresh ==
  ASSUME NEW used, IsFiniteSet(used)
  PROVE  Fresh(used) \in Nat /\ Fresh(used) \notin used
<1> DEFINE n == Cardinality(used)
           candidates == 1..(n + 1)
<1>1. n \in Nat
  BY FS_CardinalityType
<1>2. \E i \in candidates : i \notin used
  <2> SUFFICES ASSUME candidates \subseteq used PROVE FALSE
    OBVIOUS
  <2>1. IsFiniteSet(candidates) /\ Cardinality(candidates) = n + 1
    <3>1. 1 \in Int /\ n + 1 \in Int /\ 1 <= n + 1
      BY <1>1
    <3>2. IsFiniteSet(candidates) /\ Cardinality(candidates) = (n + 1) - 1 + 1
      BY <1>1, <3>1, FS_Interval
    <3>3. QED
      BY <1>1, <3>2
  <2>2. Cardinality(candidates) <= n
    BY FS_Subset
  <2>3. QED
    BY <1>1, <2>1, <2>2
<1>3. Fresh(used) \in candidates /\ Fresh(used) \notin used
  BY <1>2 DEF Fresh
<1>4. QED
  BY <1>1, <1>3

\* Reporting the status leaves the rest of the host alone.
LEMMA EmitStatusType ==
  ASSUME NEW h \in HostType
  PROVE  EmitStatus(h) \in HostType /\ EmitStatus(h).http = h.http
<1>1. Status(h) \in StatusType
  BY DEF Status, StatusType, HostType
<1>2. QED
  BY <1>1 DEF EmitStatus, HostType

\* A call that binds its port waits with a server that is kept untouched.
LEMMA ListenOK ==
  ASSUME NEW m, HostOK(m), NEW op \in RunningType
  PROVE  HostOK(Listen(m, op))
<1> DEFINE h == [m.h EXCEPT !.token = op.token, !.port = op.port, !.error = FALSE]
           waiting == [op EXCEPT !.at = "binding"]
           new == Listen(m, op)
<1>1. h \in HostType /\ h.http = m.h.http
  BY DEF HostOK, HostMemory, HostType, RunningType
<1>2. waiting \in OpType
  BY DEF RunningType, OpType
<1>3. new = [[m EXCEPT !.h = h] EXCEPT !.ops = m.ops \union {waiting}]
  BY DEF Listen, Waiting, HostOK, HostMemory
<1> HIDE DEF h, waiting, new
<1>4. /\ new \in HostMemory /\ new.h = h /\ new.listening = m.listening
      /\ new.ops = m.ops \union {waiting}
  BY <1>1, <1>2, <1>3 DEF HostOK, HostMemory
<1>5. IsFiniteSet(new.ops)
  BY <1>4, FS_AddElement DEF HostOK
<1>6. QED
  BY <1>1, <1>4, <1>5 DEF HostOK, new

\* A call that stops the server forgets it before it waits for the close.
LEMMA CloseOK ==
  ASSUME NEW m, HostOK(m), NEW op \in RunningType, op.steps # <<>>
  PROVE  HostOK(Close(m, op))
<1> DEFINE h == [m.h EXCEPT !.http = None]
           waiting == [op EXCEPT !.at = "closing", !.steps = Tail(op.steps)]
           left == {s \in m.listening : s.id # m.h.http}
           new == Close(m, op)
<1>1. h \in HostType /\ h.http = None
  BY DEF HostOK, HostMemory, HostType
<1>2. waiting \in OpType
  <2>1. Tail(op.steps) \in Seq({"stop", "listen"})
    BY DEF RunningType
  <2>2. QED
    BY <2>1 DEF RunningType, OpType
<1>3. left \subseteq m.listening /\ IsFiniteSet(left)
  BY FS_Subset DEF HostOK
<1>4. new.h = h /\ new.listening = left /\ new.ops = m.ops \union {waiting} /\ new \in HostMemory
  <2>1. new = [[m EXCEPT !.h = h, !.listening = left] EXCEPT !.ops = m.ops \union {waiting}]
    BY DEF Close, Waiting, HostOK, HostMemory, HostType
  <2> HIDE DEF h, left, waiting, new
  <2>2. QED
    BY <1>1, <1>2, <1>3, <2>1 DEF HostOK, HostMemory
<1> HIDE DEF h, left, waiting, new
<1>5. IsFiniteSet(new.ops)
  BY <1>4, FS_AddElement DEF HostOK
<1>6. QED
  BY <1>1, <1>3, <1>4, <1>5 DEF HostOK, new

\* So a call keeps the host well formed up to its next await.
LEMMA RunOK ==
  ASSUME NEW m, HostOK(m), NEW op \in RunningType
  PROVE  HostOK(Run(m, op))
BY ListenOK, CloseOK DEF Run

HInv == HostOK(Host) /\ taken \in SUBSET Ports

\* A step that installs a well-formed memory.
LEMMA HostBecomesOK ==
  ASSUME NEW m, HostOK(m), HostBecomes(m), taken' \in SUBSET Ports
  PROVE  HInv'
<1>1. Host' = m
  BY DEF HostBecomes, Host, HostOK, HostMemory
<1>2. QED
  BY <1>1 DEF HInv

\* A new call, from whichever handler.
LEMMA IssueOK ==
  ASSUME HInv, NEW steps \in {StartSteps, StopSteps, RestartSteps}, NEW port \in Ports,
         NEW token \in Nat, NEW tag \in {"start", "handler"}, Issue(steps, port, token, tag)
  PROVE  HInv'
<1> DEFINE op == NewOp(steps, port, token, tag)
           used == {o.id : o \in ops}
<1>1. IsFiniteSet(used)
  BY IdsFinite DEF HInv, HostOK, Host
<1>2. Fresh(used) \in Nat
  BY <1>1, FreshIsFresh
<1>3. steps \in Seq({"stop", "listen"})
  <2>1. /\ <<"stop">> \in Seq({"stop", "listen"})
        /\ <<"stop", "listen">> \in Seq({"stop", "listen"})
        /\ <<"stop", "stop", "listen">> \in Seq({"stop", "listen"})
    OBVIOUS
  <2>2. QED
    BY <2>1 DEF StartSteps, StopSteps, RestartSteps
<1>4. op \in RunningType
  BY <1>2, <1>3 DEF NewOp, RunningType
<1> HIDE DEF op
<1>5. HostOK(Run(Host, op))
  BY <1>4, RunOK DEF HInv
<1>6. HostBecomes(Run(Host, op)) /\ taken' \in SUBSET Ports
  BY DEF Issue, HInv, op
<1>7. QED
  BY <1>5, <1>6, HostBecomesOK

\* Taking a call off the waiting ones.
LEMMA ResumedOK ==
  ASSUME HInv, NEW op \in ops
  PROVE  /\ HostOK(Resumed(op)) /\ op \in OpType
         /\ Resumed(op).h = host /\ Resumed(op).listening = listening
<1>1. /\ Resumed(op) \in HostMemory /\ Resumed(op).h = host
      /\ Resumed(op).listening = listening /\ Resumed(op).ops = ops \ {op}
      /\ Host.h = host /\ Host.listening = listening /\ Host.ops = ops /\ op \in OpType
  BY DEF HInv, HostOK, HostMemory, Host, Resumed
<1>2. IsFiniteSet(ops \ {op})
  BY <1>1, FS_RemoveElement DEF HInv, HostOK
<1>3. QED
  BY <1>1, <1>2 DEF HInv, HostOK

\* A close calling back reports, and the call goes on.
LEMMA ClosedOK ==
  ASSUME HInv, NEW op \in ops, Closed(op)
  PROVE  HInv'
<1> DEFINE m == Resumed(op)
           told == AfterClose(m)
           on == [op EXCEPT !.at = "running"]
<1>1. HostOK(m) /\ op \in OpType
  BY ResumedOK
<1> HIDE DEF m
<1>2. EmitStatus(m.h) \in HostType /\ EmitStatus(m.h).http = m.h.http
  BY <1>1, EmitStatusType DEF HostOK, HostMemory
<1>3. HostOK(told)
  BY <1>1, <1>2 DEF AfterClose, HostOK, HostMemory
<1>4. on \in RunningType
  BY <1>1 DEF OpType, RunningType
<1>5. HostBecomes(Run(told, on)) /\ taken' \in SUBSET Ports
  BY DEF Closed, HInv, m
<1> HIDE DEF told, on
<1>6. QED
  BY <1>3, <1>4, <1>5, RunOK, HostBecomesOK

\* A bind settling: a server is kept together with the port it holds, whichever server
\* another call has kept meanwhile; an error keeps nothing.
LEMMA BoundOK ==
  ASSUME HInv, NEW op \in ops, Bound(op)
  PROVE  HInv'
<1> DEFINE m == Resumed(op)
           id == Fresh({s.id : s \in listening})
           server == [id |-> id, port |-> op.port, failed |-> FALSE]
<1>1. HostOK(m) /\ op \in OpType /\ m.h = host /\ m.listening = listening
  BY ResumedOK
<1>2. id \in Nat
  <2>1. IsFiniteSet({s.id : s \in listening})
    BY <1>1, IdsFinite DEF HostOK
  <2>2. QED
    BY <2>1, FreshIsFresh
<1> HIDE DEF m, id
<1>3. server \in ServerType /\ server.id = id
  BY <1>1, <1>2 DEF ServerType, OpType
<1> HIDE DEF server
<1>4. HostOK(Kept(op))
  <2> DEFINE kept == [m.h EXCEPT !.http = id]
             new == Kept(op)
  <2>1. kept \in HostType /\ kept.http = id
    BY <1>1, <1>2 DEF HostOK, HostMemory, HostType
  <2>2. new = [m EXCEPT !.listening = m.listening \union {server}, !.h = EmitStatus(kept)]
    BY <1>1 DEF Kept, m, server, id, HostOK, HostMemory
  <2> HIDE DEF kept, new
  <2>3. EmitStatus(kept) \in HostType /\ EmitStatus(kept).http = id
    BY <2>1, EmitStatusType
  <2>4. /\ new \in HostMemory /\ new.h = EmitStatus(kept) /\ new.ops = m.ops
        /\ new.listening = m.listening \union {server}
    BY <1>1, <1>3, <2>2, <2>3 DEF HostOK, HostMemory
  <2>5. IsFiniteSet(new.listening)
    BY <1>1, <2>4, FS_AddElement DEF HostOK
  <2>6. QED
    BY <1>1, <1>3, <2>3, <2>4, <2>5 DEF HostOK, new
<1>5. HostOK(NotKept(op))
  <2> DEFINE failed == [m.h EXCEPT !.error = TRUE]
             new == NotKept(op)
  <2>1. failed \in HostType /\ failed.http = m.h.http
    BY <1>1 DEF HostOK, HostMemory, HostType
  <2>2. new = [m EXCEPT !.h = EmitStatus(failed)]
    BY <1>1 DEF NotKept, BindFailed, m, HostOK, HostMemory
  <2> HIDE DEF failed, new
  <2>3. EmitStatus(failed) \in HostType /\ EmitStatus(failed).http = m.h.http
    BY <2>1, EmitStatusType
  <2>4. /\ new \in HostMemory /\ new.h = EmitStatus(failed) /\ new.ops = m.ops
        /\ new.listening = m.listening
    BY <1>1, <2>2, <2>3 DEF HostOK, HostMemory
  <2>5. QED
    BY <1>1, <2>3, <2>4 DEF HostOK, new
<1>6. /\ HostBecomes(Kept(op)) \/ HostBecomes(NotKept(op))
      /\ taken' \in SUBSET Ports
  BY DEF Bound, HInv
<1>7. QED
  BY <1>4, <1>5, <1>6, HostBecomesOK

\* A server that fails goes on listening.
LEMMA ServerFailsOK ==
  ASSUME HInv, NEW server \in listening, ServerFails(server)
  PROVE  HInv' /\ host'.http = host.http /\ host'.token = host.token /\ host'.error
<1> DEFINE h == [host EXCEPT !.error = TRUE]
           worse == [server EXCEPT !.failed = TRUE]
<1>1. host \in HostType /\ server \in ServerType /\ listening \in SUBSET ServerType
      /\ IsFiniteSet(listening) /\ Host \in HostMemory /\ IsFiniteSet(ops)
  BY DEF HInv, HostOK, HostMemory, Host
<1>2. h \in HostType /\ h.http = host.http /\ h.token = host.token /\ h.error
  BY <1>1 DEF HostType
<1>3. worse \in ServerType /\ worse.id = server.id
  BY <1>1 DEF ServerType
<1> HIDE DEF h, worse
<1>4. /\ EmitStatus(h) \in HostType /\ EmitStatus(h).http = host.http
      /\ EmitStatus(h).token = host.token /\ EmitStatus(h).error
  BY <1>2, EmitStatusType DEF EmitStatus, HostType
<1>5. host' = EmitStatus(h) /\ listening' = (listening \ {server}) \union {worse} /\ UNCHANGED <<ops, taken>>
  BY DEF ServerFails, h, worse
<1>6. IsFiniteSet(listening')
  BY <1>1, <1>5, FS_RemoveElement, FS_AddElement
<1>7. Host' \in HostMemory
  BY <1>1, <1>3, <1>4, <1>5 DEF Host, HostMemory
<1>8. host'.http # None => \E s \in listening' : s.id = host'.http
  BY <1>3, <1>4, <1>5 DEF HInv, HostOK, Host
<1> QED BY <1>1, <1>4, <1>5, <1>6, <1>7, <1>8 DEF HInv, HostOK, Host

-----------------------------------------------------------------------------
(* The scheduler *)

\* A scheduler that follows the settings s.
FollowsSettings(p, s) == p.paused = s.paused /\ p.ms = s.ms

PollingOK(p) ==
  /\ p \in PollingType
  /\ p.started => p.made
  /\ p.armed # None => p.started

\* Its timers are those of its own period, and there are none while it is paused.
Armed(p) == p.armed = IF p.started /\ ~p.paused THEN p.ms ELSE None

\* What setPaused leaves of a scheduler, and its timers.
LEMMA SetPausedOK ==
  ASSUME NEW p, PollingOK(p), NEW paused \in BOOLEAN, paused = p.paused => Armed(p)
  PROVE  /\ PollingOK(SetPaused(p, paused)) /\ Armed(SetPaused(p, paused))
         /\ SetPaused(p, paused).made = p.made /\ SetPaused(p, paused).started = p.started
         /\ SetPaused(p, paused).ms = p.ms /\ SetPaused(p, paused).paused = paused
<1> DEFINE set == [p EXCEPT !.paused = paused]
           new == SetPaused(p, paused)
<1>1. new = IF paused = p.paused \/ ~p.started THEN set
            ELSE IF paused THEN Clear(set) ELSE Arm(set)
  BY DEF SetPaused
<1>2. set \in PollingType /\ set.started = p.started /\ set.made = p.made /\ set.ms = p.ms
      /\ set.armed = p.armed /\ set.paused = paused
  BY DEF PollingOK, PollingType
<1> HIDE DEF set, new
<1>3. Clear(set) \in PollingType /\ Arm(set) \in PollingType
  BY <1>2 DEF Clear, Arm, PollingType
<1>4. /\ Clear(set).armed = None /\ Arm(set).armed = p.ms
      /\ \A x \in {Clear(set), Arm(set)} :
           x.started = p.started /\ x.made = p.made /\ x.ms = p.ms /\ x.paused = paused
  BY <1>2 DEF Clear, Arm, PollingType
<1>5. QED
  BY <1>1, <1>2, <1>3, <1>4 DEF PollingOK, Armed, new

\* A scheduler follows the settings of after if it followed those of before, and also
\* if it did not but pause or period change now, whichever of the two: setIntervals and
\* setPaused in a row arm once.
LEMMA MonitorOK ==
  ASSUME NEW p, PollingOK(p), Armed(p), NEW old \in SettingsType, NEW new \in SettingsType
  PROVE  /\ PollingOK(Monitor(p, old, new)) /\ Armed(Monitor(p, old, new))
         /\ Monitor(p, old, new).made = p.made
         /\ p.made /\ (FollowsSettings(p, old) \/ Retimes(old, new)) =>
              FollowsSettings(Monitor(p, old, new), new)
<1> DEFINE set == [p EXCEPT !.ms = new.ms]
           timed == SetIntervals(p, new)
           done == SetPaused(timed, new.paused)
<1>1. /\ Monitor(p, old, new) \in {p, done}
      /\ p.made /\ Monitor(p, old, new) # done => old.paused = new.paused /\ old.ms = new.ms
      /\ p.made /\ Retimes(old, new) => Monitor(p, old, new) = done
  BY DEF Monitor, Retimes
<1>2. new.paused \in BOOLEAN /\ new.ms \in Periods
  BY DEF SettingsType
<1>3. /\ PollingOK(set) /\ set.made = p.made /\ set.started = p.started
      /\ set.ms = new.ms /\ set.paused = p.paused /\ set.armed = p.armed
  BY <1>2 DEF PollingOK, PollingType
<1>4. timed = IF new.paused # p.paused THEN SetPaused(set, new.paused)
              ELSE IF p.started /\ ~p.paused THEN Arm(set) ELSE set
  BY DEF SetIntervals
<1> HIDE DEF set, timed
<1>5. p.started /\ ~p.paused =>
        /\ PollingOK(Arm(set)) /\ Arm(set).made = p.made /\ Arm(set).started = p.started
        /\ Arm(set).ms = new.ms /\ Arm(set).paused = p.paused /\ Arm(set).armed = new.ms
  BY <1>2, <1>3 DEF Arm, PollingOK, PollingType
<1>6. /\ PollingOK(timed) /\ Armed(timed) /\ timed.made = p.made /\ timed.started = p.started
      /\ timed.ms = new.ms /\ timed.paused = new.paused
  <2>1. CASE new.paused # p.paused
    <3>1. /\ timed = SetPaused(set, new.paused) /\ PollingOK(set) /\ new.paused \in BOOLEAN
          /\ new.paused # set.paused
      BY <1>2, <1>3, <1>4, <2>1
    <3> QED BY <1>3, <3>1, SetPausedOK
  <2>2. CASE new.paused = p.paused
    BY <1>2, <1>3, <1>4, <1>5, <2>2 DEF PollingOK, PollingType, Armed
  <2> QED BY <2>1, <2>2
<1>7. /\ PollingOK(done) /\ Armed(done) /\ done.made = p.made /\ done.started = p.started
      /\ done.ms = new.ms /\ done.paused = new.paused
  BY <1>2, <1>6, SetPausedOK
<1> HIDE DEF done
<1>8. p.made /\ (FollowsSettings(p, old) \/ Retimes(old, new)) =>
        FollowsSettings(Monitor(p, old, new), new)
  BY <1>1, <1>7 DEF FollowsSettings
<1>9. QED
  BY <1>1, <1>7, <1>8

-----------------------------------------------------------------------------
(* The whole *)

\* The inductive strengthening of TimersFollowSettings: a scheduler that exists follows
\* the settings, and none exists before the store is ready; one that was left behind still
\* has the timers of its own period.
SInv ==
  /\ settings \in SettingsType /\ PollingOK(polling) /\ Armed(polling)
  /\ phase \in {"initializing", "starting", "up"}
  /\ behind \subseteq {"timers", "server"} /\ overlapped \in BOOLEAN
  /\ polling.made => phase # "initializing"
  /\ "timers" \notin behind /\ polling.made => FollowsSettings(polling, settings)

Inv == HInv /\ SInv

\* The initial states.
LEMMA InitInv == Init => Inv
<1> SUFFICES ASSUME Init PROVE Inv
  OBVIOUS
<1>1. host \in HostType /\ host.http = None
  BY DEF Init, HostInit, HostType, StatusType
<1>2. HInv
  BY <1>1, FS_EmptySet DEF Init, HostInit, HInv, HostOK, HostMemory, Host
<1>3. settings \in SettingsType /\ settings.ms \in Periods
  BY SettingsAssumption DEF Init, SettingsType
<1>4. PollingOK(polling) /\ Armed(polling) /\ ~polling.made
  BY <1>3 DEF Init, PollingOK, PollingType, Armed
<1>5. SInv
  BY <1>3, <1>4 DEF Init, SInv
<1>6. QED
  BY <1>2, <1>5 DEF Inv

\* Start-up: the scheduler is made with the settings of that moment, and runs unless
\* they say paused; the MCP server is started if they say enabled.
LEMMA StoreReadyOK ==
  ASSUME Inv, StoreReady
  PROVE  Inv'
<1> DEFINE made == [polling EXCEPT !.made = TRUE, !.paused = settings.paused, !.ms = settings.ms]
           on == [made EXCEPT !.started = TRUE]
<1>1. /\ settings.paused \in BOOLEAN /\ settings.ms \in Periods /\ settings.port \in Ports
      /\ settings.token \in Nat /\ settings \in SettingsType
  BY DEF Inv, SInv, SettingsType
<1>2. /\ polling \in PollingType /\ ~polling.made /\ ~polling.started /\ polling.armed = None
  BY DEF Inv, SInv, StoreReady, PollingOK
<1>3. /\ made \in PollingType /\ made.made /\ ~made.started /\ made.armed = None
      /\ made.paused = settings.paused /\ made.ms = settings.ms
  BY <1>1, <1>2 DEF PollingType
<1>4. polling' = IF settings.paused THEN made ELSE Started(made)
  BY DEF StoreReady
<1> HIDE DEF made
<1>5. ~settings.paused => Started(made) = Arm(on)
  BY <1>3 DEF Started
<1>6. /\ Arm(on) \in PollingType /\ Arm(on).made /\ Arm(on).started
      /\ Arm(on).paused = settings.paused /\ Arm(on).ms = settings.ms
      /\ Arm(on).armed = settings.ms
  BY <1>1, <1>3 DEF Arm, PollingType
<1> HIDE DEF on
<1>7. PollingOK(polling') /\ Armed(polling') /\ polling'.made /\ FollowsSettings(polling', settings)
  BY <1>3, <1>4, <1>5, <1>6 DEF PollingOK, FollowsSettings, Armed
<1>8. /\ phase' \in {"starting", "up"} /\ settings' = settings
      /\ behind' \subseteq {"timers", "server"} /\ overlapped' \in BOOLEAN
  BY DEF StoreReady, Follows, Inv, SInv
<1>9. SInv'
  BY <1>1, <1>7, <1>8 DEF SInv
<1>10. CASE settings.enabled
  BY <1>1, <1>9, <1>10, IssueOK DEF StoreReady, Inv
<1>11. CASE ~settings.enabled
  BY <1>9, <1>11 DEF StoreReady, Inv, HInv, Host, hostVars
<1>12. QED
  BY <1>10, <1>11

\* A patch: the timers follow at once, the server through a call that may wait.
LEMMA PatchOK ==
  ASSUME Inv, NEW new \in Changes, Patch(new)
  PROVE  Inv'
<1>1. settings \in SettingsType /\ new \in SettingsType
  BY DEF Inv, SInv, Changes, SettingsType
<1>2. /\ settings' = new /\ polling' = Monitor(polling, settings, new) /\ phase' = phase
  BY DEF Patch
<1>3. /\ PollingOK(polling') /\ Armed(polling') /\ polling'.made = polling.made
      /\ polling.made /\ (FollowsSettings(polling, settings) \/ Retimes(settings, new)) =>
           FollowsSettings(polling', new)
  BY <1>1, <1>2, MonitorOK DEF Inv, SInv
<1>4. /\ behind' \subseteq {"timers", "server"} /\ overlapped' \in BOOLEAN
      /\ "timers" \notin behind' => "timers" \notin behind \/ Retimes(settings, new)
  BY DEF Patch, Follows, Inv, SInv
<1>5. SInv'
  BY <1>1, <1>2, <1>3, <1>4 DEF Inv, SInv
<1>6. new.port \in Ports /\ new.token \in Nat
  BY <1>1 DEF SettingsType
<1>7. CASE UNCHANGED hostVars
  BY <1>5, <1>7 DEF Inv, HInv, Host, hostVars
<1>8. CASE FollowServer(settings, new)
  BY <1>5, <1>6, <1>8, IssueOK DEF Inv, FollowServer
<1>9. QED
  BY <1>7, <1>8 DEF Patch

\* A reset replaces the settings and leaves everything that follows them behind.
LEMMA ResetOK ==
  ASSUME Inv, Reset
  PROVE  Inv'
<1>1. settings' \in SettingsType
  BY SettingsAssumption DEF Reset, Inv, SInv, SettingsType
<1>2. SInv'
  BY <1>1 DEF Reset, Inv, SInv
<1>3. QED
  BY <1>2 DEF Reset, Inv, HInv, Host, hostVars

\* A new token restarts the server; the scheduler has no interest in it.
LEMMA RegenerateTokenOK ==
  ASSUME Inv, RegenerateToken
  PROVE  Inv'
<1> DEFINE new == [settings EXCEPT !.token = settings.token + 1]
<1>1. /\ new \in SettingsType /\ new.paused = settings.paused /\ new.ms = settings.ms
      /\ new.port \in Ports /\ new.token \in Nat /\ settings' = new
  BY DEF RegenerateToken, Inv, SInv, SettingsType
<1>2. /\ behind' \subseteq {"timers", "server"} /\ overlapped' \in BOOLEAN
      /\ "timers" \in behind' <=> "timers" \in behind
  BY DEF RegenerateToken, Follows, Inv, SInv
<1>3. SInv'
  BY <1>1, <1>2 DEF RegenerateToken, Inv, SInv, FollowsSettings
<1>4. Issue(RestartSteps, new.port, new.token, "handler")
  BY DEF RegenerateToken
<1> HIDE DEF new
<1>5. QED
  BY <1>1, <1>3, <1>4, IssueOK DEF Inv

\* A close or a bind settling; start-up may end with it.
LEMMA CallSettlesOK ==
  ASSUME Inv, NEW op \in ops, CallSettles(op)
  PROVE  Inv'
<1>1. HInv'
  BY ClosedOK, BoundOK DEF CallSettles, Inv
<1>2. phase' \in {phase, "up"}
  BY DEF CallSettles, Done
<1>3. QED
  BY <1>1, <1>2 DEF CallSettles, Inv, SInv

\* Every step keeps the invariant.
LEMMA NextInv == Inv /\ [Next]_vars => Inv'
<1> SUFFICES ASSUME Inv, [Next]_vars PROVE Inv'
  OBVIOUS
<1>1. ASSUME NEW port \in Ports, OtherProgram(port) PROVE Inv'
  <2>1. taken' \in SUBSET Ports
    BY <1>1 DEF OtherProgram, TogglePort, Inv, HInv
  <2>2. QED
    BY <1>1, <2>1 DEF OtherProgram, TogglePort, Inv, HInv, SInv, Host
<1>2. ASSUME UNCHANGED vars PROVE Inv'
  BY <1>2 DEF vars, hostVars, Inv, HInv, SInv, Host
<1>3. ASSUME ListenerFails PROVE Inv'
  BY <1>3, ServerFailsOK DEF ListenerFails, Inv, SInv
<1>4. QED
  BY <1>1, <1>2, <1>3, StoreReadyOK, PatchOK, ResetOK, RegenerateTokenOK, CallSettlesOK DEF Next

\* The invariant holds in every reachable state.
LEMMA InvariantHolds == Spec => []Inv
BY InitInv, NextInv, PTL DEF Spec

-----------------------------------------------------------------------------
(* Theorems *)

\* Every state is well typed; timers exist only in a scheduler that was started, and a
\* scheduler is started only once it is made.
THEOREM TypeCorrect == Spec => []TypeOK
<1>1. Inv => TypeOK
  BY DEF Inv, HInv, HostOK, HostMemory, Host, HostTypeOK, SInv, PollingOK, TypeOK
<1>2. QED
  BY <1>1, InvariantHolds, PTL

\* However start-up, patches, restarts and token regenerations overlap, a server that
\* status calls running holds a port.
THEOREM KeptListens == Spec => []RunningListens
<1>1. Inv => RunningListens
  BY DEF Inv, HInv, HostOK, Host, RunningListens
<1>2. QED
  BY <1>1, InvariantHolds, PTL

\* Whatever order monitoring is paused, resumed and retimed in, a started scheduler has
\* the timers the settings ask for; after a reset, again from the next such change on.
THEOREM TimersFollow == Spec => []TimersFollowSettings
<1>1. Inv => TimersFollowSettings
  BY DEF Inv, SInv, PollingOK, Armed, FollowsSettings, TimersFollowSettings
<1>2. QED
  BY <1>1, InvariantHolds, PTL

-----------------------------------------------------------------------------
(* What is reported *)

\* With no call under way, the status of a memory is the one it last reported.
Reports(m) == m.ops = {} => m.h.reported = Status(m.h)

\* The status does not depend on what was reported before.
LEMMA EmitReports ==
  ASSUME NEW h \in HostType
  PROVE  EmitStatus(h).reported = Status(EmitStatus(h))
<1>1. /\ EmitStatus(h).http = h.http /\ EmitStatus(h).port = h.port
      /\ EmitStatus(h).error = h.error /\ EmitStatus(h).reported = Status(h)
  BY DEF EmitStatus, HostType
<1>2. QED
  BY <1>1 DEF Status

\* A call either waits, and there is a call under way, or changes nothing.
LEMMA RunReports ==
  ASSUME NEW m, HostOK(m), Reports(m), NEW op \in RunningType
  PROVE  Reports(Run(m, op))
<1>1. \A n, o : n \in HostMemory => Waiting(n, o).ops # {}
  BY DEF Waiting, HostMemory
<1>2. Listen(m, op).ops # {}
  <2> DEFINE n == [m EXCEPT !.h = [m.h EXCEPT !.token = op.token, !.port = op.port, !.error = FALSE]]
  <2>1. n \in HostMemory
    BY DEF HostOK, HostMemory, HostType, RunningType
  <2>2. Listen(m, op) = Waiting(n, [op EXCEPT !.at = "binding"])
    BY DEF Listen, HostOK, HostMemory
  <2> HIDE DEF n
  <2>3. QED
    BY <1>1, <2>1, <2>2
<1>3. Close(m, op).ops # {}
  <2> DEFINE h == [m.h EXCEPT !.http = None]
             left == {s \in m.listening : s.id # m.h.http}
             n == [m EXCEPT !.h = h, !.listening = left]
  <2>1. h \in HostType /\ left \in SUBSET ServerType
    BY DEF HostOK, HostMemory, HostType
  <2>2. Close(m, op) = Waiting(n, [op EXCEPT !.at = "closing", !.steps = Tail(op.steps)])
    BY DEF Close, HostOK, HostMemory
  <2> HIDE DEF h, left
  <2>3. n \in HostMemory
    BY <2>1 DEF HostOK, HostMemory
  <2> HIDE DEF n
  <2>4. QED
    BY <1>1, <2>2, <2>3
<1>4. QED
  BY <1>2, <1>3 DEF Run, Reports

\* A step that installs a memory that reports.
LEMMA HostBecomesReports ==
  ASSUME NEW m, HostOK(m), Reports(m), HostBecomes(m)
  PROVE  StatusReported'
BY DEF HostBecomes, HostOK, HostMemory, Reports, StatusReported, Status

\* A new call, from whichever handler.
LEMMA IssueReports ==
  ASSUME HInv, StatusReported, NEW steps \in {StartSteps, StopSteps, RestartSteps},
         NEW port \in Ports, NEW token \in Nat, NEW tag \in {"start", "handler"},
         Issue(steps, port, token, tag)
  PROVE  StatusReported'
<1> DEFINE op == NewOp(steps, port, token, tag)
<1>1. op \in RunningType
  <2>1. Fresh({o.id : o \in ops}) \in Nat
    BY IdsFinite, FreshIsFresh DEF HInv, HostOK, Host
  <2>2. /\ <<"stop">> \in Seq({"stop", "listen"})
        /\ <<"stop", "listen">> \in Seq({"stop", "listen"})
        /\ <<"stop", "stop", "listen">> \in Seq({"stop", "listen"})
    OBVIOUS
  <2>3. QED
    BY <2>1, <2>2 DEF NewOp, RunningType, StartSteps, StopSteps, RestartSteps
<1> HIDE DEF op
<1>2. HostOK(Host) /\ Reports(Host)
  BY DEF HInv, Reports, Host, StatusReported
<1>3. HostOK(Run(Host, op)) /\ Reports(Run(Host, op))
  BY <1>1, <1>2, RunOK, RunReports
<1>4. HostBecomes(Run(Host, op))
  BY DEF Issue, op
<1>5. QED
  BY <1>3, <1>4, HostBecomesReports

\* The end of a close reports, and so does the end of a bind.
LEMMA SettledReports ==
  ASSUME HInv, NEW op \in ops, Closed(op) \/ Bound(op)
  PROVE  StatusReported'
<1> DEFINE m == Resumed(op)
           id == Fresh({s.id : s \in listening})
           on == [op EXCEPT !.at = "running"]
<1>1. HostOK(m) /\ op \in OpType /\ m.h = host /\ m.listening = listening
  BY ResumedOK
<1>2. id \in Nat
  BY <1>1, IdsFinite, FreshIsFresh DEF HostOK
<1>3. m \in HostMemory /\ host \in HostType
  BY <1>1 DEF HostOK, HostMemory
<1> HIDE DEF m, id
<1>4. CASE Closed(op)
  <2> DEFINE told == AfterClose(m)
  <2>1. /\ told = [m EXCEPT !.h = EmitStatus(host)]
        /\ EmitStatus(host) \in HostType /\ EmitStatus(host).http = host.http
    BY <1>1, <1>3, EmitStatusType DEF AfterClose
  <2>2. HostOK(told) /\ told.h = EmitStatus(host)
    BY <1>1, <1>3, <2>1 DEF HostOK, HostMemory
  <2>3. Reports(told)
    BY <1>3, <2>2, EmitReports DEF Reports
  <2>4. on \in RunningType
    BY <1>1 DEF OpType, RunningType
  <2>5. HostBecomes(Run(told, on))
    BY <1>4 DEF Closed, m
  <2> HIDE DEF told, on
  <2>6. QED
    BY <2>2, <2>3, <2>4, <2>5, RunOK, RunReports, HostBecomesReports
<1>5. CASE Bound(op)
  <2>1. ASSUME NEW h \in HostType, host' = EmitStatus(h) PROVE StatusReported'
    BY <2>1, EmitReports DEF StatusReported, Status
  <2>2. Kept(op).h = EmitStatus([host EXCEPT !.http = id]) /\ [host EXCEPT !.http = id] \in HostType
    BY <1>1, <1>2, <1>3 DEF Kept, m, id, HostMemory, HostType
  <2>3. /\ NotKept(op).h = EmitStatus([host EXCEPT !.error = TRUE])
        /\ [host EXCEPT !.error = TRUE] \in HostType
    BY <1>1, <1>3 DEF NotKept, BindFailed, m, HostMemory, HostType
  <2>4. host' = Kept(op).h \/ host' = NotKept(op).h
    BY <1>5 DEF Bound, HostBecomes
  <2>5. QED
    BY <2>1, <2>2, <2>3, <2>4
<1>6. QED
  BY <1>4, <1>5

\* Store, tray and renderer were told the present status whenever no call is under way,
\* however start-up, patches, restarts and token regenerations overlapped.
THEOREM EndsAreReported == Spec => []StatusReported
<1>1. ASSUME Init PROVE StatusReported
  <2>1. /\ host.http = None /\ host.error = FALSE
        /\ host.reported = [running |-> FALSE, endpoint |-> None, error |-> FALSE]
    BY <1>1 DEF Init, HostInit
  <2>2. Status(host) = [running |-> FALSE, endpoint |-> None, error |-> FALSE]
    BY <2>1 DEF Status
  <2>3. QED
    BY <2>1, <2>2 DEF StatusReported
<1>2. ASSUME Inv, StatusReported, [Next]_vars PROVE StatusReported'
  <2>1. CASE UNCHANGED hostVars
    BY <1>2, <2>1 DEF hostVars, StatusReported, Status
  <2>2. CASE \E op \in ops : CallSettles(op)
    BY <1>2, <2>2, SettledReports DEF CallSettles, Inv
  <2>3. ASSUME NEW steps \in {StartSteps, StopSteps, RestartSteps}, NEW port \in Ports,
               NEW token \in Nat, NEW tag \in {"start", "handler"},
               Issue(steps, port, token, tag)
        PROVE  StatusReported'
    BY <1>2, <2>3, IssueReports DEF Inv
  <2>4. settings.port \in Ports /\ settings.token \in Nat
    BY <1>2 DEF Inv, SInv, SettingsType
  <2>5. CASE StoreReady
    BY <2>1, <2>3, <2>4, <2>5 DEF StoreReady
  <2>6. ASSUME NEW new \in Changes, Patch(new) PROVE StatusReported'
    <3>1. new.port \in Ports /\ new.token \in Nat
      BY <1>2 DEF Inv, SInv, Changes, SettingsType
    <3>2. QED
      BY <2>1, <2>3, <2>6, <3>1 DEF Patch, FollowServer
  <2>7. CASE Reset
    BY <2>1, <2>7 DEF Reset
  <2>8. CASE RegenerateToken
    <3>1. settings.token + 1 \in Nat /\ settings \in SettingsType
      BY <1>2 DEF Inv, SInv, SettingsType
    <3>2. Issue(RestartSteps, settings.port, settings.token + 1, "handler")
      BY <2>8, <3>1 DEF RegenerateToken, SettingsType
    <3>3. QED
      BY <2>3, <2>4, <3>1, <3>2
  <2>9. ASSUME NEW port \in Ports, OtherProgram(port) PROVE StatusReported'
    BY <1>2, <2>9 DEF OtherProgram, TogglePort, StatusReported, Status
  <2>10. CASE UNCHANGED vars
    BY <2>1, <2>10 DEF vars
  <2>11. CASE ListenerFails
    <3>1. PICK server \in listening : ServerFails(server)
      BY <2>11 DEF ListenerFails
    <3>2. host \in HostType
      BY <1>2 DEF Inv, HInv, HostOK, HostMemory, Host
    <3> DEFINE h == [host EXCEPT !.error = TRUE]
    <3>3. h \in HostType /\ host' = EmitStatus(h)
      BY <3>1, <3>2 DEF ServerFails, HostType
    <3> HIDE DEF h
    <3> QED BY <3>3, EmitReports DEF StatusReported, Status
  <2>12. QED
    BY <1>2, <2>2, <2>5, <2>6, <2>7, <2>8, <2>9, <2>10, <2>11 DEF Next
<1>3. QED
  BY <1>1, <1>2, InvariantHolds, PTL DEF Spec

-----------------------------------------------------------------------------
(* The endpoint and the settings *)

\* A server that listens has failed since.
Errant == \E s \in listening : s.failed

\* The endpoint is what the settings say.
Settled ==
  IF host.http = None THEN settings.enabled => host.error
  ELSE /\ settings.enabled /\ host.token = settings.token
       /\ \E s \in listening : s.id = host.http /\ s.port = settings.port
       /\ host.error => Errant

\* What a call may have left to do.
StepsLeft == {<<>>, <<"stop">>, <<"listen">>, <<"stop", "listen">>, <<"stop", "stop", "listen">>}
Listens(op) == op.steps \in {<<"listen">>, <<"stop", "listen">>, <<"stop", "stop", "listen">>}

\* A call that will make it so.
Heads(op) ==
  /\ op.steps \in StepsLeft
  /\ IF Listens(op) THEN settings.enabled /\ op.port = settings.port /\ op.token = settings.token
     ELSE ~settings.enabled
  /\ op.at = "binding" => Listens(op) /\ host.token = op.token /\ (host.error => Errant)

\* One call is under way, and no server is kept meanwhile.
Underway == host.http = None /\ \E op \in ops : ops = {op} /\ Heads(op)

\* The strengthening of ServerFollowsSettings: before the store is ready the server may
\* not have been asked for yet.
Unasked == phase = "initializing" /\ ops = {} /\ host.http = None
ServerInv == "server" \notin behind => Unasked \/ Underway \/ (ops = {} /\ Settled)

\* As long as no calls have overlapped, no server listens but the one that is kept.
AloneInv ==
  ~overlapped =>
    IF ops = {} THEN \A s \in listening : s.id = host.http
    ELSE host.http = None /\ listening = {} /\ \E op \in ops : ops = {op}

\* What the two kinds of waiting leave.
LEMMA ListenIs ==
  ASSUME NEW m \in HostMemory, NEW op \in RunningType
  PROVE  LET n == Listen(m, op)
         IN  /\ n.h.http = m.h.http /\ n.h.token = op.token /\ n.h.error = FALSE
             /\ n.listening = m.listening /\ n.ops = m.ops \union {[op EXCEPT !.at = "binding"]}
<1> DEFINE h == [m.h EXCEPT !.token = op.token, !.port = op.port, !.error = FALSE]
           n == Listen(m, op)
<1>1. h \in HostType /\ h.http = m.h.http /\ h.token = op.token /\ h.error = FALSE
  BY DEF HostMemory, HostType, RunningType
<1>2. n = [[m EXCEPT !.h = h] EXCEPT !.ops = m.ops \union {[op EXCEPT !.at = "binding"]}]
  BY DEF Listen, Waiting, HostMemory
<1> HIDE DEF h
<1>3. /\ n.h = h /\ n.listening = m.listening
      /\ n.ops = m.ops \union {[op EXCEPT !.at = "binding"]}
  BY <1>1, <1>2 DEF HostMemory
<1> HIDE DEF n
<1> QED BY <1>1, <1>3 DEF n

\* close(): the listening socket is dropped at once, the operation goes on when it is closed.
LEMMA CloseIs ==
  ASSUME NEW m \in HostMemory, NEW op \in RunningType
  PROVE  LET n == Close(m, op)
         IN  /\ n.h.http = None /\ n.listening = {s \in m.listening : s.id # m.h.http}
             /\ n.ops = m.ops \union {[op EXCEPT !.at = "closing", !.steps = Tail(op.steps)]}
<1> DEFINE h == [m.h EXCEPT !.http = None]
           left == {s \in m.listening : s.id # m.h.http}
           waiting == [op EXCEPT !.at = "closing", !.steps = Tail(op.steps)]
           n == Close(m, op)
<1>1. h.http = None
  BY DEF HostMemory, HostType
<1>2. n = [[m EXCEPT !.h = h, !.listening = left] EXCEPT !.ops = m.ops \union {waiting}]
  BY DEF Close, Waiting, HostMemory, HostType
<1> HIDE DEF h, left, waiting
<1>3. n.h = h /\ n.listening = left /\ n.ops = m.ops \union {waiting}
  BY <1>2 DEF HostMemory
<1> HIDE DEF n
<1> QED BY <1>1, <1>3 DEF n, left, waiting

\* A call that starts with no other under way leads to what the settings now say.
LEMMA IssueFollows ==
  ASSUME HInv, ops = {}, settings' \in SettingsType,
         NEW steps \in {StartSteps, StopSteps, RestartSteps},
         (steps = StopSteps) <=> ~settings'.enabled, NEW tag \in {"start", "handler"},
         Issue(steps, settings'.port, settings'.token, tag)
  PROVE  (Underway \/ (ops = {} /\ Settled))'
<1> DEFINE op == NewOp(steps, settings'.port, settings'.token, tag)
           id == Fresh({o.id : o \in ops})
           n == Run(Host, op)
<1>1. id \in Nat
  BY IdsFinite, FreshIsFresh DEF HInv, HostOK, Host
<1> HIDE DEF id
<1>2. /\ steps \in Seq({"stop", "listen"})
      /\ <<"stop">> # <<"stop", "listen">> /\ <<"stop">> # <<"stop", "stop", "listen">>
  <2>1. /\ <<"stop">> \in Seq({"stop", "listen"})
        /\ <<"stop", "listen">> \in Seq({"stop", "listen"})
        /\ <<"stop", "stop", "listen">> \in Seq({"stop", "listen"})
    OBVIOUS
  <2>2. Len(<<"stop">>) = 1 /\ Len(<<"stop", "listen">>) = 2 /\ Len(<<"stop", "stop", "listen">>) = 3
    OBVIOUS
  <2> QED BY <2>1, <2>2 DEF StartSteps, StopSteps, RestartSteps
<1>3. /\ op \in RunningType /\ op.steps = steps /\ op.port = settings'.port
      /\ op.token = settings'.token
  BY <1>1, <1>2 DEF NewOp, RunningType, SettingsType, id
<1> HIDE DEF op
<1>4. /\ Host \in HostMemory /\ Host.h = host /\ Host.ops = {} /\ Host.listening = listening
  BY DEF HInv, HostOK, Host
<1>5. HostBecomes(n)
  BY DEF Issue, op
<1>6. op.steps # <<>> /\ Head(op.steps) = "stop"
  BY <1>3 DEF StartSteps, StopSteps, RestartSteps
<1>7. CASE host.http # None
  <2> DEFINE waiting == [op EXCEPT !.at = "closing", !.steps = Tail(op.steps)]
  <2>1. n = Close(Host, op)
    BY <1>4, <1>6, <1>7 DEF Run
  <2>2. n.h.http = None /\ n.ops = {waiting}
    BY <1>3, <1>4, <2>1, CloseIs
  <2>3. /\ waiting.at = "closing" /\ waiting.steps = Tail(steps)
        /\ waiting.port = settings'.port /\ waiting.token = settings'.token
    BY <1>3 DEF RunningType
  <2> HIDE DEF waiting, n
  <2>4. /\ host'.http = None /\ ops' = {waiting}
    BY <1>5, <2>2 DEF HostBecomes
  <2>5. /\ waiting.steps \in StepsLeft
        /\ Listens(waiting) <=> steps # StopSteps
    <3>1. /\ Tail(StopSteps) = <<>> /\ Tail(StartSteps) = <<"listen">>
          /\ Tail(RestartSteps) = <<"stop", "listen">>
      BY DEF StartSteps, StopSteps, RestartSteps
    <3>2. /\ <<>> # <<"listen">> /\ <<>> # <<"stop", "listen">> /\ <<>> # <<"stop", "stop", "listen">>
      OBVIOUS
    <3> QED BY <2>3, <3>1, <3>2, <1>2 DEF StepsLeft, Listens, StartSteps, StopSteps, RestartSteps
  <2> QED BY <2>3, <2>4, <2>5 DEF Underway, Heads
<1>8. CASE host.http = None /\ steps # StopSteps
  <2> DEFINE waiting == [op EXCEPT !.at = "binding"]
  <2>1. op.steps[Len(op.steps)] = "listen"
    <3>1. /\ StartSteps[Len(StartSteps)] = "listen"
          /\ RestartSteps[Len(RestartSteps)] = "listen"
      BY DEF StartSteps, RestartSteps
    <3> QED BY <1>3, <1>8, <3>1
  <2>2. n = Listen(Host, op)
    BY <1>4, <1>6, <1>8, <2>1 DEF Run
  <2>3. /\ n.h.http = None /\ n.h.token = op.token /\ n.h.error = FALSE
        /\ n.ops = {waiting}
    <3> DEFINE l == Listen(Host, op)
    <3>1. /\ l.h.http = Host.h.http /\ l.h.token = op.token /\ l.h.error = FALSE
          /\ l.ops = Host.ops \union {waiting}
      BY <1>3, <1>4, ListenIs
    <3>2. n = l
      BY <2>2
    <3> HIDE DEF l, n, waiting
    <3> QED BY <1>4, <1>8, <3>1, <3>2
  <2>4. /\ waiting.at = "binding" /\ waiting.steps = steps
        /\ waiting.port = settings'.port /\ waiting.token = settings'.token
    BY <1>3 DEF RunningType
  <2> HIDE DEF waiting, n
  <2>6. /\ host'.http = None /\ ops' = {waiting}
        /\ host'.token = waiting.token /\ ~host'.error
    BY <1>3, <1>5, <2>3, <2>4 DEF HostBecomes
  <2>7. waiting.steps \in StepsLeft /\ Listens(waiting)
    BY <1>8, <2>4 DEF StepsLeft, Listens, StartSteps, StopSteps, RestartSteps
  <2> QED BY <1>8, <2>4, <2>6, <2>7 DEF Underway, Heads
<1>9. CASE host.http = None /\ steps = StopSteps
  <2>1. op.steps[Len(op.steps)] = "stop"
    BY <1>3, <1>9 DEF StopSteps
  <2>2. n = Host
    BY <1>4, <1>9, <2>1 DEF Run
  <2> HIDE DEF n
  <2>3. host' = host /\ ops' = {}
    BY <1>4, <1>5, <2>2 DEF HostBecomes
  <2> QED BY <1>9, <2>3 DEF Settled
<1> QED BY <1>7, <1>8, <1>9

\* The one call under way goes on, or leaves what the settings say.
LEMMA SettleFollows ==
  ASSUME HInv, NEW op \in ops, Underway, Closed(op) \/ Bound(op), settings' = settings
  PROVE  (Underway \/ (ops = {} /\ Settled))'
<1> DEFINE m == Resumed(op)
           id == Fresh({s.id : s \in listening})
           on == [op EXCEPT !.at = "running"]
<1>1. /\ m \in HostMemory /\ op \in OpType /\ m.h = host /\ m.listening = listening
      /\ host \in HostType /\ host.http = None
  BY ResumedOK DEF HostOK, HostMemory, Underway
<1>2. ops = {op} /\ Heads(op)
  BY DEF Underway
<1>3. m.ops = {}
  BY <1>2 DEF Resumed, Host
<1>4. id \in Nat
  BY IdsFinite, FreshIsFresh DEF HInv, HostOK, Host
<1>5. \A h \in HostType : /\ EmitStatus(h) \in HostType /\ EmitStatus(h).http = h.http
                          /\ EmitStatus(h).token = h.token /\ EmitStatus(h).error = h.error
  BY EmitStatusType DEF EmitStatus, HostType
<1> HIDE DEF id
<1>6. CASE Closed(op)
  <2> DEFINE told == AfterClose(m)
             n == Run(told, on)
  <2>1. HostBecomes(n)
    BY <1>6 DEF Closed
  <2>2. /\ told \in HostMemory /\ told.h.http = None /\ told.ops = {}
    BY <1>1, <1>3, <1>5 DEF AfterClose, HostMemory
  <2> HIDE DEF told, m
  <2>3. /\ on \in RunningType /\ on.steps = op.steps /\ on.port = op.port /\ on.token = op.token
    BY <1>1 DEF OpType, RunningType
  <2> HIDE DEF on
  <2>4. CASE Listens(op)
    <3> DEFINE waiting == [on EXCEPT !.at = "binding"]
               l == Listen(told, on)
    <3>1. op.steps # <<>> /\ op.steps[Len(op.steps)] = "listen"
      <4>1. /\ <<"listen">>[Len(<<"listen">>)] = "listen"
            /\ <<"stop", "listen">>[Len(<<"stop", "listen">>)] = "listen"
            /\ <<"stop", "stop", "listen">>[Len(<<"stop", "stop", "listen">>)] = "listen"
            /\ <<"listen">> # <<>> /\ <<"stop", "listen">> # <<>> /\ <<"stop", "stop", "listen">> # <<>>
        OBVIOUS
      <4> QED BY <2>4, <4>1 DEF Listens
    <3>2. n = l
      BY <2>2, <2>3, <3>1 DEF Run
    <3>3. /\ l.h.http = told.h.http /\ l.h.token = on.token /\ l.h.error = FALSE
          /\ l.ops = told.ops \union {waiting}
      BY <2>2, <2>3, ListenIs
    <3>4. /\ waiting.at = "binding" /\ waiting.steps = op.steps
          /\ waiting.port = op.port /\ waiting.token = op.token
      BY <2>3 DEF RunningType
    <3> HIDE DEF waiting, l, n
    <3>5. /\ host'.http = None /\ ops' = {waiting}
          /\ host'.token = waiting.token /\ ~host'.error
      BY <2>1, <2>2, <2>3, <3>2, <3>3, <3>4 DEF HostBecomes
    <3>6. /\ waiting.steps \in StepsLeft /\ Listens(waiting)
          /\ settings'.enabled /\ waiting.port = settings'.port /\ waiting.token = settings'.token
      BY <1>2, <2>4, <3>4 DEF Heads, Listens
    <3> QED BY <3>4, <3>5, <3>6 DEF Underway, Heads
  <2>5. CASE ~Listens(op)
    <3>1. op.steps \in {<<>>, <<"stop">>} /\ ~settings.enabled
      BY <1>2, <2>5 DEF Heads, StepsLeft, Listens
    <3>2. ~(op.steps # <<>> /\ op.steps[Len(op.steps)] = "listen")
      <4>1. <<"stop">>[Len(<<"stop">>)] = "stop"
        OBVIOUS
      <4> QED BY <3>1, <4>1
    <3>3. n = told
      BY <2>2, <2>3, <3>2 DEF Run
    <3> HIDE DEF n
    <3>4. host'.http = None /\ ops' = {}
      BY <2>1, <2>2, <3>3 DEF HostBecomes
    <3> QED BY <3>1, <3>4 DEF Settled
  <2> QED BY <2>4, <2>5
<1>7. CASE Bound(op)
  <2>1. /\ settings.enabled /\ op.port = settings.port /\ op.token = settings.token
        /\ host.token = op.token /\ (host.error => Errant)
    BY <1>2, <1>7 DEF Bound, Heads
  <2> DEFINE kept == [host EXCEPT !.http = id]
             failed == [host EXCEPT !.error = TRUE]
             server == [id |-> id, port |-> op.port, failed |-> FALSE]
  <2>2. kept \in HostType /\ kept.http = id /\ kept.token = host.token /\ kept.error = host.error
    BY <1>1, <1>4 DEF HostType
  <2>3. failed \in HostType /\ failed.http = None /\ failed.error
    BY <1>1 DEF HostType
  <2>4. /\ Kept(op).h = EmitStatus(kept) /\ Kept(op).listening = listening \union {server}
        /\ Kept(op).ops = {}
    BY <1>1, <1>3 DEF Kept, id, HostMemory
  <2>5. /\ NotKept(op).h = EmitStatus(failed) /\ NotKept(op).ops = {}
    BY <1>1, <1>3 DEF NotKept, BindFailed, HostMemory
  <2>6. HostBecomes(Kept(op)) \/ HostBecomes(NotKept(op))
    BY <1>7 DEF Bound
  <2>7. id # None
    BY <1>4, PortAssumption
  <2> HIDE DEF kept, failed
  <2>8. CASE HostBecomes(Kept(op))
    <3>1. /\ host'.http = id /\ host'.token = host.token /\ host'.error = host.error
          /\ listening' = listening \union {server} /\ ops' = {}
      BY <1>5, <2>2, <2>4, <2>8 DEF HostBecomes
    <3>2. server \in listening' /\ server.id = host'.http /\ server.port = settings'.port
      BY <2>1, <3>1
    <3>3. host'.error => Errant'
      BY <2>1, <3>1 DEF Errant
    <3> QED BY <2>1, <2>7, <3>1, <3>2, <3>3 DEF Settled
  <2>9. CASE HostBecomes(NotKept(op))
    <3>1. host'.http = None /\ host'.error /\ ops' = {}
      BY <1>5, <2>3, <2>5, <2>9 DEF HostBecomes
    <3> QED BY <3>1 DEF Settled
  <2> QED BY <2>6, <2>8, <2>9
<1> QED BY <1>6, <1>7

\* A call that begins with no other under way drops the server that is kept.
LEMMA IssueAlone ==
  ASSUME HInv, AloneInv, NEW steps \in {StartSteps, StopSteps, RestartSteps},
         NEW port \in Ports, NEW token \in Nat, NEW tag \in {"start", "handler"},
         Issue(steps, port, token, tag), overlapped' = (overlapped \/ ops # {})
  PROVE  AloneInv'
<1> SUFFICES ASSUME ~overlapped, ops = {}, \A s \in listening : s.id = host.http
             PROVE  IF ops' = {} THEN \A s \in listening' : s.id = host'.http
                    ELSE host'.http = None /\ listening' = {} /\ \E op \in ops' : ops' = {op}
  BY DEF AloneInv
<1> DEFINE op == NewOp(steps, port, token, tag)
           n == Run(Host, op)
<1>1. op \in RunningType /\ op.steps = steps
  <2>1. Fresh({o.id : o \in ops}) \in Nat
    BY IdsFinite, FreshIsFresh DEF HInv, HostOK, Host
  <2>2. /\ <<"stop">> \in Seq({"stop", "listen"})
        /\ <<"stop", "listen">> \in Seq({"stop", "listen"})
        /\ <<"stop", "stop", "listen">> \in Seq({"stop", "listen"})
    OBVIOUS
  <2> QED BY <2>1, <2>2 DEF NewOp, RunningType, StartSteps, StopSteps, RestartSteps
<1> HIDE DEF op
<1>2. /\ Host \in HostMemory /\ Host.h = host /\ Host.ops = {} /\ Host.listening = listening
  BY DEF HInv, HostOK, Host
<1>3. HostBecomes(n)
  BY DEF Issue, op
<1>4. op.steps # <<>> /\ Head(op.steps) = "stop"
  BY <1>1 DEF StartSteps, StopSteps, RestartSteps
<1>5. host.http = None => listening = {}
  BY <1>2, PortAssumption DEF HostMemory, ServerType
<1>6. CASE host.http # None
  <2>1. n = Close(Host, op)
    BY <1>2, <1>4, <1>6 DEF Run
  <2> DEFINE waiting == [op EXCEPT !.at = "closing", !.steps = Tail(op.steps)]
  <2>2. n.h.http = None /\ n.listening = {} /\ n.ops = {waiting}
    BY <1>1, <1>2, <2>1, CloseIs
  <2> HIDE DEF waiting, n
  <2> QED BY <1>3, <2>2 DEF HostBecomes
<1>7. CASE host.http = None /\ n = Listen(Host, op)
  <2> DEFINE waiting == [op EXCEPT !.at = "binding"]
             l == Listen(Host, op)
  <2>1. l.h.http = Host.h.http /\ l.listening = Host.listening /\ l.ops = Host.ops \union {waiting}
    BY <1>1, <1>2, ListenIs
  <2>2. n = l
    BY <1>7
  <2> HIDE DEF waiting, n, l
  <2> QED BY <1>2, <1>3, <1>5, <1>7, <2>1, <2>2 DEF HostBecomes
<1>8. CASE host.http = None /\ n = Host
  BY <1>2, <1>3, <1>5, <1>8 DEF HostBecomes
<1> QED BY <1>2, <1>6, <1>7, <1>8 DEF Run

\* The only call there is ends with the server it was to keep, or none.
LEMMA SettleAlone ==
  ASSUME HInv, AloneInv, NEW op \in ops, Closed(op) \/ Bound(op), overlapped' = overlapped
  PROVE  AloneInv'
<1> SUFFICES ASSUME ~overlapped, host.http = None, listening = {}, ops = {op}
             PROVE  IF ops' = {} THEN \A s \in listening' : s.id = host'.http
                    ELSE host'.http = None /\ listening' = {} /\ \E o \in ops' : ops' = {o}
  BY DEF AloneInv
<1> DEFINE m == Resumed(op)
           id == Fresh({s.id : s \in listening})
           on == [op EXCEPT !.at = "running"]
<1>1. /\ m \in HostMemory /\ op \in OpType /\ m.h = host /\ m.listening = {} /\ host \in HostType
  BY ResumedOK DEF HostOK, HostMemory
<1>2. m.ops = {}
  BY DEF Resumed, Host
<1>3. id \in Nat
  BY IdsFinite, FreshIsFresh DEF HInv, HostOK, Host
<1>4. \A h \in HostType : EmitStatus(h) \in HostType /\ EmitStatus(h).http = h.http
  BY EmitStatusType
<1> HIDE DEF id
<1>5. CASE Closed(op)
  <2> DEFINE told == AfterClose(m)
             n == Run(told, on)
  <2>1. HostBecomes(n)
    BY <1>5 DEF Closed
  <2>2. /\ told \in HostMemory /\ told.h.http = None /\ told.listening = {} /\ told.ops = {}
    BY <1>1, <1>2, <1>4 DEF AfterClose, HostMemory
  <2> HIDE DEF told, m
  <2>3. on \in RunningType
    BY <1>1 DEF OpType, RunningType
  <2> HIDE DEF on
  <2>4. CASE n = Listen(told, on)
    <3> DEFINE waiting == [on EXCEPT !.at = "binding"]
               l == Listen(told, on)
    <3>1. l.h.http = told.h.http /\ l.listening = told.listening /\ l.ops = told.ops \union {waiting}
      BY <2>2, <2>3, ListenIs
    <3>2. n = l
      BY <2>4
    <3> HIDE DEF waiting, n, l
    <3> QED BY <2>1, <2>2, <3>1, <3>2 DEF HostBecomes
  <2>5. CASE n = told
    BY <2>1, <2>2, <2>5 DEF HostBecomes
  <2> QED BY <2>2, <2>4, <2>5 DEF Run
<1>6. CASE Bound(op)
  <2> DEFINE kept == [host EXCEPT !.http = id]
             failed == [host EXCEPT !.error = TRUE]
             server == [id |-> id, port |-> op.port, failed |-> FALSE]
  <2>1. kept \in HostType /\ kept.http = id /\ failed \in HostType
    BY <1>1, <1>3 DEF HostType
  <2>2. /\ Kept(op).h = EmitStatus(kept) /\ Kept(op).listening = {server} /\ Kept(op).ops = {}
    BY <1>1, <1>2 DEF Kept, id, HostMemory
  <2>3. NotKept(op).listening = {} /\ NotKept(op).ops = {}
    BY <1>1, <1>2 DEF NotKept, BindFailed, HostMemory
  <2>4. HostBecomes(Kept(op)) \/ HostBecomes(NotKept(op))
    BY <1>6 DEF Bound
  <2> HIDE DEF kept, failed
  <2> QED BY <1>4, <2>1, <2>2, <2>3, <2>4 DEF HostBecomes
<1> QED BY <1>5, <1>6

\* A server that fails leaves the call under way, and what the settings ask for.
LEMMA FailureFollows ==
  ASSUME HInv, NEW server \in listening, ServerFails(server), UNCHANGED <<settings, phase>>
  PROVE  /\ Underway => Underway'
         /\ Unasked => Unasked'
         /\ Settled => Settled'
<1> DEFINE worse == [server EXCEPT !.failed = TRUE]
<1>1. /\ host'.http = host.http /\ host'.token = host.token /\ ops' = ops
      /\ listening' = (listening \ {server}) \union {worse}
  BY ServerFailsOK DEF ServerFails
<1>2. worse.id = server.id /\ worse.port = server.port /\ worse.failed
  BY DEF HInv, HostOK, HostMemory, Host, ServerType
<1> HIDE DEF worse
<1>3. Errant'
  BY <1>1, <1>2 DEF Errant
<1>4. \A o \in ops : Heads(o) => Heads(o)'
  BY <1>1, <1>3 DEF Heads
<1>5. Settled => Settled'
  <2>1. settings' = settings /\ host'.error
    BY ServerFailsOK
  <2>2. \A p : (\E s \in listening : s.id = host.http /\ s.port = p)
               => \E s \in listening' : s.id = host'.http /\ s.port = p
    BY <1>1, <1>2
  <2> QED BY <1>1, <1>3, <2>1, <2>2 DEF Settled
<1>6. Underway => Underway'
  BY <1>1, <1>4 DEF Underway
<1> QED BY <1>1, <1>5, <1>6 DEF Unasked

\* Settings that concern the server neither now nor later.
LEMMA SameServer ==
  ASSUME ServerInv, UNCHANGED <<host, ops, listening>>, phase' = phase \/ settings.enabled = FALSE,
         settings'.enabled = settings.enabled, settings'.port = settings.port,
         settings'.token = settings.token, "server" \notin behind' => "server" \notin behind
  PROVE  ServerInv'
<1> SUFFICES ASSUME "server" \notin behind PROVE (Unasked \/ Underway \/ (ops = {} /\ Settled))'
  BY DEF ServerInv
<1>1. CASE Unasked
  BY <1>1 DEF Unasked, Settled
<1>2. CASE Underway
  <2>1. PICK op \in ops : ops = {op} /\ Heads(op)
    BY <1>2 DEF Underway
  <2>2. op \in ops' /\ ops' = {op}
    BY <2>1
  <2>3. Heads(op)'
    BY <2>1 DEF Heads, Errant
  <2> QED BY <1>2, <2>2, <2>3 DEF Underway
<1>3. CASE ops = {} /\ Settled
  BY <1>3 DEF Settled, Errant
<1> QED BY <1>1, <1>2, <1>3 DEF ServerInv

\* Every step keeps the server behind the settings only while an operation is to catch
\* up; a call alone follows whatever came before it.
LEMMA ServerSteps ==
  ASSUME Inv, ServerInv, [Next]_vars
  PROVE  ServerInv'
<1>1. settings \in SettingsType /\ HInv
  BY DEF Inv, SInv
<1>2. /\ StopSteps \in {StartSteps, StopSteps, RestartSteps}
      /\ RestartSteps \in {StartSteps, StopSteps, RestartSteps} /\ RestartSteps # StopSteps
      /\ StartSteps # StopSteps
  <2>1. Len(<<"stop">>) = 1 /\ Len(<<"stop", "listen">>) = 2 /\ Len(<<"stop", "stop", "listen">>) = 3
    OBVIOUS
  <2> QED BY <2>1 DEF StartSteps, RestartSteps, StopSteps
<1>3. CASE StoreReady
  <2>1. settings' = settings
    BY <1>3 DEF StoreReady
  <2>2. CASE settings.enabled
    <3> SUFFICES ASSUME "server" \notin behind' PROVE (Underway \/ (ops = {} /\ Settled))'
      BY DEF ServerInv
    <3>1. ops = {} /\ Issue(StartSteps, settings'.port, settings'.token, "start")
      BY <1>3, <2>1, <2>2 DEF StoreReady, Follows
    <3> QED BY <1>1, <1>2, <2>1, <2>2, <3>1, IssueFollows
  <2>3. CASE ~settings.enabled
    <3>1. UNCHANGED <<host, ops, listening>> /\ behind' = behind
      BY <1>3, <2>3 DEF StoreReady, hostVars
    <3>2. settings.enabled = FALSE
      BY <1>1, <2>3 DEF SettingsType
    <3> QED BY <2>1, <3>1, <3>2, SameServer
  <2> QED BY <2>2, <2>3
<1>4. ASSUME NEW new \in Changes, Patch(new) PROVE ServerInv'
  <2>1. new \in SettingsType /\ new.token = settings.token /\ settings' = new /\ phase' = phase
    BY <1>1, <1>4 DEF Patch, Changes, SettingsType
  <2>2. CASE settings.enabled # new.enabled \/ settings.port # new.port
    <3> SUFFICES ASSUME "server" \notin behind' PROVE (Underway \/ (ops = {} /\ Settled))'
      BY DEF ServerInv
    <3>1. ops = {} /\ FollowServer(settings, new)
      BY <1>4, <2>2 DEF Patch, Follows
    <3>2. CASE new.enabled
      <4>1. Issue(RestartSteps, settings'.port, settings'.token, "handler")
        BY <2>1, <3>1, <3>2 DEF FollowServer
      <4>2. (RestartSteps = StopSteps) <=> ~settings'.enabled
        BY <1>2, <2>1, <3>2
      <4> QED BY <1>1, <1>2, <2>1, <3>1, <4>1, <4>2, IssueFollows
    <3>3. CASE ~new.enabled
      <4>1. Issue(StopSteps, settings'.port, settings'.token, "handler")
        BY <2>1, <3>1, <3>3 DEF FollowServer
      <4>2. (StopSteps = StopSteps) <=> ~settings'.enabled
        BY <2>1, <3>3
      <4> QED BY <1>1, <1>2, <2>1, <3>1, <4>1, <4>2, IssueFollows
    <3> QED BY <3>2, <3>3
  <2>3. CASE ~(settings.enabled # new.enabled \/ settings.port # new.port)
    <3>1. UNCHANGED <<host, ops, listening>> /\ ("server" \notin behind' => "server" \notin behind)
      BY <1>4, <2>3 DEF Patch, hostVars
    <3> QED BY <2>1, <2>3, <3>1, SameServer
  <2> QED BY <2>2, <2>3
<1>5. CASE Reset
  BY <1>5 DEF Reset, ServerInv
<1>6. CASE RegenerateToken
  <2> SUFFICES ASSUME "server" \notin behind' PROVE (Underway \/ (ops = {} /\ Settled))'
    BY DEF ServerInv
  <2>1. ops = {} /\ settings.enabled
    BY <1>6 DEF RegenerateToken, Follows
  <2>2. settings' = [settings EXCEPT !.token = settings.token + 1]
    BY <1>6 DEF RegenerateToken
  <2>3. settings' \in SettingsType /\ settings'.enabled
    BY <1>1, <2>1, <2>2 DEF SettingsType
  <2>4. Issue(RestartSteps, settings'.port, settings'.token, "handler")
    BY <1>6, <2>2 DEF RegenerateToken
  <2> QED BY <1>1, <1>2, <2>1, <2>3, <2>4, IssueFollows
<1>7. ASSUME NEW op \in ops, CallSettles(op) PROVE ServerInv'
  <2> SUFFICES ASSUME "server" \notin behind' PROVE (Underway \/ (ops = {} /\ Settled))'
    BY DEF ServerInv
  <2>1. "server" \notin behind /\ settings' = settings /\ (Closed(op) \/ Bound(op))
    BY <1>7 DEF CallSettles
  <2>2. Underway
    BY <2>1 DEF ServerInv, Unasked
  <2> QED BY <1>1, <2>1, <2>2, SettleFollows
<1>8. ASSUME NEW port \in Ports, OtherProgram(port) PROVE ServerInv'
  BY <1>8, SameServer DEF OtherProgram, TogglePort
<1>9. CASE ListenerFails
  <2>1. PICK server \in listening : ServerFails(server)
    BY <1>9 DEF ListenerFails
  <2>2. UNCHANGED <<settings, phase, behind>> /\ ops' = ops
    BY <1>9, <2>1 DEF ListenerFails, ServerFails
  <2> QED BY <1>1, <2>1, <2>2, FailureFollows DEF ServerInv
<1>10. CASE UNCHANGED vars
  BY <1>10, SameServer DEF vars, hostVars
<1> QED BY <1>3, <1>4, <1>5, <1>6, <1>7, <1>8, <1>9, <1>10 DEF Next

\* Every step leaves no server but the one that is kept, until calls overlap.
LEMMA AloneSteps ==
  ASSUME Inv, AloneInv, [Next]_vars
  PROVE  AloneInv'
<1>1. settings \in SettingsType /\ HInv /\ settings.port \in Ports /\ settings.token \in Nat
  BY DEF Inv, SInv, SettingsType
<1>2. ASSUME UNCHANGED <<host, ops, listening, overlapped>> PROVE AloneInv'
  BY <1>2 DEF AloneInv
<1>3. CASE StoreReady
  BY <1>1, <1>2, <1>3, IssueAlone DEF StoreReady, Follows, hostVars
<1>4. ASSUME NEW new \in Changes, Patch(new) PROVE AloneInv'
  <2>1. new.port \in Ports /\ new.token \in Nat
    BY <1>1, <1>4 DEF Changes, SettingsType
  <2>2. CASE FollowServer(settings, new) /\ Follows(TRUE)
    BY <1>1, <2>1, <2>2, IssueAlone DEF FollowServer, Follows
  <2>3. CASE UNCHANGED <<hostVars, overlapped>>
    BY <1>2, <2>3 DEF hostVars
  <2> QED BY <1>4, <2>2, <2>3 DEF Patch
<1>5. CASE Reset
  BY <1>2, <1>5 DEF Reset, hostVars
<1>6. CASE RegenerateToken
  <2>1. settings.token + 1 \in Nat
        /\ Issue(RestartSteps, settings.port, settings.token + 1, "handler")
    BY <1>1, <1>6 DEF RegenerateToken, SettingsType
  <2> QED BY <1>1, <1>6, <2>1, IssueAlone DEF RegenerateToken, Follows
<1>7. ASSUME NEW op \in ops, CallSettles(op) PROVE AloneInv'
  BY <1>1, <1>7, SettleAlone DEF CallSettles
<1>8. ASSUME NEW port \in Ports, OtherProgram(port) PROVE AloneInv'
  BY <1>2, <1>8 DEF OtherProgram, TogglePort
<1>9. CASE ListenerFails
  <2>1. PICK server \in listening : ServerFails(server)
    BY <1>9 DEF ListenerFails
  <2> DEFINE worse == [server EXCEPT !.failed = TRUE]
  <2>2. /\ host'.http = host.http /\ ops' = ops /\ overlapped' = overlapped
        /\ listening' = (listening \ {server}) \union {worse}
    BY <1>1, <1>9, <2>1, ServerFailsOK DEF ListenerFails, ServerFails
  <2>3. worse.id = server.id
    BY <1>1 DEF HInv, HostOK, HostMemory, Host, ServerType
  <2> HIDE DEF worse
  <2> QED BY <2>2, <2>3 DEF AloneInv
<1>10. CASE UNCHANGED vars
  BY <1>2, <1>10 DEF vars, hostVars
<1> QED BY <1>3, <1>4, <1>5, <1>6, <1>7, <1>8, <1>9, <1>10 DEF Next

\* At rest the endpoint is off when it is disabled, and otherwise a server on the port
\* and with the token of the settings, or an error and none, and an error beside a
\* server is one of a server that listens: after start-up, patches and new tokens at any
\* time, those before the store is ready included, and after a reset or calls that
\* overlapped from the next call that runs alone; and no second server listens unless
\* calls have overlapped.
THEOREM EndpointFollows == Spec => []ServerFollowsSettings
<1>1. Init => ServerInv /\ AloneInv
  BY DEF Init, HostInit, ServerInv, Unasked, AloneInv
<1>2. Inv /\ ServerInv /\ AloneInv /\ [Next]_vars => ServerInv' /\ AloneInv'
  BY ServerSteps, AloneSteps
<1>3. ServerInv /\ AloneInv => ServerFollowsSettings
  BY DEF ServerInv, AloneInv, Unasked, Underway, Settled, Errant, ServerFollowsSettings, AtRest
<1> QED BY <1>1, <1>2, <1>3, InvariantHolds, PTL DEF Spec
=============================================================================
