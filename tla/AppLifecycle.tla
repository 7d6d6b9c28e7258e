----------------------------- MODULE AppLifecycle -----------------------------
(***************************************************************************)
(* What must outlive a run of the app: the settings file (settings/store), *)
(* the record of an update handed to the installer (updater.ts), and the   *)
(* slowdown recording, which quitting waits for (quit.ts, app.ts dispose). *)
(*                                                                         *)
(* Runs start, quit, install what was downloaded, and crash at any point.  *)
(* Versions and tokens are numbers; settings but the token are one value.  *)
(***************************************************************************)
EXTENDS SlowdownRecorder

CONSTANTS
  Values,     \* values of the settings but for the token
  Default,    \* those of defaultSettings
  Absent, Corrupt,  \* contents of the settings file
  Budgets     \* bounds: sets of records, how often each thing happens

Things == {"patch", "reset", "renew", "spoil", "lock", "disk", "crash", "again",
           "release", "check", "fetch", "sample", "tick", "start", "stop", "export", "quit"}
Contents == [token : Nat \union {None}, value : Values]
ASSUME ValuesAssumption ==
  Default \in Values /\ Absent # Corrupt /\ {None, Absent, Corrupt} \cap Contents = {}
ASSUME LifeBudgetAssumption == Budgets \subseteq [Things -> Nat]

VARIABLES
  app,       \* "down", "up", "finishing" a quit, or "finished" with it
  settings,  \* SettingsStore.settings
  file,      \* settings.json
  updater,   \* AppUpdater
  pending,   \* pending-install.json
  library,   \* electron-updater: what it does, and what a quit would install
  version,   \* the version installed
  latest,    \* the version published
  past,      \* history, see PastInit
  budget     \* what is left of the bounds

recorder == <<rec, chain, files, asks>>
store == <<settings, file>>
update == <<updater, pending, library, version, latest>>
vars == <<app, store, update, recorder, past, budget>>

\* What is done as often as the bounds allow, and whether the disk fails it.
Spend(thing, ok) ==
  /\ budget[thing] > 0 /\ (ok \/ budget["disk"] > 0)
  /\ budget' = [budget EXCEPT ![thing] = @ - 1, !["disk"] = IF ok THEN @ ELSE @ - 1]

Disk(ok) ==
  /\ ok \/ budget["disk"] > 0
  /\ budget' = [budget EXCEPT !["disk"] = IF ok THEN @ ELSE @ - 1]

\* History: the settings last written, the tokens given so far, the notice of a
\* failed install last shown, the version that a quit with a download on display
\* tried to install, whether the record of that could not be written, and the
\* samples of this run.
PastInit ==
  [durable |-> None, tokens |-> 0, told |-> None, tried |-> None,
   unrecorded |-> FALSE, made |-> [r \in Recordings |-> 0]]

-----------------------------------------------------------------------------
(* SettingsStore *)

Content(token, value) == [token |-> token, value |-> value]
FreshToken == past.tokens + 1

\* A temporary file is written and renamed: what fails leaves the file as it was.
\* A crash on the way is a failure or a success, and then a crash.
NotWritten == file

\* persist: the settings in memory are in force either way.
Persist(s, ok) ==
  /\ settings' = s
  /\ file' = IF ok THEN s ELSE NotWritten
  /\ past' = [past EXCEPT !.durable = IF ok THEN s ELSE @,
                          !.tokens = IF s.token > @ THEN s.token ELSE @]

\* (mutated form: a setting whose validation fails on load is put back to its default)
MutantLoaded(locked) ==
  IF locked \/ file \in {Absent, Corrupt} THEN Content(FreshToken, Default)
  ELSE IF file.token = None THEN Content(FreshToken, Default) ELSE Content(file.token, Default)
\* load: a file that is absent, corrupt (it is kept as a backup) or locked by
\* another program gives the defaults, and a file without a token gets one.
Loaded(locked) ==
  IF locked \/ file \in {Absent, Corrupt} THEN Content(FreshToken, Default)
  ELSE IF file.token = None THEN Content(FreshToken, file.value) ELSE file

Patch(value) ==
  /\ app = "up"
  /\ \E ok \in BOOLEAN : Spend("patch", ok) /\ Persist([settings EXCEPT !.value = value], ok)
  /\ UNCHANGED <<app, update, recorder>>

\* "A reset must not silently break registered MCP clients."
ResetTo == Content(settings.token, Default)

Reset ==
  /\ app = "up"
  /\ \E ok \in BOOLEAN : Spend("reset", ok) /\ Persist(ResetTo, ok)
  /\ UNCHANGED <<app, update, recorder>>

RegenerateMcpToken ==
  /\ app = "up"
  /\ \E ok \in BOOLEAN :
       Spend("renew", ok) /\ Persist([settings EXCEPT !.token = FreshToken], ok)
  /\ UNCHANGED <<app, update, recorder>>

-----------------------------------------------------------------------------
(* AppUpdater *)

\* Nothing is emitted once disposed.
Emit(state, v) ==
  updater' = IF updater.disposed THEN updater ELSE [updater EXCEPT !.state = state, !.version = v]

\* (mutated form: a failed install is told once)
MutantReconciled == IF pending # None THEN None ELSE pending
\* reconcilePendingInstall: "the record stays: the notice has to survive restarts".
Reconciled == IF pending # None /\ version >= pending THEN None ELSE pending

StartUpdater ==
  /\ app = "up" /\ ~updater.started
  /\ LET failed == IF pending # None /\ version < pending THEN pending ELSE None
     IN /\ updater' = [updater EXCEPT !.started = TRUE, !.failed = failed]
        /\ past' = [past EXCEPT !.told = failed, !.tried = None, !.unrecorded = FALSE]
  /\ pending' = Reconciled
  /\ UNCHANGED <<app, store, library, version, latest, recorder, budget>>

\* By the user, the tray or the timer of six hours.
CheckNow ==
  /\ updater.started /\ ~updater.disposed /\ library.doing = "nothing"
  /\ Spend("check", TRUE)
  /\ library' = [library EXCEPT !.doing = "checking"]
  /\ Emit("checking", None)
  /\ UNCHANGED <<app, store, pending, version, latest, recorder, past>>

\* Events of electron-updater: the answer to a check, and the end of a download.
CheckAnswered ==
  /\ library.doing = "checking"
  /\ \/ /\ latest > version
        /\ library' = [library EXCEPT !.doing = "downloading"]
        /\ Emit("available", latest)
     \/ /\ latest <= version
        /\ library' = [library EXCEPT !.doing = "nothing"]
        /\ Emit("not-available", None)
  /\ UNCHANGED <<app, store, pending, version, latest, recorder, past, budget>>

Downloaded ==
  /\ library.doing = "downloading"
  /\ library' = [doing |-> "nothing", got |-> latest]
  /\ Emit("downloaded", latest)
  /\ UNCHANGED <<app, store, pending, version, latest, recorder, past, budget>>

CheckFails ==
  /\ library.doing # "nothing" /\ Spend("fetch", TRUE)
  /\ library' = [library EXCEPT !.doing = "nothing"]
  /\ Emit("error", updater.version)
  /\ UNCHANGED <<app, store, pending, version, latest, recorder, past>>

Publish ==
  /\ Spend("release", TRUE)
  /\ library.doing = "nothing"
  /\ latest' = latest + 1
  /\ UNCHANGED <<app, store, updater, pending, library, version, recorder, past>>

HandsOff == updater.state = "downloaded" /\ updater.version # None

\* markInstallHandoff: the record may fail to be written, and is lost then.
MarkInstallHandoff(ok) ==
  IF ~HandsOff THEN UNCHANGED <<pending, past>>
  ELSE /\ pending' = IF ok THEN updater.version ELSE None
       /\ past' = [past EXCEPT !.unrecorded = ~ok]

-----------------------------------------------------------------------------
(* The run of the app *)

NotStarted == [started |-> FALSE, disposed |-> FALSE, state |-> "idle", version |-> None,
               failed |-> None]
Idle == [doing |-> "nothing", got |-> None]

Start ==
  /\ app = "down"
  /\ app' = "up"
  /\ \E ok, locked \in BOOLEAN :
       /\ locked => budget["lock"] > 0 /\ file \notin {Absent, Corrupt}
       /\ Spend(IF locked THEN "lock" ELSE "again", ok)
       /\ Persist(Loaded(locked), ok)
  /\ UNCHANGED <<update, recorder>>

MayQuit == app = "up"

\* before-quit, the first time: main holds the quit until dispose has ended.
Quit ==
  /\ MayQuit
  /\ app' = "finishing"
  /\ \E ok \in BOOLEAN : Spend("quit", ok) /\ MarkInstallHandoff(ok)
  /\ updater' = [updater EXCEPT !.disposed = TRUE]
  /\ StopRecording("dispose")
  /\ UNCHANGED <<store, library, version, latest>>

FlushedBy(a) == Goes(a, "dispose", "flushed")
\* ... and quits again, now for good.
Disposed(a) ==
  /\ app = "finishing" /\ FlushedBy(a)
  /\ app' = "finished"
  /\ asks' = asks \ {a}
  /\ \E ok \in BOOLEAN : Disk(ok) /\ MarkInstallHandoff(ok)
  /\ UNCHANGED <<store, updater, library, version, latest, rec, chain, files>>

\* before-quit again, by the user while the first one finishes.
QuitAgain ==
  /\ app = "finishing"
  /\ \E ok \in BOOLEAN : Spend("quit", ok) /\ MarkInstallHandoff(ok)
  /\ UNCHANGED <<app, store, updater, library, version, latest, recorder>>

\* What is in memory goes with the process; no later run touches the recordings.
Gone ==
  /\ app' = "down"
  /\ rec' = Off /\ chain' = <<>> /\ asks' = {} /\ files' = [r \in Recordings |-> NoFile]
  /\ settings' = None /\ updater' = NotStarted /\ library' = Idle
  /\ UNCHANGED <<file, latest>>

\* quit() with nothing left to wait for: what was downloaded is installed, or not.
Leave ==
  /\ app = "finished"
  /\ Gone
  /\ version' \in IF library.got = None THEN {version} ELSE {version, library.got}
  /\ UNCHANGED <<pending, budget>>
  /\ past' = [past EXCEPT !.tried = IF ~updater.started THEN @
                                   ELSE IF updater.state = "downloaded" THEN library.got ELSE None,
                          !.made = PastInit.made]

Crash ==
  /\ app # "down" /\ Spend("crash", TRUE)
  /\ Gone
  /\ past' = [past EXCEPT !.tried = IF updater.started THEN None ELSE @, !.made = PastInit.made]
  /\ UNCHANGED <<pending, version>>

\* While the app is down, its settings file may come to harm, or lose its token.
Spoil ==
  /\ app = "down" /\ file \notin {Absent, Corrupt} /\ Spend("spoil", TRUE)
  /\ file' \in {Corrupt, Content(None, file.value)}
  /\ past' = [past EXCEPT !.durable = file']
  /\ UNCHANGED <<app, settings, update, recorder>>

-----------------------------------------------------------------------------
(* The recorder in the app: its calls come through IPC, which quitting ends. *)

Sampled == past' = [past EXCEPT !.made[rec.path] = @ + 1]

Calls ==
  /\ app = "up"
  /\ \/ Spend("start", TRUE) /\ StartRecording
     \/ Spend("stop", TRUE) /\ rec.enabled /\ StopRecording("stop")
     \/ Spend("export", TRUE) /\ PrepareExport
  /\ UNCHANGED past

Samples ==
  /\ app # "down"
  /\ \/ Spend("sample", TRUE) /\ Record /\ Sampled
     \/ Spend("tick", TRUE) /\ Tick /\ Sampled

Answers ==
  /\ WriteEnds \/ \E a \in asks : DirectoryMade(a) \/ FileCreated(a) \/ SummaryWritten(a)
  /\ UNCHANGED <<past, budget>>
Failures ==
  /\ WriteFails \/ \E a \in asks : SummaryFails(a)
  /\ Disk(FALSE)
  /\ UNCHANGED past
Continuations ==
  /\ \E a \in asks : StopEnds(a) \/ ExportFlushed(a) \/ DisposeGoesOn(a)
  /\ UNCHANGED <<past, budget>>

-----------------------------------------------------------------------------

Init ==
  /\ app = "down" /\ settings = None /\ file = Absent
  /\ updater = NotStarted /\ pending = None /\ library = Idle /\ version = 1 /\ latest = 1
  /\ RecorderInit
  /\ past = PastInit
  /\ budget \in Budgets

Settings == (\E v \in Values : Patch(v)) \/ Reset \/ RegenerateMcpToken \/ Spoil
Updates == StartUpdater \/ CheckNow \/ CheckAnswered \/ Downloaded \/ CheckFails \/ Publish
Recording == Calls \/ Samples \/ Answers \/ Failures
Quitting == Quit \/ QuitAgain \/ Leave \/ \E a \in asks : Disposed(a)

Next ==
  \/ Settled /\ (Settings \/ Updates \/ Start \/ Quitting)
  \/ Settled /\ Recording /\ UNCHANGED <<app, store, update>>
  \/ Continuations /\ UNCHANGED <<app, store, update>>
  \/ Crash

Spec == Init /\ [][Next]_vars

-----------------------------------------------------------------------------
(* Properties *)

\* Settings that were written outlive quits, crashes and failing disks: unless the
\* file was spoiled or is locked, the next run starts with the settings last
\* written, of this run or of one before, and never with a part of them.
SettingsSurvive == [][
  (app = "down" /\ app' = "up" /\ past.durable \notin {None, Corrupt}) =>
    \/ settings'.value = past.durable.value
    \/ budget'["lock"] < budget["lock"]]_vars

\* An install that was handed over on the way out and did not take is told by the
\* next run, and every run after it tells of it, or of a newer one, until the
\* version is running - unless the record itself could not be written.
FailureTold == [][
  (updater'.started /\ ~updater.started /\ ~past.unrecorded) =>
    /\ past.tried # None /\ version < past.tried => updater'.failed = past.tried
    /\ past.told # None /\ version < past.told =>
         updater'.failed # None /\ updater'.failed >= past.told]_vars

\* Whatever fails and whatever calls overlap, a sample is in the buffer or in a
\* file until the run ends: none made while a write runs is dropped with its batch.
Saved(r) == Cardinality(UNION {{f} \X (1..files[f].samples[r]) : f \in Recordings})
NoSampleDropped == \A r \in Recordings : past.made[r] <= Saved(r) + Of(r, rec.buffer)
=============================================================================
