----------------------------- MODULE AppSettings -----------------------------
(***************************************************************************)
(* Settings in force: src/main/app.ts (start-up, applySettingsPatch), the  *)
(* settings channels of src/main/ipc/handlers.ts, the polling scheduler    *)
(* src/main/state/polling.ts and, through McpServerHost, the MCP endpoint. *)
(*                                                                         *)
(* A patch is synchronous up to the MCP call it may await.  Settings that  *)
(* are stored and passed on to the renderer, and nothing else, are left    *)
(* out.                                                                    *)
(***************************************************************************)
EXTENDS McpServerHost

CONSTANTS
  Periods,     \* polling intervals
  Defaults,    \* defaultSettings(), with the token of a first start
  StartWith,   \* settings the app may start with
  MaxChanges,  \* bound: settings patches
  MaxResets,   \* bound: resets
  MaxTokens,   \* bound: token regenerations
  MaxTaken,    \* bound: ports taken or given up by other programs
  MaxErrors    \* bound: errors of a server that listens

SettingsType ==
  [paused : BOOLEAN, ms : Periods, enabled : BOOLEAN, port : Ports, token : Nat]

ASSUME SettingsAssumption ==
  /\ None \notin Periods
  /\ StartWith \subseteq SettingsType
  /\ Defaults \in SettingsType
ASSUME ChangesAssumption == {MaxChanges, MaxResets, MaxTokens, MaxTaken, MaxErrors} \subseteq Nat

VARIABLES
  settings,  \* SettingsStore.get()
  polling,   \* the PollingScheduler: [made, started, paused, ms, armed]
  phase,     \* how far start has come
  behind,    \* history: "timers", "server": left behind the settings, and not set since
  overlapped, \* history: a call began while another was under way
  budget     \* what is left of the bounds above

vars == <<hostVars, settings, polling, phase, behind, overlapped, budget>>

-----------------------------------------------------------------------------
(* PollingScheduler; armed is the period of its timers, None without any *)

Arm(p) == [p EXCEPT !.armed = p.ms]

Clear(p) == [p EXCEPT !.armed = None]

Started(p) ==
  LET on == [p EXCEPT !.started = TRUE] IN IF p.paused THEN on ELSE Arm(on)

SetPaused(p, paused) ==
  LET set == [p EXCEPT !.paused = paused] IN
  IF paused = p.paused \/ ~p.started THEN set ELSE IF paused THEN Clear(set) ELSE Arm(set)

\* Mutated form: a new period waits for the next resume.
SetIntervalsLazily(p, s) == SetPaused([p EXCEPT !.ms = s.ms], s.paused)

SetIntervals(p, s) ==
  LET set == [p EXCEPT !.ms = s.ms] IN
  IF s.paused # p.paused THEN SetPaused(set, s.paused)
  ELSE IF p.started /\ ~p.paused THEN Arm(set) ELSE set

Retimes(old, new) == old.paused # new.paused \/ old.ms # new.ms

\* The monitoring part of applySettingsPatch.
Monitor(p, old, new) ==
  IF p.made /\ Retimes(old, new)
  THEN SetPaused(SetIntervals(p, new), new.paused) ELSE p

-----------------------------------------------------------------------------
(* Calls into the MCP host *)

\* A call is tagged with what awaits it: start, or a handler with nothing more to do.
Issue(steps, port, token, tag) ==
  HostBecomes(Run(Host, NewOp(steps, port, token, tag))) /\ UNCHANGED taken

\* What follows a call runs in the step that ends it.
Done(tag) == phase' = IF tag = "start" THEN "up" ELSE phase

\* Only a call that runs alone is sure to leave the server as the settings ask: one that
\* stops while another binds finds nothing to stop, and of two that bind the last wins.
Follows(asked) ==
  /\ overlapped' = (overlapped \/ ops # {})
  /\ behind' = IF ops = {} /\ asked THEN behind \ {"server"} ELSE behind \union {"server"}

-----------------------------------------------------------------------------
(* Actions *)

\* start, once store.initialize() is back.
StoreReady ==
  /\ phase = "initializing"
  /\ LET made == [polling EXCEPT !.made = TRUE, !.paused = settings.paused, !.ms = settings.ms]
     IN  polling' = IF settings.paused THEN made ELSE Started(made)
  /\ IF settings.enabled
     THEN /\ Issue(StartSteps, settings.port, settings.token, "start")
          /\ phase' = "starting"
          /\ Follows(TRUE)
     ELSE phase' = "up" /\ UNCHANGED <<hostVars, behind, overlapped>>
  /\ UNCHANGED <<settings, budget>>

\* Mutated form: the server restarts with the settings of before the patch.
FollowServerOld(old, new) ==
  IF new.enabled THEN Issue(RestartSteps, old.port, old.token, "handler")
  ELSE Issue(StopSteps, new.port, new.token, "handler")

\* The MCP part of applySettingsPatch.
FollowServer(old, new) ==
  IF new.enabled THEN Issue(RestartSteps, new.port, new.token, "handler")
  ELSE Issue(StopSteps, new.port, new.token, "handler")

\* applySettingsPatch, from the settings drawer, the tray or the Explorer.
Patch(new) ==
  /\ budget.changes > 0 /\ new # settings
  /\ settings' = new
  /\ polling' = Monitor(polling, settings, new)
  /\ IF settings.enabled # new.enabled \/ settings.port # new.port
     THEN FollowServer(settings, new) /\ Follows(TRUE)
     ELSE /\ UNCHANGED <<hostVars, overlapped>>
          /\ behind' = IF Retimes(settings, new) THEN behind \ {"timers"} ELSE behind
  /\ budget' = [budget EXCEPT !.changes = @ - 1]
  /\ UNCHANGED phase

\* One control of the settings drawer changes one setting.
Changes ==
  {[settings EXCEPT !.paused = x] : x \in BOOLEAN}
    \union {[settings EXCEPT !.ms = x] : x \in Periods}
    \union {[settings EXCEPT !.enabled = x] : x \in BOOLEAN}
    \union {[settings EXCEPT !.port = x] : x \in Ports}

\* settingsReset: the store resets, then an empty patch finds nothing changed.
Reset ==
  LET new == [Defaults EXCEPT !.token = settings.token] IN
  /\ budget.resets > 0
  /\ settings' = new
  /\ behind' = {"timers", "server"}
  /\ budget' = [budget EXCEPT !.resets = @ - 1]
  /\ UNCHANGED <<hostVars, polling, phase, overlapped>>

\* mcpRegenerateToken: the server restarts whether or not it is enabled.
RegenerateToken ==
  LET new == [settings EXCEPT !.token = @ + 1] IN
  /\ budget.tokens > 0
  /\ settings' = new
  /\ Issue(RestartSteps, new.port, new.token, "handler")
  /\ Follows(settings.enabled)
  /\ budget' = [budget EXCEPT !.tokens = @ - 1]
  /\ UNCHANGED <<polling, phase>>

\* A close or a bind settles; if the call is over, what awaited it goes on.
CallSettles(op) ==
  /\ Closed(op) \/ Bound(op)
  /\ IF \A other \in ops' : other.id # op.id THEN Done(op.tag) ELSE UNCHANGED phase
  /\ UNCHANGED <<settings, polling, behind, overlapped, budget>>

ListenerFails ==
  /\ budget.errors > 0
  /\ \E server \in listening : ServerFails(server)
  /\ budget' = [budget EXCEPT !.errors = @ - 1]
  /\ UNCHANGED <<settings, polling, phase, behind, overlapped>>

OtherProgram(port) ==
  /\ budget.taken > 0
  /\ TogglePort(port)
  /\ budget' = [budget EXCEPT !.taken = @ - 1]
  /\ UNCHANGED <<settings, polling, phase, behind, overlapped>>

Init ==
  /\ HostInit
  /\ settings \in StartWith
  /\ polling = [made |-> FALSE, started |-> FALSE, paused |-> FALSE, ms |-> settings.ms,
                armed |-> None]
  /\ phase = "initializing" /\ behind = {} /\ overlapped = FALSE
  /\ budget = [changes |-> MaxChanges, resets |-> MaxResets, tokens |-> MaxTokens,
               taken |-> MaxTaken, errors |-> MaxErrors]

Next ==
  \/ StoreReady
  \/ \E new \in Changes : Patch(new)
  \/ Reset
  \/ RegenerateToken
  \/ \E op \in ops : CallSettles(op)
  \/ ListenerFails
  \/ \E port \in Ports : OtherProgram(port)

Spec == Init /\ [][Next]_vars

-----------------------------------------------------------------------------
(* Properties *)

PollingType ==
  [made : BOOLEAN, started : BOOLEAN, paused : BOOLEAN, ms : Periods,
   armed : Periods \union {None}]

TypeOK ==
  /\ HostTypeOK
  /\ settings \in SettingsType
  /\ polling \in PollingType
  /\ polling.started => polling.made
  /\ polling.armed # None => polling.started
  /\ phase \in {"initializing", "starting", "up"}
  /\ behind \subseteq {"timers", "server"} /\ overlapped \in BOOLEAN

AtRest == phase = "up" /\ ops = {}

\* While monitoring runs, the timers tick at the period in the settings, and there
\* are none while it is paused, whichever control changed which of the two first.
\* Two cases are left out, in which the code does otherwise: after a reset, until one of
\* the two is changed again (handlers.ts:501), and a scheduler that was made paused,
\* which a resume does not start (polling.ts:53).
TimersFollowSettings ==
  polling.started /\ "timers" \notin behind =>
    polling.armed = IF settings.paused THEN None ELSE settings.ms

\* At rest the endpoint is what the settings say: off when disabled, and otherwise a
\* server on that port with that token, or an error and none; and as long as no two calls
\* have ever overlapped there is no other server.  Left out, because the code does
\* otherwise, are the times after a reset, after a token made while the endpoint is
\* disabled and after calls that overlapped, but only until the next call that runs
\* alone: that one brings the endpoint back to the settings.
ServerFollowsSettings ==
  AtRest =>
    /\ "server" \notin behind =>
         IF host.http = None THEN settings.enabled => host.error
         ELSE /\ settings.enabled /\ host.token = settings.token
              /\ \E s \in listening : s.id = host.http /\ s.port = settings.port
              /\ host.error => \E s \in listening : s.failed
    /\ ~overlapped => \A s \in listening : s.id = host.http
=============================================================================
