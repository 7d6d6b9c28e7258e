---------------------------- MODULE ConsoleSession ----------------------------
(***************************************************************************)
(* One interactive console, src/main/terminal/session.ts, with what it     *)
(* talks to: the shell with the prompt hook of rc.ts, the per-distro sync  *)
(* file, the user at the keyboard and the Explorer that asks the console   *)
(* to follow it.                                                           *)
(*                                                                         *)
(* The session never sees the shell, only the keys it forwards and the     *)
(* prompt markers that come back, both through queues.  A step is what the *)
(* main process runs between two awaits, or one move of the shell.         *)
(***************************************************************************)
EXTENDS Integers, FiniteSets, SequencesExt

CONSTANTS
  Paths,           \* directories the Explorer shows
  Home,            \* the shell's first directory
  None,            \* null
  Unusable,        \* the text of a sync file that names no directory
  Chars,           \* characters the user types; " " is the blank one
  Keys,            \* keys with an effect of their own that the user may press
  MarkerSupport,   \* values of PtyHandle.supportsMarkers
  MaxLine,         \* bound: length of the input line
  MaxKeys,         \* bound: keys pressed
  MaxNavigations,  \* bound: setCwd calls
  MaxWriteFaults,  \* bound: sync-file writes that fail
  MaxSudo,         \* bound: sudo prompts
  MaxMoves,        \* bound: commands that change the directory
  MaxEnds          \* bound: 1 where the shell may exit or the session be disposed, else 0

SpecialKeys == {"enter", "backspace", "interrupt", "recall"}

ASSUME PathAssumption ==
  /\ Home \notin Paths /\ {None, Unusable} \intersect (Paths \union {Home}) = {}
  /\ None # Unusable
  /\ None \notin [text : Paths \union {Unusable}, writers : SUBSET Nat]
ASSUME KeyAssumption == Keys \subseteq SpecialKeys /\ Chars \intersect (SpecialKeys \union {"sync"}) = {}
ASSUME MarkerAssumption == MarkerSupport \subseteq BOOLEAN
ASSUME LimitAssumption ==
  {MaxLine, MaxKeys, MaxNavigations, MaxWriteFaults, MaxSudo, MaxMoves, MaxEnds} \subseteq Nat

VARIABLES
  session,   \* the ConsoleSession object
  writes,    \* writeCwdSyncFile calls applyCwd awaits: [id, target, stage]
  input,     \* keys on their way to the shell
  output,    \* what the shell printed and the session has not parsed
  shell,     \* [phase, line, recalled, cwd, read]
  file,      \* the sync file, [text, writers], or None
  heard,     \* history: what became of the last request, see Heard
  budget     \* what is left of the bounds above

vars == <<session, writes, input, output, shell, file, heard, budget>>

Dead == {"disconnected", "distro-stopped"}
Live(s) == ~s.disposed /\ s.pty

Blank(line) == \A i \in 1..Len(line) : line[i] = " "
Erased(line) == IF line = <<>> THEN line ELSE Front(line)

-----------------------------------------------------------------------------
(* Keys *)

\* trackInput: editing and history keys ("recall") are not looked at.
TrackInput(s, key) ==
  CASE key = "enter" ->
         [s EXCEPT !.typed = <<>>,
                   !.status = IF @ = "waiting-sudo" \/
                                 (~Blank(s.typed) /\ @ \in {"ready", "path-sync-pending"})
                              THEN "running" ELSE @]
    [] key = "backspace" -> [s EXCEPT !.typed = Erased(@)]
    [] key = "interrupt" -> [s EXCEPT !.typed = <<>>]
    [] key = "recall" -> s
    [] OTHER -> [s EXCEPT !.typed = Append(@, key)]

\* write
Press(key) ==
  /\ budget.keys > 0 /\ Live(session)
  /\ key \in Chars => Len(session.typed) < MaxLine
  /\ session' = TrackInput(session, key)
  /\ input' = Append(input, key)
  /\ budget' = [budget EXCEPT !.keys = @ - 1]
  /\ UNCHANGED <<writes, output, shell, file, heard>>

-----------------------------------------------------------------------------
(* Directory syncs *)

FreshId(ws) == CHOOSE i \in 1..(Cardinality(ws) + 1) : \A w \in ws : w.id # i

\* applyCwd up to its await.
Apply(ws, path) == ws \union {[id |-> FreshId(ws), target |-> path, stage |-> "asked"]}

\* Mutated form: a request that cannot be applied at once is only displayed.
SetCwdShown(path) ==
  /\ budget.navigations > 0 /\ Live(session) /\ session.markers
  /\ session' = [session EXCEPT !.status = "path-sync-pending"]
  /\ writes' = IF session.status = "ready" /\ session.typed = <<>>
               THEN Apply(writes, path) ELSE writes
  /\ heard' = "no"
  /\ budget' = [budget EXCEPT !.navigations = @ - 1]
  /\ UNCHANGED <<input, output, shell, file>>

\* Without markers the request is dropped; at an empty ready prompt it is
\* applied at once; otherwise it waits for a marker, replacing what waited.
SetCwd(path) ==
  /\ budget.navigations > 0 /\ Live(session) /\ session.markers
  /\ IF session.status = "ready" /\ session.typed = <<>>
     THEN /\ session' = [session EXCEPT !.status = "path-sync-pending"]
          /\ writes' = Apply(writes, path)
     ELSE /\ session' = [session EXCEPT !.status = "path-sync-pending", !.pending = path]
          /\ UNCHANGED writes
  /\ heard' = "no"
  /\ budget' = [budget EXCEPT !.navigations = @ - 1]
  /\ UNCHANGED <<input, output, shell, file>>

Stage(w, stage) == (writes \ {w}) \union {[w EXCEPT !.stage = stage]}

\* The hidden runner's `printf %s path > file`, a process of its own: the redirection
\* empties the file that is there, or makes one, and the path is written to that file
\* even if it has been removed meanwhile.  Two paths written to one file may mix.
WriteOpens(w) ==
  /\ w.stage = "asked" /\ shell.phase # "gone"
  /\ file' = [text |-> Unusable,
              writers |-> {w.id} \union IF file = None THEN {} ELSE file.writers]
  /\ writes' = Stage(w, "open")
  /\ UNCHANGED <<session, input, output, shell, heard, budget>>

Mixes(text, path) == IF text = Unusable THEN {path} ELSE {path, Unusable}

WriteLands(w) ==
  /\ w.stage = "open"
  /\ IF file # None /\ w.id \in file.writers
     THEN \E text \in Mixes(file.text, w.target) :
            file' = [text |-> text, writers |-> file.writers \ {w.id}]
     ELSE UNCHANGED file
  /\ writes' = Stage(w, "done")
  /\ UNCHANGED <<session, input, output, shell, heard, budget>>

WriteFails(w) ==
  /\ w.stage \in {"asked", "open"}
  /\ budget.faults > 0 \/ shell.phase = "gone"
  /\ file' = IF file = None THEN None ELSE [file EXCEPT !.writers = @ \ {w.id}]
  /\ writes' = Stage(w, "failed")
  /\ budget' = [budget EXCEPT !.faults = IF @ > 0 THEN @ - 1 ELSE 0]
  /\ UNCHANGED <<session, input, output, shell, heard>>

\* Mutated forms: whatever the line holds, the sync goes out; what was deferred
\* is forgotten.
StagedRegardless(s, target) == [session |-> s, key |-> IF Live(s) THEN <<"sync">> ELSE <<>>]

\* applyCwd after its await: the session it leaves and the keys it sends.
Staged(s, target) ==
  IF ~Live(s) THEN [session |-> s, key |-> <<>>]
  ELSE IF s.typed # <<>> THEN [session |-> [s EXCEPT !.pending = target], key |-> <<>>]
  ELSE [session |-> s, key |-> <<"sync">>]

\* Mutated forms: the request is dropped without a word; or without looking at
\* what became of the session.
NotStagedSilently(s) == s

\* applyCwd's catch.
NotStaged(s) ==
  IF ~s.disposed /\ s.status = "path-sync-pending" THEN [s EXCEPT !.status = "ready"] ELSE s

ApplyReturns(w) ==
  /\ w.stage \in {"done", "failed"}
  /\ IF w.stage = "failed"
     THEN session' = NotStaged(session) /\ UNCHANGED input
     ELSE /\ session' = Staged(session, w.target).session
          /\ input' = input \o Staged(session, w.target).key
  /\ writes' = writes \ {w}
  /\ UNCHANGED <<output, shell, file, heard, budget>>

-----------------------------------------------------------------------------
(* Output: onData and onExit *)

\* Mutated form: only the first report is taken.
CwdOnce(s, path) == IF s.cwd = None THEN [s EXCEPT !.cwd = path] ELSE s

\* OSC 7.
Cwd(s, path) == [s EXCEPT !.cwd = path]

AtPrompt(s) ==
  LET seen == [s EXCEPT !.everReady = TRUE] IN
  IF s.pending # None /\ s.typed = <<>> THEN [seen EXCEPT !.pending = None]
  ELSE [seen EXCEPT !.status = IF s.pending # None THEN "path-sync-pending" ELSE "ready"]

\* OSC 7 then OSC 133;A; a sync that waited is applied now.
PromptMarker(path) ==
  /\ session' = AtPrompt(Cwd(session, path))
  /\ writes' = IF session.pending # None /\ session.typed = <<>>
               THEN Apply(writes, session.pending) ELSE writes

SudoPrompt ==
  /\ session' = [session EXCEPT !.status = IF @ = "running" THEN "waiting-sudo" ELSE @]
  /\ UNCHANGED writes

HandleExit ==
  /\ session' = IF session.disposed THEN session
                ELSE [session EXCEPT !.pty = FALSE,
                        !.status = IF session.everReady THEN "disconnected" ELSE "distro-stopped"]
  /\ UNCHANGED writes

Receive ==
  /\ output # <<>>
  /\ LET said == Head(output) IN
       \/ said.kind = "prompt" /\ PromptMarker(said.cwd)
       \/ said.kind = "sudo" /\ SudoPrompt
       \/ said.kind = "exit" /\ HandleExit
  /\ output' = Tail(output)
  /\ UNCHANGED <<input, shell, file, heard, budget>>

Dispose ==
  /\ budget.ends > 0 /\ ~session.disposed
  /\ session' = [session EXCEPT !.disposed = TRUE, !.pty = FALSE]
  /\ shell' = [shell EXCEPT !.phase = "gone"]
  /\ input' = <<>>
  /\ budget' = [budget EXCEPT !.ends = @ - 1]
  /\ UNCHANGED <<writes, output, file, heard>>

-----------------------------------------------------------------------------
(* The shell *)

Say(kind) == output' = Append(output, [kind |-> kind, cwd |-> shell'.cwd])

\* A line that is not blank runs; a blank one draws a fresh prompt.
Submit(sh) ==
  [sh EXCEPT !.line = <<>>, !.recalled = FALSE,
             !.phase = IF Blank(sh.line) THEN "hook" ELSE "running"]

Edit(sh, key) ==
  CASE key \in {"enter", "sync"} -> Submit(sh)
    [] key = "backspace" -> [sh EXCEPT !.line = Erased(@)]
    [] key = "interrupt" -> [sh EXCEPT !.line = <<>>, !.recalled = FALSE, !.phase = "hook"]
    [] key = "recall" -> [sh EXCEPT !.line = <<"x">>, !.recalled = TRUE]
    [] OTHER -> [sh EXCEPT !.line = Append(@, key)]

\* readline takes a key at the prompt.
ReadKey ==
  /\ shell.phase = "prompt" /\ input # <<>>
  /\ shell' = Edit(shell, Head(input))
  /\ input' = Tail(input)
  /\ UNCHANGED <<session, writes, output, file, heard, budget>>

\* The program running in the foreground takes it: Ctrl+C may end it, Enter
\* answers sudo, anything else is its input.
ProgramReads ==
  /\ shell.phase \in {"running", "sudo"} /\ input # <<>>
  /\ \E next \in {"hook", "running", "sudo"} :
       /\ next = "hook" => Head(input) = "interrupt"
       /\ next = "running" => shell.phase = "running" \/ Head(input) \in {"enter", "sync"}
       /\ next = "sudo" => shell.phase = "sudo" /\ Head(input) \notin {"enter", "sync"}
       /\ shell' = [shell EXCEPT !.phase = next]
  /\ input' = Tail(input)
  /\ UNCHANGED <<session, writes, output, file, heard, budget>>

\* A command ends, a `cd` of the user's in another directory.
CommandEnds ==
  /\ shell.phase = "running"
  /\ \E there \in Paths \union {Home} :
       /\ there # shell.cwd => budget.moves > 0
       /\ shell' = [shell EXCEPT !.phase = "hook", !.cwd = there]
       /\ budget' = [budget EXCEPT !.moves = IF there = shell.cwd THEN @ ELSE @ - 1]
  /\ UNCHANGED <<session, writes, input, output, file, heard>>

AskPassword ==
  /\ shell.phase = "running" /\ budget.sudo > 0
  /\ shell' = [shell EXCEPT !.phase = "sudo"]
  /\ Say("sudo")
  /\ budget' = [budget EXCEPT !.sudo = @ - 1]
  /\ UNCHANGED <<session, writes, input, file, heard>>

\* __wslpad_sync reads the file and removes it, two commands of the hook.
HookReads ==
  /\ shell.phase = "hook" /\ session.markers /\ file # None
  /\ shell' = [shell EXCEPT !.phase = "hooked", !.read = file.text]
  /\ UNCHANGED <<session, writes, input, output, file, heard, budget>>

\* The last request is not heard of, was tried, or its file was read half written.
Heard == {"no", "tried", "spoilt"}

\* rm, cd, and the two markers.  A target that is gone, or cannot be entered, leaves
\* the shell where it is.
HookPrompts ==
  /\ shell.phase = "hooked"
  /\ \E there \in {shell.cwd, shell.read} \ {Unusable} :
       shell' = [shell EXCEPT !.phase = "prompt", !.cwd = there, !.read = None]
  /\ file' = None
  /\ heard' = IF shell.read # Unusable THEN "tried" ELSE IF heard = "no" THEN "spoilt" ELSE heard
  /\ Say("prompt")
  /\ UNCHANGED <<session, writes, input, budget>>

\* No file: the markers at once.  Without the rc there is no hook at all.
Prompts ==
  /\ shell.phase = "hook" /\ (session.markers => file = None)
  /\ shell' = [shell EXCEPT !.phase = "prompt"]
  /\ IF session.markers THEN Say("prompt") ELSE UNCHANGED output
  /\ UNCHANGED <<session, writes, input, file, heard, budget>>

ShellExits ==
  /\ budget.ends > 0 /\ shell.phase # "gone"
  /\ shell' = [shell EXCEPT !.phase = "gone"]
  /\ Say("exit")
  /\ input' = <<>>
  /\ budget' = [budget EXCEPT !.ends = @ - 1]
  /\ UNCHANGED <<session, writes, file, heard>>

-----------------------------------------------------------------------------

\* start has returned: the pty runs, and without markers it is ready at once.
Started(markers) ==
  [pty |-> TRUE, markers |-> markers, status |-> IF markers THEN "running" ELSE "ready",
   cwd |-> None, pending |-> None, typed |-> <<>>, everReady |-> ~markers, disposed |-> FALSE]

Init ==
  /\ \E markers \in MarkerSupport : session = Started(markers)
  /\ writes = {} /\ input = <<>> /\ output = <<>> /\ file = None /\ heard = "tried"
  /\ shell = [phase |-> "hook", line |-> <<>>, recalled |-> FALSE, cwd |-> Home, read |-> None]
  /\ budget = [keys |-> MaxKeys, navigations |-> MaxNavigations, faults |-> MaxWriteFaults,
               sudo |-> MaxSudo, moves |-> MaxMoves, ends |-> MaxEnds]

ShellMoves == ReadKey \/ ProgramReads \/ HookReads \/ HookPrompts \/ Prompts

Next ==
  \/ \E key \in Keys \union Chars : Press(key)
  \/ \E path \in Paths : SetCwd(path)
  \/ \E w \in writes : WriteOpens(w)
  \/ \E w \in writes : WriteLands(w)
  \/ \E w \in writes : WriteFails(w)
  \/ \E w \in writes : ApplyReturns(w)
  \/ Receive
  \/ Dispose
  \/ ReadKey
  \/ ProgramReads
  \/ CommandEnds
  \/ AskPassword
  \/ HookReads
  \/ HookPrompts
  \/ Prompts
  \/ ShellExits

Spec == Init /\ [][Next]_vars

\* Writes settle (the runner kills them at its timeout), output is delivered,
\* and the shell reads and prompts.  The user owes nothing, and a program in the
\* foreground (a server, an editor) need not end.
Fairness ==
  /\ WF_vars(\E w \in writes : WriteOpens(w) \/ WriteLands(w) \/ WriteFails(w))
  /\ WF_vars(\E w \in writes : ApplyReturns(w))
  /\ WF_vars(Receive)
  /\ WF_vars(ShellMoves)

FairSpec == Spec /\ Fairness

-----------------------------------------------------------------------------
(* Properties *)

\* Everything has arrived and the shell waits for a key.
Idle ==
  /\ Live(session) /\ shell.phase = "prompt"
  /\ writes = {} /\ input = <<>> /\ output = <<>>

Consumes(key) == input # <<>> /\ Head(input) = key /\ input' = Tail(input) /\ shell'.phase # "gone"

\* A sync's Return comes "only at an idle, empty prompt" (ARCHITECTURE.md:126): no
\* program starts on it, but one that the user has brought back from the history with
\* keys the session does not look at (session.ts:24).  That line it does run.
RunsOnlyWhatWasSubmitted ==
  [][shell.phase = "prompt" /\ shell'.phase = "running" =>
       Consumes("enter") \/ shell.recalled]_vars

\* At rest the directory shown is the shell's, in every order of syncs, prompts
\* and output.
ShowsWhereItIs == Idle /\ session.markers => session.cwd = shell.cwd

AllStaged == budget.faults = MaxWriteFaults

\* No request is forgotten, however typing, commands and other requests deferred it:
\* at rest, with no sync waiting and none that failed, the hook has tried a directory
\* asked for since the last request.  Not necessarily the last one (session.ts:198), and
\* not if it read the file while it was being written.
Follows ==
  Idle /\ session.pending = None /\ AllStaged => heard # "no"

\* "path-sync-pending" ends: with the user at rest it stands only for a sync that really
\* waits for the next prompt, or while a program is in the foreground.
SyncStatusEnds ==
  <>[](Live(session) /\ session.status = "path-sync-pending" =>
         session.pending # None \/ shell.phase \in {"running", "sudo"})
=============================================================================
