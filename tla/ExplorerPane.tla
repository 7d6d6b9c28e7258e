----------------------------- MODULE ExplorerPane -----------------------------
(***************************************************************************)
(* One pane of the Explorer, src/renderer/src/explorer/usePane.ts: its     *)
(* directory and listing, history, search, and the panel with the measured *)
(* sizes of the directory.                                                 *)
(*                                                                         *)
(* Every listing, search and measurement is a call to the main process,    *)
(* and calls answer in any order.  A call carries a path and no distro:    *)
(* main reads the distro selected when it handles the call (ipc/handlers), *)
(* while the pane learns of a switch from a later snapshot.                *)
(***************************************************************************)
EXTENDS Naturals, FiniteSets, SequencesExt

CONSTANTS
  Distros,
  Paths,       \* directories, of the same names in every distro
  Home,        \* the home directory, where a pane starts
  Exists,      \* [Distros -> SUBSET Paths]: those that can be listed
  Starts,      \* startPath: the home directory or the last path of the settings
  None,        \* null
  Budgets      \* bounds: sets of records, how often each thing is asked for

PaneRequests == {"navigate", "history", "refresh", "hidden", "measure", "cancel", "search", "switch"}
ASSUME PathAssumption ==
  Home \in Paths /\ Starts \subseteq Paths /\ None \notin Paths \union Distros \union Nat
ASSUME ExistsAssumption == \A d \in Distros : Home \in Exists[d]
ASSUME PaneBudgetAssumption == Budgets \subseteq [PaneRequests -> Nat]

VARIABLES
  selected,  \* the distro selected in the main process
  notices,   \* snapshots with a switch the pane has not seen
  pane,      \* the hook's state and refs
  calls,     \* calls without an answer yet
  age,       \* history: how often each directory was refreshed since the reset
  repaired,  \* history: how the last refresh of a pane with no other call ended
  budget     \* what is left of the bounds

paneVars == <<selected, notices, pane, calls, age, repaired, budget>>

\* The sizes panel: what it says, of which directory, from which measurement.
Closed == [status |-> "closed", path |-> None, of |-> None]
Fresh(d) ==
  [key |-> d, path |-> None, shown |-> None, back |-> <<>>, forward |-> <<>>,
   hidden |-> FALSE, error |-> FALSE, found |-> None, token |-> None, sizes |-> Closed,
   cache |-> [p \in Paths |-> None]]

Spend(what) == budget[what] > 0 /\ budget' = [budget EXCEPT ![what] = @ - 1]

\* The token of a measurement; here every call has one, unused by the others.
Id == CHOOSE i \in 0..Cardinality(calls) : \A c \in calls : c.id # i
\* A call as main handles it, now, in the distro selected now.
Call(kind, p) ==
  [id |-> Id, kind |-> kind, path |-> p, replace |-> kind \in {"start", "fallback", "history"},
   distro |-> selected, behind |-> notices # <<>>, age |-> age[p], hidden |-> pane.hidden]
\* A call may fail although the directory is there: it cannot be read just now,
\* the distro does not answer in time.
Ends(c) == IF c.path \in Exists[c.distro] THEN BOOLEAN ELSE {FALSE}
Issue(kind, p) == calls' = calls \union {Call(kind, p)}

-----------------------------------------------------------------------------
(* Navigation *)

Navigate(p) ==
  /\ pane.key # None /\ Spend("navigate")
  /\ Issue("navigate", p)
  /\ repaired' = "no"
  /\ UNCHANGED <<selected, notices, pane, age>>

\* goBack moves the entry between the stacks before it navigates; goForward alike.
Shift(from, to) ==
  LET target == Last(pane[from])
  IN /\ pane[from] # <<>>
     /\ pane' = [pane EXCEPT ![from] = Front(@),
                             ![to] = IF pane.path = None THEN @ ELSE Append(@, pane.path)]
     /\ Issue("history", target)

GoBackOrForward ==
  /\ Spend("history")
  /\ Shift("back", "forward") \/ Shift("forward", "back")
  /\ repaired' = "no"
  /\ UNCHANGED <<selected, notices, age>>

\* A directory that could be listed becomes the current one, whatever was asked
\* for since.  The sizes panel closes with it.
Arrived(p, c) ==
  LET moved == ~c.replace /\ p.path # None /\ p.path # c.path
  IN [p EXCEPT !.path = c.path, !.shown = [distro |-> c.distro, path |-> c.path, hidden |-> c.hidden],
               !.back = IF moved THEN Append(@, p.path) ELSE @,
               !.forward = IF moved THEN <<>> ELSE @,
               !.error = FALSE, !.found = None, !.token = None, !.sizes = Closed]

\* A navigation that failed changes nothing but a toast.
NavigateAnswered(c, ok) ==
  /\ c.kind \in {"navigate", "history", "start", "fallback"}
  /\ pane' = IF ok THEN Arrived(pane, c) ELSE pane
  /\ calls' = IF c.kind = "start" /\ ~ok /\ pane.path = None /\ c.path # Home
              THEN (calls \ {c}) \union {[Call("fallback", Home) EXCEPT !.id = c.id]}
              ELSE calls \ {c}
  /\ UNCHANGED <<selected, notices, age, repaired, budget>>

-----------------------------------------------------------------------------
(* The same directory again *)

\* "Drop them rather than leave stale numbers on screen."
ForgetSizes(p) == [p EXCEPT !.cache[p.path] = None, !.token = None, !.sizes = Closed]

\* By the user, after an operation of the pane, or when a batch reports its end.
RefreshDir ==
  /\ pane.path # None /\ Spend("refresh")
  /\ pane' = ForgetSizes(pane)
  /\ Issue("refresh", pane.path)
  /\ age' = [age EXCEPT ![pane.path] = @ + 1]
  /\ repaired' = IF calls = {} /\ notices = <<>> THEN "asked" ELSE "no"
  /\ UNCHANGED <<selected, notices>>

ToggleHidden ==
  /\ pane.key # None /\ Spend("hidden")
  /\ pane' = [pane EXCEPT !.hidden = ~@]
  /\ IF pane.path = None THEN UNCHANGED calls
     ELSE calls' = calls \union {[Call("toggle", pane.path) EXCEPT !.hidden = ~pane.hidden]}
  /\ repaired' = "no"
  /\ UNCHANGED <<selected, notices, age>>

\* (mutated form: a failed call leaves the entries it found, and says nothing)
MutantRelisted(p, c, ok) ==
  IF ok THEN [p EXCEPT !.shown = [distro |-> c.distro, path |-> c.path, hidden |-> c.hidden],
                       !.error = FALSE]
        ELSE p
\* The entries are replaced, whatever the current directory is by now; after a
\* failure the error stands in their place.
Relisted(p, c, ok) ==
  IF ok THEN [p EXCEPT !.shown = [distro |-> c.distro, path |-> c.path, hidden |-> c.hidden],
                       !.error = FALSE]
        ELSE [p EXCEPT !.error = TRUE]

Reanswered(c, ok) ==
  /\ c.kind \in {"refresh", "toggle"}
  /\ pane' = Relisted(pane, c, ok)
  /\ calls' = calls \ {c}
  /\ repaired' = IF repaired = "asked" THEN (IF ok THEN "listed" ELSE "failed") ELSE repaired
  /\ UNCHANGED <<selected, notices, age, budget>>

\* Results of a search, of whichever directory, are shown in place of the entries
\* until the next navigation, or until they are dismissed.
RunSearch ==
  /\ pane.path # None /\ Spend("search")
  /\ Issue("search", pane.path)
  /\ UNCHANGED <<selected, notices, pane, age, repaired>>

ClearSearch ==
  /\ pane.found # None
  /\ pane' = [pane EXCEPT !.found = None]
  /\ UNCHANGED <<selected, notices, calls, age, repaired, budget>>

SearchAnswered(c, ok) ==
  /\ c.kind = "search"
  /\ pane' = IF ok THEN [pane EXCEPT !.found = c.path] ELSE pane
  /\ calls' = calls \ {c}
  /\ UNCHANGED <<selected, notices, age, repaired, budget>>

-----------------------------------------------------------------------------
(* The sizes panel *)

MeasureDirSizes ==
  /\ pane.path # None /\ Spend("measure")
  /\ IF pane.cache[pane.path] # None
     THEN /\ pane' = [pane EXCEPT !.token = None,
               !.sizes = [status |-> "ready", path |-> pane.path, of |-> pane.cache[pane.path]]]
          /\ UNCHANGED calls
     ELSE /\ pane' = [pane EXCEPT !.token = Id,
               !.sizes = [status |-> "running", path |-> pane.path, of |-> None]]
          /\ Issue("measure", pane.path)
  /\ UNCHANGED <<selected, notices, age, repaired>>

\* Cancelling stops waiting at once; main answers when the du has ended.
CancelDirSizes ==
  /\ pane.token # None /\ Spend("cancel")
  /\ pane' = [pane EXCEPT !.token = None, !.sizes = Closed]
  /\ UNCHANGED <<selected, notices, calls, age, repaired>>

\* A newer request, a cancel or a navigation replaced the run.  Tokens are never
\* used twice, call ids are: one that is in use is not given away.
Wanted(p, c) == p.token = c.id

\* A measurement that ran out of time is shown as far as it got, and not kept.
Measured(c, ok) ==
  LET result == [distro |-> c.distro, path |-> c.path, age |-> c.age, behind |-> c.behind]
      Shown(status, of) == [status |-> status, path |-> c.path, of |-> of]
  IN /\ c.kind = "measure"
     /\ \/ ~Wanted(pane, c) /\ UNCHANGED pane
        \/ /\ Wanted(pane, c) /\ ok
           /\ \E whole \in BOOLEAN :
                pane' = [pane EXCEPT !.token = None, !.sizes = Shown("ready", result),
                                     !.cache[c.path] = IF whole THEN result ELSE @]
        \/ /\ Wanted(pane, c) /\ ~ok
           /\ pane' = [pane EXCEPT !.token = None, !.sizes = Shown("error", None)]
     /\ calls' = calls \ {c}
     /\ UNCHANGED <<selected, notices, age, repaired, budget>>

-----------------------------------------------------------------------------
(* Switching distros *)

\* setDistro in the main process; the snapshot that says so is on its way.
SelectDistro(d) ==
  /\ d # selected /\ Spend("switch")
  /\ selected' = d
  /\ notices' = Append(notices, d)
  /\ repaired' = "no"
  /\ UNCHANGED <<pane, calls, age>>

\* (mutated form: the pane of the new distro keeps the measurements)
MutantReset(p, d) ==
  [Fresh(d) EXCEPT !.shown = p.shown, !.error = p.error, !.found = p.found, !.cache = p.cache]
\* The effect on resetKey: everything of the other distro goes, but not the
\* entries, results or error on screen, which wait for the first listing.
Reset(p, d) == [Fresh(d) EXCEPT !.shown = p.shown, !.error = p.error, !.found = p.found]

\* The first navigation, which falls back on the home directory.
StartKind == "start"

Notice ==
  /\ notices # <<>>
  /\ notices' = Tail(notices)
  /\ IF Head(notices) = pane.key THEN UNCHANGED <<pane, calls>>
     ELSE /\ pane' = Reset(pane, Head(notices))
          /\ \E start \in Starts :
               calls' = calls \union {[Call(StartKind, start) EXCEPT !.hidden = FALSE]}
  /\ repaired' = "no"
  /\ UNCHANGED <<selected, age, budget>>

-----------------------------------------------------------------------------

PaneInit ==
  /\ selected \in Distros
  /\ notices = <<selected>>
  /\ pane = Fresh(None)
  /\ calls = {}
  /\ age = [p \in Paths |-> 0]
  /\ repaired = "no"
  /\ budget \in Budgets

Answer(c) ==
  \E ok \in Ends(c) :
    NavigateAnswered(c, ok) \/ Reanswered(c, ok) \/ SearchAnswered(c, ok) \/ Measured(c, ok)

PaneNext ==
  \/ \E p \in Paths : Navigate(p)
  \/ GoBackOrForward \/ RefreshDir \/ ToggleHidden \/ RunSearch \/ ClearSearch
  \/ MeasureDirSizes \/ CancelDirSizes
  \/ \E d \in Distros : SelectDistro(d)
  \/ Notice
  \/ \E c \in calls : Answer(c)

\* Every command behind a call has a time limit, and snapshots arrive.
PaneSpec == PaneInit /\ [][PaneNext]_paneVars

-----------------------------------------------------------------------------
(* Properties *)

\* Numbers on screen or kept for a second look were measured in this pane's distro
\* - unless main had moved on and the pane did not know - after the directory was
\* last refreshed, and those on screen are the shown directory's ("rather than
\* showing the previous folder's numbers under a new heading").
Current(result, p) ==
  result.path = p /\ result.age = age[p] /\ (result.distro = pane.key \/ result.behind)
SizesAreCurrent ==
  /\ \A p \in Paths : pane.cache[p] # None => Current(pane.cache[p], p)
  /\ pane.sizes.status # "closed" => pane.sizes.path = pane.path
  /\ pane.sizes.status = "ready" => Current(pane.sizes.of, pane.path)

\* Whatever races and failures went before, one refresh with nothing else under way
\* repairs the pane until the next listing or switch: once it is answered, the
\* entries are those of the current directory in the selected distro, with the
\* hidden files as chosen, and no error stands in front of them; if it failed, the
\* error does.  Two things it does not repair, and they are not judged here: results
\* of a search stay in front of the entries, though they be of a directory or a
\* distro left since, and the history keeps what answers out of order pushed onto it.
RefreshRepairs ==
  /\ repaired = "listed" =>
       ~pane.error /\ pane.shown = [distro |-> selected, path |-> pane.path, hidden |-> pane.hidden]
  /\ repaired = "failed" => pane.error
=============================================================================
