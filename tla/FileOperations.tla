---------------------------- MODULE FileOperations ----------------------------
(***************************************************************************)
(* The explorer's file operations: batches of copies, moves, imports and   *)
(* exports (src/main/explorer/operations.ts, transfer.ts, backend.ts), the *)
(* Windows pane's (windows.ts), the trash (trash.ts), permanent deletion,  *)
(* and the editor's save (editor.ts).                                      *)
(*                                                                         *)
(* Several run at once on the same files, and each command of a script is  *)
(* a step of its own: the look at a destination, the mv or cp, the removal *)
(* of the source after a copy to another volume, the rm of a trash record. *)
(* Scripts have a time limit: one that is given up has been stopped, or    *)
(* goes on with nobody waiting for it.                                     *)
(***************************************************************************)
EXTENDS Naturals, Sequences, FiniteSets

CONSTANTS
  Names,       \* base names
  Dirs,        \* directories, also the Windows ones
  Volume,      \* the volume of each directory
  TrashVolume, \* that of the trash, in the user's home
  Contents,    \* what files hold
  Absent,      \* no file, or no record
  Partial,     \* the beginning of a content
  Ops,         \* bound: the operations asked for and the scripts that go on
  MaxCopies,   \* bound: name, name.2, ... in the trash
  Scenarios    \* bounds: sets of [requests, files, faults, cancels]

Places == Dirs \X Names
TrashNames == Names \X (1..MaxCopies)
Spots == Places \union TrashNames

Batches == {"copy", "move", "import", "export"}
WindowsBatches == {"winCopy", "winMove"}
Cancellable == Batches \union WindowsBatches

ASSUME NamesAssumption ==
  /\ Absent \notin Contents /\ Partial \notin Contents /\ Absent # Partial
  /\ Absent \notin Places
  /\ Dirs \cap Names = {}
ASSUME CopiesAssumption == MaxCopies \in Nat \ {0}

\* What a request may say: the IPC schemas refuse a batch without items.
Moves == [from : Places, to : Places, content : Contents \union {Absent}]
Requests ==
  [kind : Cancellable \union {"trash", "remove", "rename", "create", "save"},
   items : Seq(Moves) \ {<<>>}]
    \union [kind : {"restore"}, items : Seq(TrashNames) \ {<<>>}]
ASSUME ScenariosAssumption ==
  \A s \in Scenarios :
    s \in [requests : Seq(Requests), files : [Places -> Contents \union {Absent}],
          faults : Nat, cancels : Nat]

VARIABLES
  files,     \* [Spots -> Contents, Partial or Absent]: directories, and files/ of the trash
  info,      \* [TrashNames -> the place the record names, or Absent]
  op,        \* [Ops -> an operation]
  scenario,  \* what may still be asked for, and the bounds left
  given,     \* history: contents the user had deleted or replaced
  raced,     \* history: contents destroyed between a check and its use
  stale,     \* history: the operations whose copied source was written to since
  contested, \* history: trash names that two operations had in hand at once
  cameFrom   \* history: the place the file under each trash name was moved from

vars == <<files, info, op, scenario, given, raced, stale, contested, cameFrom>>

Idle == [kind |-> "none", items |-> <<>>, pc |-> "idle", i |-> 0, failed |-> FALSE,
         cancelled |-> FALSE, status |-> "none", names |-> <<>>, records |-> <<>>,
         found |-> Absent, applied |-> {}, warned |-> {}]

Item(o) == op[o].items[op[o].i]

\* Where the item in hand is taken from and put.
From(o) == IF op[o].kind = "restore" THEN Item(o) ELSE Item(o).from
To(o) == CASE op[o].kind = "trash" -> op[o].names[op[o].i]
           [] op[o].kind = "restore" -> op[o].records[Item(o)]
           [] OTHER -> Item(o).to

Moving(o) == op[o].kind \in {"move", "winMove", "rename", "trash", "restore"}
VolumeOf(s) == IF s \in Places THEN Volume[s[1]] ELSE TrashVolume
Renames(o) == Moving(o) /\ VolumeOf(From(o)) = VolumeOf(To(o))

Fault == scenario.faults > 0 /\ scenario' = [scenario EXCEPT !.faults = @ - 1]
NoFault == UNCHANGED scenario

-----------------------------------------------------------------------------
(* The course of an operation *)

\* (mutated form: a cancel is not looked at)
MutantProceed(b) ==
  IF b.i > Len(b.items) THEN [b EXCEPT !.pc = "ended", !.status = IF b.failed THEN "error" ELSE "done"]
  ELSE [b EXCEPT !.pc = "item"]
\* The head of a batch's loop: the end after the last item, else a look at the
\* cancel flag, else the next item.
Proceed(b) ==
  CASE b.i > Len(b.items) ->
         [b EXCEPT !.pc = "ended", !.status = IF b.failed THEN "error" ELSE "done"]
    [] b.i <= Len(b.items) /\ b.cancelled -> [b EXCEPT !.pc = "ended", !.status = "cancelled"]
    [] OTHER -> [b EXCEPT !.pc = "item"]

\* (mutated form: the status is that of the last item)
MutantItemEnded(b, ok) ==
  [b EXCEPT !.i = @ + 1, !.failed = ~ok, !.applied = IF ok THEN @ \union {b.i} ELSE @]
\* An item of a batch that fails is noted, and the others still run.
ItemEnded(b, ok) ==
  [b EXCEPT !.i = @ + 1, !.failed = @ \/ ~ok, !.applied = IF ok THEN @ \union {b.i} ELSE @]

Applied(b) == [b EXCEPT !.applied = @ \union {b.i}]
\* Every other operation is a promise; the end of a script nobody waits for is no news.
Finish(b, ok) == [b EXCEPT !.pc = "ended", !.status = IF ok /\ ~b.failed THEN "done" ELSE "error"]
\* The next item at pc, or the end.
OnTo(b, pc) == IF b.i = Len(b.items) THEN Finish(b, TRUE) ELSE [b EXCEPT !.i = @ + 1, !.pc = pc]

\* What follows the item in hand.  A trash batch goes on after a failure, whose record
\* it removes; the others that are no batches end there.  A restore's last command
\* removes the record.
ItemDone(b, ok) ==
  CASE b.kind \in Cancellable -> Proceed(ItemEnded(b, ok))
    [] b.kind = "trash" -> IF ok THEN OnTo(Applied(b), "info")
                           ELSE [b EXCEPT !.pc = "unrecord", !.failed = TRUE]
    [] b.kind = "restore" -> IF ok THEN [b EXCEPT !.pc = "unrecord"] ELSE Finish(b, FALSE)
    [] OTHER -> IF ok THEN OnTo(Applied(b), "item") ELSE Finish(b, FALSE)

Start(o) ==
  LET r == scenario.requests[o]
      b == [Idle EXCEPT !.kind = r.kind, !.items = r.items, !.i = 1]
  IN /\ o \in DOMAIN scenario.requests
     /\ op[o].kind = "none"
     /\ op' = [op EXCEPT ![o] =
          IF r.kind \in {"trash", "restore"} THEN [b EXCEPT !.pc = "list"] ELSE Proceed(b)]
     /\ UNCHANGED <<files, info, scenario, given, raced, stale, contested, cameFrom>>

\* cancelOp: only the flag; the item in flight runs to its end.
CancelOp(o) ==
  /\ o \in DOMAIN scenario.requests
  /\ op[o].kind \in Cancellable
  /\ op[o].pc \notin {"idle", "ended"} /\ ~op[o].cancelled
  /\ scenario.cancels > 0
  /\ scenario' = [scenario EXCEPT !.cancels = @ - 1]
  /\ op' = [op EXCEPT ![o].cancelled = TRUE]
  /\ UNCHANGED <<files, info, given, raced, stale, contested, cameFrom>>

\* The time limit of a script: a batch reports the item failed and takes the next, the
\* others report the error.
GivenUp(b) == IF b.kind \in Batches THEN Proceed(ItemEnded(b, FALSE)) ELSE Finish(b, FALSE)

\* The script was stopped where it stood ...
Stopped(o) ==
  /\ op[o].pc \notin {"idle", "ended"} /\ op[o].kind \notin WindowsBatches
  /\ Fault
  /\ op' = [op EXCEPT ![o] = GivenUp(@)]
  /\ stale' = stale \ {o}
  /\ UNCHANGED <<files, info, given, raced, contested, cameFrom>>

\* ... or goes on: a trash script with all its items, any other with the one in hand.
Orphan(b) ==
  IF b.kind = "trash" THEN [b EXCEPT !.failed = TRUE]
  ELSE [b EXCEPT !.failed = TRUE, !.cancelled = FALSE, !.items = <<b.items[b.i]>>, !.i = 1,
                 !.applied = {}, !.warned = {}]
GoesOn(o, q) ==
  /\ op[o].pc \notin {"idle", "list", "ended"} /\ op[o].kind \notin WindowsBatches
  /\ q \notin DOMAIN scenario.requests /\ op[q].kind = "none"
  /\ Fault
  /\ op' = [op EXCEPT ![o] = GivenUp(@), ![q] = Orphan(op[o])]
  /\ stale' = IF o \in stale THEN (stale \ {o}) \union {q} ELSE stale
  /\ UNCHANGED <<files, info, given, raced, contested, cameFrom>>

-----------------------------------------------------------------------------
(* One item: the look, and what is done *)

\* (mutated form: what is at the destination is not looked at)
MutantClear(o) ==
  op[o].kind = "restore" => op[o].records[Item(o)] # Absent /\ files[From(o)] # Absent
\* A name without a record, a trashed file that is gone and a destination that is
\* taken end the item.
Clear(o) ==
  /\ op[o].kind = "restore" => op[o].records[Item(o)] # Absent /\ files[From(o)] # Absent
  /\ files[To(o)] = Absent

\* existsGuard, the first lines of a restore's script, exists() of the Windows pane.
Look(o) ==
  /\ op[o].pc = "item" /\ op[o].kind \notin {"remove", "save"}
  /\ op' = [op EXCEPT ![o] = IF Clear(o) THEN [@ EXCEPT !.pc = "act", !.found = files[To(o)]]
                                         ELSE ItemDone(@, FALSE)]
  /\ UNCHANGED <<files, info, scenario, given, raced, stale, contested, cameFrom>>

\* A file that appeared since the look, or under a name two operations chose.
InRace(o) == IF op[o].kind = "trash" THEN To(o) \in contested ELSE op[o].found = Absent

\* What is written to a place an operation has copied and not yet removed.
Copiers(s) == {q \in Ops : op[q].pc = "copied" /\ From(q) = s}
Touched(s) == stale' = stale \union Copiers(s)

\* Whatever is at the destination by now is replaced.
Replaced(o) ==
  /\ raced' = IF InRace(o) THEN raced \union {files[To(o)]} ELSE raced
  /\ Touched(To(o))
Arrives(o) ==
  cameFrom' = IF op[o].kind = "trash" THEN [cameFrom EXCEPT ![To(o)] = From(o)] ELSE cameFrom

\* mv and rename() within a volume.
RenameItem(o) ==
  /\ op[o].pc = "act" /\ Renames(o)
  /\ \/ /\ NoFault
        /\ files[From(o)] # Absent /\ From(o) # To(o)
        /\ files' = [files EXCEPT ![To(o)] = files[From(o)], ![From(o)] = Absent]
        /\ op' = [op EXCEPT ![o] = ItemDone(@, TRUE)]
        /\ Replaced(o) /\ Arrives(o)
     \/ /\ IF files[From(o)] = Absent \/ From(o) = To(o) THEN NoFault ELSE Fault
        /\ op' = [op EXCEPT ![o] = ItemDone(@, FALSE)]
        /\ UNCHANGED <<files, raced, stale, cameFrom>>
  /\ UNCHANGED <<info, given, contested>>

\* cp, and the first half of a move to another volume.  The Windows pane's cp() looks
\* at the destination once more, before it copies.
Copies(o) == op[o].pc = "act" /\ op[o].kind # "create" /\ ~Renames(o)
Copyable(o) == files[From(o)] # Absent /\ From(o) # To(o)

CopyItem(o) ==
  /\ Copies(o) /\ Copyable(o)
  /\ NoFault
  /\ files' = [files EXCEPT ![To(o)] = files[From(o)]]
  /\ op' = [op EXCEPT ![o] = IF Moving(o) THEN [@ EXCEPT !.pc = "copied"] ELSE ItemDone(@, TRUE)]
  /\ Replaced(o) /\ Arrives(o)
  /\ UNCHANGED <<info, given, contested>>

\* A copy that fails has done nothing, half of it, or all.
CopyFails(o) ==
  /\ Copies(o)
  /\ op' = [op EXCEPT ![o] = ItemDone(@, FALSE)]
  /\ \/ /\ \/ ~Copyable(o) /\ NoFault
           \/ op[o].kind \in WindowsBatches /\ files[To(o)] # Absent /\ NoFault
           \/ Fault
        /\ UNCHANGED <<files, raced, stale, cameFrom>>
     \/ /\ Copyable(o) /\ Fault
        /\ \E c \in {Partial, files[From(o)]} : files' = [files EXCEPT ![To(o)] = c]
        /\ Replaced(o) /\ Arrives(o)
  /\ UNCHANGED <<info, given, contested>>

\* runExport takes an exit code with nothing but "preserving ..." or "Operation not
\* permitted" on stderr for success; cp says that of a link it cannot create, too.
ExportWarned(o) ==
  /\ Copies(o) /\ op[o].kind = "export" /\ Copyable(o) /\ Fault
  /\ op' = [op EXCEPT ![o] =
       Proceed([ItemEnded(op[o], TRUE) EXCEPT !.applied = op[o].applied,
                                              !.warned = op[o].warned \union {op[o].i}])]
  /\ \/ UNCHANGED <<files, raced, stale>>
     \/ files' = [files EXCEPT ![To(o)] = files[From(o)]] /\ Replaced(o)
  /\ UNCHANGED <<info, given, contested, cameFrom>>

\* The second half of a move to another volume.  mv fails if the source is gone, the
\* Windows pane's rm() with force does not.
RemoveSource(o) ==
  /\ op[o].pc = "copied"
  /\ \/ /\ NoFault
        /\ files[From(o)] # Absent \/ op[o].kind = "winMove"
        /\ files' = [files EXCEPT ![From(o)] = Absent]
        /\ raced' = IF o \in stale THEN raced \union {files[From(o)]} ELSE raced
        /\ op' = [op EXCEPT ![o] = ItemDone(@, TRUE)]
     \/ /\ IF files[From(o)] = Absent /\ op[o].kind # "winMove" THEN NoFault ELSE Fault
        /\ op' = [op EXCEPT ![o] = ItemDone(@, FALSE)]
        /\ UNCHANGED <<files, raced>>
  /\ stale' = stale \ {o}
  /\ UNCHANGED <<info, given, contested, cameFrom>>

\* createEmptyFile truncates what came since the look.
CreateFile(o) ==
  /\ op[o].pc = "act" /\ op[o].kind = "create"
  /\ \/ /\ NoFault
        /\ files' = [files EXCEPT ![To(o)] = Item(o).content]
        /\ op' = [op EXCEPT ![o] = ItemDone(@, TRUE)]
        /\ Replaced(o)
     \/ /\ Fault
        /\ op' = [op EXCEPT ![o] = ItemDone(@, FALSE)]
        /\ UNCHANGED <<files, raced, stale>>
  /\ UNCHANGED <<info, given, contested, cameFrom>>

\* removeEntries, after the user confirmed: the first failure ends it.
RemoveItem(o) ==
  /\ op[o].kind = "remove" /\ op[o].pc = "item"
  /\ \/ /\ NoFault
        /\ files' = [files EXCEPT ![From(o)] = Absent]
        /\ given' = given \union {files[From(o)]}
        /\ op' = [op EXCEPT ![o] = ItemDone(@, TRUE)]
     \/ /\ Fault
        /\ op' = [op EXCEPT ![o] = ItemDone(@, FALSE)]
        /\ UNCHANGED <<files, given>>
  /\ UNCHANGED <<info, raced, stale, contested, cameFrom>>

\* writeTextFile writes a file of its own and swaps it in, whatever is there.
SaveFile(o) ==
  /\ op[o].kind = "save" /\ op[o].pc = "item"
  /\ \/ /\ NoFault
        /\ files' = [files EXCEPT ![To(o)] = Item(o).content]
        /\ given' = given \union {files[To(o)]}
        /\ op' = [op EXCEPT ![o] = ItemDone(@, TRUE)]
        /\ Touched(To(o))
     \/ /\ Fault
        /\ op' = [op EXCEPT ![o] = ItemDone(@, FALSE)]
        /\ UNCHANGED <<files, given, stale>>
  /\ UNCHANGED <<info, raced, contested, cameFrom>>

-----------------------------------------------------------------------------
(* The trash *)

\* Names in use: those of trashed files and those of records.
Taken == {t \in TrashNames : files[t] # Absent \/ info[t] # Absent}

\* resolveTrashCollision: name, else the first of name.2, name.3, ... not used.
Least(S) == CHOOSE k \in S : \A j \in S : k <= j
FreeName(name, used) == <<name, Least({k \in 1..MaxCopies : <<name, k>> \notin used})>>

\* (mutated form: the items of one batch do not see each other's names)
MutantBatchNames(items, used) == [i \in DOMAIN items |-> FreeName(items[i].from[2], used)]
\* The names of a whole batch, each taken by the items after it.
BatchNames(items, used) ==
  LET picked[i \in 0..Len(items)] ==
        IF i = 0 THEN <<>>
        ELSE Append(picked[i - 1],
               FreeName(items[i].from[2], used \union {picked[i - 1][j] : j \in 1..(i - 1)}))
  IN picked[Len(items)]

\* Bound: under each of its names, the trash has room for the whole batch.
Room(items) ==
  \A i \in DOMAIN items :
    Cardinality({k \in 1..MaxCopies : <<items[i].from[2], k>> \notin Taken}) >= Len(items)

\* The trash names an operation has still to use, or whose record it is to remove.
InHand(o) ==
  CASE op[o].kind = "trash" /\ op[o].pc \in {"info", "act", "copied", "unrecord"} ->
         {op[o].names[j] : j \in op[o].i..Len(op[o].items)}
    [] op[o].kind = "restore" /\ op[o].pc = "unrecord" -> {Item(o)}
    [] OTHER -> {}

\* trashEntries lists the trash, then chooses, then starts the batch script.
ListForTrash(o) ==
  LET names == BatchNames(op[o].items, Taken)
  IN /\ op[o].kind = "trash" /\ op[o].pc = "list"
     /\ Room(op[o].items)
     /\ op' = [op EXCEPT ![o].pc = "info", ![o].names = names]
     /\ contested' = contested \union
          {t \in TrashNames : (\E j \in DOMAIN names : names[j] = t) /\ \E q \in Ops : t \in InHand(q)}
     /\ UNCHANGED <<files, info, scenario, given, raced, stale, cameFrom>>

\* The script writes an item's record before it moves the file.
WriteInfo(o) ==
  /\ op[o].kind = "trash" /\ op[o].pc = "info"
  /\ info' = [info EXCEPT ![To(o)] = From(o)]
  /\ op' = [op EXCEPT ![o].pc = "act"]
  /\ UNCHANGED <<files, scenario, given, raced, stale, contested, cameFrom>>

\* restoreFromTrash reads all the records once, before its first item.
ListForRestore(o) ==
  /\ op[o].kind = "restore" /\ op[o].pc = "list"
  /\ op' = [op EXCEPT ![o].pc = "item", ![o].records = info]
  /\ UNCHANGED <<files, info, scenario, given, raced, stale, contested, cameFrom>>

\* The rm of a record: of a file that would not move to the trash, and then what a
\* failed mv has left of it there has none, or of a file put back.
RemoveInfo(o) ==
  LET name == IF op[o].kind = "trash" THEN To(o) ELSE Item(o)
  IN /\ op[o].pc = "unrecord"
     /\ info' = [info EXCEPT ![name] = Absent]
     /\ cameFrom' = IF op[o].kind = "trash" /\ cameFrom[name] = From(o)
                    THEN [cameFrom EXCEPT ![name] = Absent] ELSE cameFrom
     /\ op' = [op EXCEPT ![o] = IF @.kind = "trash" THEN OnTo(@, "info") ELSE OnTo(Applied(@), "item")]
     /\ UNCHANGED <<files, scenario, given, raced, stale, contested>>

-----------------------------------------------------------------------------

Init ==
  /\ scenario \in Scenarios
  /\ files = [s \in Spots |-> IF s \in Places THEN scenario.files[s] ELSE Absent]
  /\ info = [t \in TrashNames |-> Absent]
  /\ op = [o \in Ops |-> Idle]
  /\ given = {} /\ raced = {} /\ stale = {} /\ contested = {}
  /\ cameFrom = [t \in TrashNames |-> Absent]

\* What the process does once an answer arrived, and what scripts do.
Step(o) ==
  \/ Look(o) \/ RenameItem(o) \/ CopyItem(o) \/ CopyFails(o) \/ ExportWarned(o)
  \/ RemoveSource(o) \/ CreateFile(o) \/ RemoveItem(o) \/ SaveFile(o)
  \/ ListForTrash(o) \/ WriteInfo(o) \/ ListForRestore(o) \/ RemoveInfo(o)

Next ==
  \E o \in Ops :
    \/ Start(o) \/ Step(o) \/ CancelOp(o) \/ Stopped(o)
    \/ \E q \in Ops : GoesOn(o, q)

\* Every script has a time limit and every file call returns.
Spec == Init /\ [][Next]_vars

-----------------------------------------------------------------------------
(* Properties *)

\* No operation, alone or beside others, failing, cancelled or given up half-way,
\* costs the user a file or a saved text: every content is still whole somewhere, in a
\* directory or in the trash, unless it was deleted for good or replaced by a save.
\* False of the code, and left out (raced), is what these races destroy: a file that
\* came to a destination after the look at it (operations.ts:31 and its callers,
\* trash.ts:231, windows.ts:469); one that came to the source of a move to another
\* volume between its copy and its removal (windows.ts:486, and mv); and one under a
\* trash name that two operations had in hand at once (trash.ts:119).
Original == {scenario.files[p] : p \in Places}
SavedBy(b) == IF b.kind = "save" THEN {b.items[j].content : j \in b.applied} ELSE {}
Promised == (Original \union UNION {SavedBy(op[o]) : o \in Ops}) \ {Absent}
Kept == {files[s] : s \in Spots} \union given \union raced
NothingLost == Promised \subseteq Kept

\* "done" is said of an operation only if every one of its items was carried out; a
\* failure of an early item is not forgotten by the last.  Left out (warned) are the
\* items of an export of which cp said nothing but "preserving ..." or "Operation not
\* permitted": the code calls them done, also when a link was not copied (transfer.ts:169).
DoneMeansAll ==
  \A o \in Ops : op[o].status = "done" => op[o].applied \union op[o].warned = DOMAIN op[o].items

\* A cancel that comes before the last item has begun is not answered by "done".  (One
\* that comes while the last item runs is: the flag is not looked at after it.)
CancelHeeded ==
  [][\A o \in Ops :
       (op[o].cancelled /\ op[o].pc # "ended" /\ op[o].i < Len(op[o].items))
         => op'[o].i <= op[o].i + 1 /\ (op'[o].i = op[o].i + 1 => op'[o].status = "cancelled")]_vars

\* The record of a trashed file names the place that very file came from: a restore
\* puts it back there, whatever else was trashed under its name before.  What a failed
\* mv from another volume has left in the trash came from nowhere, and has no record
\* (trash.ts:83).  False of the code, and left out, for a name that two operations had in
\* hand at once (contested: trash.ts:119): one writes or removes the record of the other.
RecordTellsOrigin ==
  \A t \in TrashNames \ contested :
    files[t] # Absent => info[t] = cameFrom[t]
=============================================================================
