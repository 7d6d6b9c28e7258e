---------------------------- MODULE ExplorerProofs ----------------------------
(***************************************************************************)
(* Proofs about the explorer.  First FileOperations, in the order of the   *)
(* theorems: every operation tells the truth about its items, a cancel is  *)
(* heeded, the record of a trashed file tells where it came from, and      *)
(* nothing is lost.                                                        *)
(*                                                                         *)
(* The last two hold of the code but for what its races do, and the        *)
(* properties name them (raced, contested).  What is proved is that there  *)
(* are no others: whatever is overwritten was found free by the look       *)
(* before it, what is removed after a copy is still what was copied, and   *)
(* the names a trash batch has in hand are nobody else's.                  *)
(*                                                                         *)
(* Then ExplorerPane: numbers of sizes are of the directory and distro     *)
(* they stand under, because only the measurement in force may answer, and *)
(* one refresh repairs what races left behind.                             *)
(***************************************************************************)
EXTENDS FileOperations, ExplorerPane, FiniteSetTheorems, SequenceTheorems,
        WellFoundedInduction, TLAPS

-----------------------------------------------------------------------------
(* One operation *)

\* What a spot can hold, and the kinds of operation.
Held == Contents \union {Partial, Absent}
MoveKinds == Cancellable \union {"trash", "remove", "rename", "create", "save"}
Moved == {"move", "winMove", "rename", "trash", "restore"}

Operation ==
  [kind : {"none", "restore"} \union MoveKinds, items : Seq(Moves) \union Seq(TrashNames),
   pc : {"idle", "list", "info", "item", "act", "copied", "unrecord", "ended"},
   i : Nat, failed : BOOLEAN, cancelled : BOOLEAN,
   status : {"none", "done", "error", "cancelled"},
   names : Seq(TrashNames), records : {<<>>} \union [TrashNames -> Places \union {Absent}],
   found : Held, applied : SUBSET Nat, warned : SUBSET Nat]

\* Which operation can be where, what it was asked, and what it tells of itself.
Running(b) == b.pc \notin {"idle", "ended"}
\* A trash batch that has chosen its names.
Chosen(b) == b.kind = "trash" /\ b.pc \in {"info", "act", "copied", "unrecord"}

Where(b) ==
  /\ b.pc = "list" => b.kind \in {"trash", "restore"}
  /\ b.pc = "info" => b.kind = "trash"
  /\ b.pc = "item" => b.kind # "trash"
  /\ b.pc = "act" => b.kind \notin {"remove", "save"} /\ (b.kind # "trash" => b.found = Absent)
  /\ b.pc = "copied" => b.kind \in Moved
  /\ b.pc = "unrecord" => b.kind \in {"trash", "restore"}
  /\ Chosen(b) => DOMAIN b.names = DOMAIN b.items
  /\ b.kind = "restore" /\ b.pc \in {"item", "act", "copied", "unrecord"} =>
       b.records \in [TrashNames -> Places \union {Absent}]
  /\ b.kind = "restore" /\ b.pc \in {"act", "copied"} => b.records[b.items[b.i]] # Absent

Asked(b) ==
  IF b.kind = "none" THEN b = Idle
  ELSE /\ b.pc # "idle" /\ b.items # <<>>
       /\ IF b.kind = "restore" THEN b.items \in Seq(TrashNames) ELSE b.items \in Seq(Moves)

Told(b) ==
  /\ Running(b) => b.i \in DOMAIN b.items /\ b.status = "none"
  /\ b.cancelled => b.kind \in Cancellable
  /\ Running(b) /\ ~b.failed => b.applied \union b.warned = 1..(b.i - 1)
  /\ b.status = "done" => b.applied \union b.warned = DOMAIN b.items
  /\ b.kind = "trash" /\ b.pc = "unrecord" => b.failed

OpOK(b) == b \in Operation /\ Asked(b) /\ Where(b) /\ Told(b)
OpsOK == DOMAIN op = Ops /\ \A o \in Ops : OpOK(op[o])

\* The type invariant.
FilesOK == files \in [Spots -> Held]
TrashOK ==
  /\ info \in [TrashNames -> Places \union {Absent}]
  /\ cameFrom \in [TrashNames -> Places \union {Absent}]
ScenarioOK ==
  scenario \in [requests : Seq(Requests), files : [Places -> Contents \union {Absent}],
               faults : Nat, cancels : Nat]
PastOK ==
  /\ given \subseteq Held /\ raced \subseteq Held
  /\ stale \subseteq Ops /\ contested \subseteq TrashNames

TypeOK == OpsOK /\ FilesOK /\ TrashOK /\ ScenarioOK /\ PastOK

-----------------------------------------------------------------------------
(* The inductive invariants *)

\* Of one operation: the trash names it has still to use, those it has in hand, and the
\* one a restore is about to free.
InUse(b) == IF Chosen(b) THEN {b.names[j] : j \in b.i..Len(b.items)} ELSE {}
Coming(b) ==
  CASE Chosen(b) /\ b.pc \in {"info", "act"} -> {b.names[j] : j \in b.i..Len(b.items)}
    [] Chosen(b) /\ b.pc \notin {"info", "act"} -> {b.names[j] : j \in (b.i + 1)..Len(b.items)}
    [] OTHER -> {}
Freeing(b) == IF b.kind = "restore" /\ b.pc = "unrecord" THEN {b.items[b.i]} ELSE {}

\* Names of a batch are distinct; those it has still to use hold no file; the record of the
\* file about to move is its own, and what has come under a name in hand came from its item.
\* A name about to be freed holds no file.  All of this of names that are not contested.
NamesOf(b, f, n, c, x) ==
  /\ Chosen(b) => \A j, k \in DOMAIN b.items : b.names[j] = b.names[k] => j = k
  /\ \A t \in Coming(b) : t \notin x => f[t] = Absent
  /\ \A t \in Freeing(b) : t \notin x => f[t] = Absent
  /\ Chosen(b) /\ b.pc = "act" /\ b.names[b.i] \notin x => n[b.names[b.i]] = b.items[b.i].from
  /\ Chosen(b) /\ b.pc \in {"copied", "unrecord"} /\ b.names[b.i] \notin x /\ f[b.names[b.i]] # Absent =>
       c[b.names[b.i]] = b.items[b.i].from

\* What two operations have in hand both is contested.
Apart(b, d, x) ==
  /\ InUse(b) \cap InUse(d) \subseteq x
  /\ Coming(b) \cap Freeing(d) \subseteq x
  /\ Coming(d) \cap Freeing(b) \subseteq x

TrashInv ==
  /\ \A o \in Ops : NamesOf(op[o], files, info, cameFrom, contested)
  /\ \A o, q \in Ops : o # q => Apart(op[o], op[q], contested)
  /\ RecordTellsOrigin

\* The sources that operations are about to remove, and no other has written to since.
Leaving == {From(q) : q \in {o \in Ops : op[o].pc = "copied" /\ o \notin stale}}

\* A content is accounted for, or whole in a spot that nobody is about to clear.
Whole(c) == c \in given \union raced \/ \E s \in Spots \ Leaving : files[s] = c
KeptInv == \A c \in Promised : Whole(c)

-----------------------------------------------------------------------------
(* What the operations on one operation keep *)

\* What no step of an operation changes.
Same(b, e) ==
  /\ e.kind = b.kind /\ e.items = b.items /\ e.names = b.names /\ e.records = b.records
  /\ e.cancelled = b.cancelled

\* A batch between two items, as Proceed finds it.
Between(b) ==
  /\ b \in Operation
  /\ b.kind \in MoveKinds \ {"trash"} /\ b.items \in Seq(Moves) /\ b.items # <<>>
  /\ b.i \in 1..(Len(b.items) + 1) /\ b.status = "none"
  /\ b.cancelled => b.kind \in Cancellable
  /\ ~b.failed => b.applied \union b.warned = 1..(b.i - 1)

\* An operation not started is well formed.
LEMMA IdleOK == OpOK(Idle)
<1>1. <<>> \in Seq(Moves) /\ <<>> \in Seq(TrashNames)
  OBVIOUS
<1>2. Idle \in Operation
  BY <1>1 DEF Idle, Operation, Held
<1> QED BY <1>2 DEF OpOK, Asked, Where, Told, Running, Chosen, Idle

\* Between two items: the next one, or the end if there is none or the user cancelled.
LEMMA ProceedOK ==
  ASSUME NEW b, Between(b)
  PROVE  /\ OpOK(Proceed(b)) /\ Same(b, Proceed(b))
         /\ Proceed(b).pc \in {"item", "ended"}
         /\ Proceed(b).i = b.i /\ Proceed(b).applied = b.applied
         /\ b.cancelled /\ b.i <= Len(b.items) => Proceed(b).status = "cancelled"
<1> DEFINE p == Proceed(b)
<1>p. p = Proceed(b)
  OBVIOUS
<1>0. b \in Operation /\ b.i \in Nat /\ Len(b.items) \in Nat /\ DOMAIN b.items = 1..Len(b.items)
  BY DEF Between, Operation
<1>1. CASE b.i > Len(b.items)
  <2> DEFINE s == IF b.failed THEN "error" ELSE "done"
  <2>1. p = [b EXCEPT !.pc = "ended", !.status = s]
    BY <1>1, <1>0 DEF Proceed
  <2>s. s \in {"error", "done"} /\ (s = "done" => ~b.failed)
    OBVIOUS
  <2> HIDE DEF s, p
  <2>2. p \in Operation
    BY <2>1, <2>s, <1>0 DEF Operation
  <2>3. /\ p.pc = "ended" /\ p.status = s
        /\ p.i = b.i /\ p.applied = b.applied /\ p.warned = b.warned /\ Same(b, p)
    BY <2>1, <1>0 DEF Operation, Same
  <2>4. b.i = Len(b.items) + 1
    BY <1>1, <1>0 DEF Between
  <2>5. Asked(p) /\ Where(p)
    BY <2>3 DEF Between, Asked, Where, Chosen, Same, MoveKinds, Cancellable, Batches, WindowsBatches
  <2>6. p.status = "done" => p.applied \union p.warned = DOMAIN p.items
    BY <2>3, <2>s, <2>4, <1>0 DEF Between, Same
  <2>7. Told(p)
    BY <2>3, <2>6 DEF Between, Told, Running, Same
  <2> QED BY <2>2, <2>3, <2>5, <2>7, <1>1, <1>0, <1>p DEF OpOK
<1>2. CASE b.i <= Len(b.items) /\ b.cancelled
  <2>1. p = [b EXCEPT !.pc = "ended", !.status = "cancelled"]
    BY <1>2, <1>0 DEF Proceed
  <2> HIDE DEF p
  <2>2. p \in Operation
    BY <2>1, <1>0 DEF Operation
  <2>3. /\ p.pc = "ended" /\ p.status = "cancelled"
        /\ p.i = b.i /\ p.applied = b.applied /\ Same(b, p)
    BY <2>1, <1>0 DEF Operation, Same
  <2>5. Asked(p) /\ Where(p)
    BY <2>3 DEF Between, Asked, Where, Chosen, Same, MoveKinds, Cancellable, Batches, WindowsBatches
  <2>7. Told(p)
    BY <2>3 DEF Between, Told, Running, Same
  <2> QED BY <2>2, <2>3, <2>5, <2>7, <1>2, <1>p DEF OpOK
<1>3. CASE b.i <= Len(b.items) /\ ~b.cancelled
  <2>1. p = [b EXCEPT !.pc = "item"]
    BY <1>3, <1>0 DEF Proceed
  <2> HIDE DEF p
  <2>2. p \in Operation
    BY <2>1, <1>0 DEF Operation
  <2>3. /\ p.pc = "item" /\ p.status = b.status /\ p.failed = b.failed
        /\ p.i = b.i /\ p.applied = b.applied /\ p.warned = b.warned /\ Same(b, p)
    BY <2>1, <1>0 DEF Operation, Same
  <2>4. p.kind \in MoveKinds /\ p.kind # "trash"
    BY <2>3 DEF Between, Same
  <2>5. Asked(p) /\ Where(p)
    BY <2>3, <2>4 DEF Between, Asked, Where, Chosen, Same, MoveKinds, Cancellable, Batches, WindowsBatches
  <2>6. p.i \in DOMAIN p.items
    BY <2>3, <1>0, <1>3 DEF Between, Same
  <2>7. Told(p)
    BY <2>3, <2>4, <2>6 DEF Between, Told, Running, Same
  <2> QED BY <2>2, <2>3, <2>5, <2>7, <1>3, <1>p DEF OpOK
<1> QED BY <1>0, <1>1, <1>2, <1>3

\* Between two items again, once one has ended.
LEMMA ItemEndedOK ==
  ASSUME NEW b, OpOK(b), Running(b), b.kind \in Cancellable, NEW ok \in BOOLEAN
  PROVE  /\ Between(ItemEnded(b, ok)) /\ Same(b, ItemEnded(b, ok))
         /\ ItemEnded(b, ok).i = b.i + 1
         /\ ItemEnded(b, ok).warned = b.warned /\ ItemEnded(b, ok).failed = (b.failed \/ ~ok)
<1> DEFINE e == ItemEnded(b, ok)
           a == IF ok THEN b.applied \union {b.i} ELSE b.applied
           f == b.failed \/ ~ok
           n == b.i + 1
<1>e. e = ItemEnded(b, ok)
  OBVIOUS
<1>1. b \in Operation /\ b.i \in Nat /\ b.applied \in SUBSET Nat /\ b.failed \in BOOLEAN
  BY DEF OpOK, Operation
<1>2. e = [b EXCEPT !.i = n, !.failed = f, !.applied = a]
  BY DEF ItemEnded
<1>3. a \in SUBSET Nat /\ f \in BOOLEAN /\ n \in Nat
  BY <1>1
<1>n. n = b.i + 1
  OBVIOUS
<1>f. (f <=> b.failed \/ ~ok) /\ f = (b.failed \/ ~ok)
  OBVIOUS
<1>a. ok => a = b.applied \union {b.i}
  OBVIOUS
<1> HIDE DEF a, f, n, e
<1>4. e \in Operation
  BY <1>3, <1>2, <1>1 DEF Operation
<1>5. /\ e.i = n /\ e.failed = f /\ e.applied = a /\ e.warned = b.warned
      /\ e.status = b.status /\ Same(b, e)
  BY <1>1, <1>2 DEF Operation, Same
<1>6. b.kind \in MoveKinds /\ b.kind \notin {"none", "restore", "trash"}
  BY DEF MoveKinds, Cancellable, Batches, WindowsBatches
<1>7. b.items \in Seq(Moves) /\ b.items # <<>>
  BY <1>6 DEF OpOK, Asked
<1>8. b.i \in 1..Len(b.items) /\ Len(b.items) \in Nat
  BY <1>7 DEF OpOK, Told
<1>9. e.i \in 1..(Len(e.items) + 1)
  BY <1>8, <1>5, <1>n DEF Same
<1>10. ~e.failed => e.applied \union e.warned = 1..(e.i - 1)
  <2> SUFFICES ASSUME ~e.failed PROVE e.applied \union e.warned = 1..(e.i - 1)
    OBVIOUS
  <2>1. b.applied \union b.warned = 1..(b.i - 1) /\ e.applied = b.applied \union {b.i}
    BY <1>5, <1>f, <1>a DEF OpOK, Told
  <2>2. e.applied \union e.warned = 1..b.i
    BY <2>1, <1>5, <1>8
  <2> QED BY <2>2, <1>5, <1>8, <1>n
<1>11. e.status = "none"
  BY <1>5 DEF OpOK, Told
<1> QED BY <1>4, <1>5, <1>6, <1>7, <1>9, <1>10, <1>11, <1>e, <1>n, <1>f DEF Between, Same

\* An operation that ends may say done only with all items accounted for.
LEMMA FinishOK ==
  ASSUME NEW b, b \in Operation, Asked(b), Running(b), b.cancelled => b.kind \in Cancellable,
         NEW ok \in BOOLEAN, ok /\ ~b.failed => b.applied \union b.warned = DOMAIN b.items
  PROVE  /\ OpOK(Finish(b, ok)) /\ Same(b, Finish(b, ok))
         /\ Finish(b, ok).pc = "ended" /\ Finish(b, ok).i = b.i /\ Finish(b, ok).applied = b.applied
<1> DEFINE s == IF ok /\ ~b.failed THEN "done" ELSE "error"
           e == Finish(b, ok)
<1>e. e = Finish(b, ok)
  OBVIOUS
<1>1. s \in {"done", "error"} /\ (s = "done" => ok /\ ~b.failed)
  OBVIOUS
<1>2. e = [b EXCEPT !.pc = "ended", !.status = s]
  BY DEF Finish
<1> HIDE DEF s, e
<1>3. e \in Operation
  BY <1>1, <1>2 DEF Operation
<1>4. /\ e.pc = "ended" /\ e.status = s /\ e.i = b.i /\ e.applied = b.applied
      /\ e.warned = b.warned /\ Same(b, e)
  BY <1>2 DEF Operation, Same
<1>5. b.kind # "none"
  BY DEF Asked, Running, Idle
<1>6. Asked(e) /\ Where(e)
  BY <1>4, <1>5 DEF Asked, Where, Chosen, Same
<1>7. Told(e)
  BY <1>4, <1>1 DEF Told, Running, Same
<1> QED BY <1>3, <1>4, <1>6, <1>7, <1>e DEF OpOK

\* The item in hand is over, and the operation has not gone on yet.
Handled(b) ==
  /\ b \in Operation /\ Asked(b) /\ Running(b)
  /\ b.i \in DOMAIN b.items /\ b.status = "none"
  /\ b.cancelled => b.kind \in Cancellable
  /\ ~b.failed => b.applied \union b.warned = 1..b.i

\* The next item, or the end after the last.
LEMMA OnToOK ==
  ASSUME NEW b, Handled(b), NEW pc,
         \/ pc = "info" /\ Chosen(b) /\ DOMAIN b.names = DOMAIN b.items
         \/ pc = "item" /\ b.kind \in {"remove", "rename", "create", "save"}
         \/ /\ pc = "item" /\ b.kind = "restore"
            /\ b.records \in [TrashNames -> Places \union {Absent}]
  PROVE  /\ OpOK(OnTo(b, pc)) /\ Same(b, OnTo(b, pc)) /\ OnTo(b, pc).applied = b.applied
         /\ \/ OnTo(b, pc).pc = "ended" /\ OnTo(b, pc).i = b.i
            \/ OnTo(b, pc).pc = pc /\ OnTo(b, pc).i = b.i + 1
<1> DEFINE e == OnTo(b, pc)
<1>e. e = OnTo(b, pc)
  OBVIOUS
<1>0. /\ b \in Operation /\ b.i \in Nat /\ Len(b.items) \in Nat /\ DOMAIN b.items = 1..Len(b.items)
      /\ b.i \in 1..Len(b.items)
  BY DEF Handled, Operation
<1>1. CASE b.i = Len(b.items)
  <2>1. e = Finish(b, TRUE)
    BY <1>1 DEF OnTo
  <2>2. ~b.failed => b.applied \union b.warned = DOMAIN b.items
    BY <1>0, <1>1 DEF Handled
  <2> QED BY <2>1, <2>2, FinishOK DEF Handled
<1>2. CASE b.i # Len(b.items)
  <2> DEFINE n == b.i + 1
  <2>1. e = [b EXCEPT !.i = n, !.pc = pc]
    BY <1>2 DEF OnTo
  <2>n. n = b.i + 1 /\ n \in Nat /\ n - 1 = b.i /\ n \in DOMAIN b.items
    BY <1>0, <1>2
  <2>p. pc \in {"info", "item"}
    OBVIOUS
  <2> HIDE DEF n, e
  <2>2. e \in Operation
    BY <2>1, <2>n, <2>p, <1>0 DEF Operation
  <2>3. /\ e.pc = pc /\ e.i = n /\ e.status = b.status /\ e.failed = b.failed
        /\ e.applied = b.applied /\ e.warned = b.warned /\ Same(b, e)
    BY <2>1, <1>0 DEF Operation, Same
  <2>4. b.kind # "none"
    BY DEF Handled, Asked, Running, Idle
  <2>5. Asked(e)
    BY <2>3, <2>4, <2>p DEF Handled, Asked, Same
  <2>6. Where(e)
    BY <2>3 DEF Where, Chosen, Same
  <2>7. Told(e)
    <3>1. Running(e)
      BY <2>3, <2>p DEF Running
    <3>2. e.i \in DOMAIN e.items /\ e.status = "none"
      BY <2>3, <2>n DEF Same, Handled
    <3>3. e.cancelled => e.kind \in Cancellable
      BY <2>3 DEF Same, Handled
    <3>4. ~e.failed => e.applied \union e.warned = 1..(e.i - 1)
      BY <2>3, <2>n DEF Handled
    <3> QED BY <3>1, <3>2, <3>3, <3>4, <2>3, <2>p DEF Told
  <2> QED BY <2>2, <2>3, <2>5, <2>6, <2>7, <2>n, <1>e DEF OpOK
<1> QED BY <1>1, <1>2

\* An item carried out is handled.
LEMMA AppliedOK ==
  ASSUME NEW b, OpOK(b), Running(b)
  PROVE  /\ Handled(Applied(b)) /\ Same(b, Applied(b))
         /\ Applied(b).pc = b.pc /\ Applied(b).i = b.i
         /\ Applied(b).applied = b.applied \union {b.i}
<1> DEFINE e == Applied(b)
           a == b.applied \union {b.i}
<1>e. e = Applied(b)
  OBVIOUS
<1>1. b \in Operation /\ b.i \in Nat /\ b.i \in DOMAIN b.items
  BY DEF OpOK, Operation, Told
<1>2. e = [b EXCEPT !.applied = a] /\ a \in SUBSET Nat
  BY <1>1 DEF Applied, Operation
<1>a. a = b.applied \union {b.i}
  OBVIOUS
<1> HIDE DEF a, e
<1>3. e \in Operation
  BY <1>1, <1>2 DEF Operation
<1>4. /\ e.pc = b.pc /\ e.status = b.status /\ e.i = b.i /\ e.applied = a
      /\ e.warned = b.warned /\ e.failed = b.failed /\ Same(b, e)
  BY <1>1, <1>2 DEF Operation, Same
<1>5. b.kind # "none"
  BY DEF OpOK, Asked, Running, Idle
<1>6. Asked(e) /\ Running(e)
  BY <1>4, <1>5 DEF OpOK, Asked, Running, Same
<1>7. ~e.failed => e.applied \union e.warned = 1..e.i
  <2> SUFFICES ASSUME ~b.failed PROVE a \union b.warned = 1..b.i
    BY <1>4
  <2>1. b.applied \union b.warned = 1..(b.i - 1)
    BY DEF OpOK, Told
  <2>2. 1..b.i = 1..(b.i - 1) \union {b.i}
    <3>1. b.i >= 1
      BY <1>1 DEF Operation
    <3> QED BY <3>1, <1>1
  <2> QED BY <2>1, <2>2, <1>a
<1>8. e.i \in DOMAIN e.items /\ e.status = "none" /\ (e.cancelled => e.kind \in Cancellable)
  BY <1>1, <1>4 DEF OpOK, Told, Same
<1> QED BY <1>3, <1>4, <1>6, <1>7, <1>8, <1>e, <1>a DEF Handled

\* Only its place in the script has changed.
LEMMA PcOK ==
  ASSUME NEW b, OpOK(b), Running(b), NEW pc,
         \/ pc = "act" /\ b.pc = "info"
         \/ pc = "copied" /\ b.pc = "act" /\ b.kind \in Moved
         \/ pc = "unrecord" /\ b.pc \in {"act", "copied"} /\ b.kind = "restore"
  PROVE  LET e == [b EXCEPT !.pc = pc]
         IN  OpOK(e) /\ e.pc = pc /\ e.i = b.i /\ e.applied = b.applied /\ Same(b, e)
<1> DEFINE e == [b EXCEPT !.pc = pc]
<1>1. b \in Operation /\ e = [b EXCEPT !.pc = pc]
  BY DEF OpOK
<1>p. [b EXCEPT !.pc = pc] = e
  OBVIOUS
<1>q. pc \in {"act", "copied", "unrecord"}
  OBVIOUS
<1> HIDE DEF e
<1>2. e \in Operation
  BY <1>1, <1>q DEF Operation
<1>3. /\ e.pc = pc /\ e.status = b.status /\ e.i = b.i /\ e.found = b.found
      /\ e.failed = b.failed /\ e.applied = b.applied /\ e.warned = b.warned /\ Same(b, e)
  BY <1>1 DEF Operation, Same
<1>4. b.kind # "none"
  BY DEF OpOK, Asked, Running, Idle
<1>5. Asked(e)
  BY <1>3, <1>4, <1>q DEF OpOK, Asked, Same
<1>6. Where(e)
  <2>1. Where(b)
    BY DEF OpOK
  <2>2. CASE pc = "act" /\ b.pc = "info"
    BY <2>1, <2>2, <1>3 DEF Where, Chosen, Same
  <2>4. CASE pc = "copied" /\ b.pc = "act" /\ b.kind \in Moved
    BY <2>1, <2>4, <1>3 DEF Where, Chosen, Same
  <2>5. CASE pc = "unrecord" /\ b.pc \in {"act", "copied"} /\ b.kind = "restore"
    BY <2>1, <2>5, <1>3 DEF Where, Chosen, Same
  <2> QED BY <2>2, <2>4, <2>5
<1>7. Told(e)
  <2>1. Told(b) /\ Running(e)
    BY <1>3, <1>q DEF OpOK, Running
  <2>2. ~(e.kind = "trash" /\ e.pc = "unrecord")
    BY <1>3 DEF Same
  <2> QED BY <1>3, <2>1, <2>2 DEF Told, Same
<1> QED BY <1>2, <1>3, <1>5, <1>6, <1>7, <1>p DEF OpOK

\* An item whose destination was found free.
LEMMA LookedOK ==
  ASSUME NEW b, OpOK(b), b.pc = "item", b.kind \notin {"remove", "save"},
         b.kind = "restore" => b.records[b.items[b.i]] # Absent
  PROVE  LET e == [b EXCEPT !.pc = "act", !.found = Absent]
         IN  OpOK(e) /\ e.pc = "act" /\ e.i = b.i /\ e.applied = b.applied /\ Same(b, e)
<1> DEFINE e == [b EXCEPT !.pc = "act", !.found = Absent]
<1>1. b \in Operation /\ e = [b EXCEPT !.pc = "act", !.found = Absent]
  BY DEF OpOK
<1>p. [b EXCEPT !.pc = "act", !.found = Absent] = e
  OBVIOUS
<1> HIDE DEF e
<1>2. e \in Operation
  BY <1>1 DEF Operation, Held
<1>3. /\ e.pc = "act" /\ e.status = b.status /\ e.i = b.i /\ e.found = Absent
      /\ e.failed = b.failed /\ e.applied = b.applied /\ e.warned = b.warned /\ Same(b, e)
  BY <1>1 DEF Operation, Same
<1>4. b.kind # "none"
  BY DEF OpOK, Asked, Idle
<1>5. Asked(e)
  BY <1>3, <1>4 DEF OpOK, Asked, Same
<1>6. Where(e)
  BY <1>3 DEF OpOK, Where, Chosen, Same
<1>7. Told(e)
  BY <1>3 DEF OpOK, Told, Running, Same
<1> QED BY <1>2, <1>3, <1>5, <1>6, <1>7, <1>p DEF OpOK

\* A file that does not move to the trash: its record is to be removed.
LEMMA UnmovedOK ==
  ASSUME NEW b, OpOK(b), b.kind = "trash", b.pc \in {"act", "copied"}
  PROVE  LET e == [b EXCEPT !.pc = "unrecord", !.failed = TRUE]
         IN  OpOK(e) /\ e.pc = "unrecord" /\ e.i = b.i /\ e.applied = b.applied /\ Same(b, e)
<1> DEFINE e == [b EXCEPT !.pc = "unrecord", !.failed = TRUE]
<1>1. b \in Operation /\ e = [b EXCEPT !.pc = "unrecord", !.failed = TRUE]
  BY DEF OpOK
<1>p. [b EXCEPT !.pc = "unrecord", !.failed = TRUE] = e
  OBVIOUS
<1> HIDE DEF e
<1>2. e \in Operation
  BY <1>1 DEF Operation
<1>3. /\ e.pc = "unrecord" /\ e.status = b.status /\ e.i = b.i /\ e.failed = TRUE
      /\ e.applied = b.applied /\ e.warned = b.warned /\ Same(b, e)
  BY <1>1 DEF Operation, Same
<1>5. Asked(e)
  BY <1>3 DEF OpOK, Asked, Same
<1>6. Where(e)
  BY <1>3 DEF OpOK, Where, Chosen, Same
<1>7. Told(e)
  BY <1>3 DEF OpOK, Told, Running, Same
<1> QED BY <1>2, <1>3, <1>5, <1>6, <1>7, <1>p DEF OpOK

\* Cancelling changes the flag and nothing else.
LEMMA CancelledOK ==
  ASSUME NEW b, OpOK(b), b.kind \in Cancellable
  PROVE  LET e == [b EXCEPT !.cancelled = TRUE]
         IN  /\ OpOK(e) /\ e.pc = b.pc /\ e.i = b.i /\ e.kind = b.kind /\ e.items = b.items
             /\ e.names = b.names /\ e.records = b.records /\ e.applied = b.applied
<1> DEFINE e == [b EXCEPT !.cancelled = TRUE]
<1>1. b \in Operation /\ e = [b EXCEPT !.cancelled = TRUE]
  BY DEF OpOK
<1>p. [b EXCEPT !.cancelled = TRUE] = e
  OBVIOUS
<1> HIDE DEF e
<1>2. e \in Operation
  BY <1>1 DEF Operation
<1>3. /\ e.pc = b.pc /\ e.status = b.status /\ e.i = b.i /\ e.kind = b.kind /\ e.items = b.items
      /\ e.cancelled = TRUE /\ e.failed = b.failed /\ e.found = b.found
      /\ e.applied = b.applied /\ e.warned = b.warned /\ e.names = b.names /\ e.records = b.records
  BY <1>1 DEF Operation
<1>4. b.kind # "none"
  BY DEF Cancellable, Batches, WindowsBatches
<1>5. Asked(e)
  BY <1>3, <1>4 DEF OpOK, Asked
<1>6. Where(e)
  BY <1>3 DEF OpOK, Where, Chosen
<1>7. Told(e)
  BY <1>3 DEF OpOK, Told, Running
<1> QED BY <1>2, <1>3, <1>5, <1>6, <1>7, <1>p DEF OpOK

\* A cancel is heeded by a step that makes e of b.
Heeding(b, e) ==
  (b.cancelled /\ b.pc # "ended" /\ b.i < Len(b.items))
     => e.i <= b.i + 1 /\ (e.i = b.i + 1 => e.status = "cancelled")

\* A step that starts no item heeds a cancel, and an operation that cannot be cancelled
\* heeds every cancel.
LEMMA HeedingOK ==
  ASSUME NEW b, OpOK(b), NEW e, e.i = b.i \/ b.kind \notin Cancellable
  PROVE  Heeding(b, e)
<1>1. b.i \in Nat
  BY DEF OpOK, Operation
<1>2. b.cancelled => b.kind \in Cancellable
  BY DEF OpOK, Told
<1> QED BY <1>1, <1>2 DEF Heeding

\* An item of a batch that ends leads to the next or to the end.
LEMMA AdvanceOK ==
  ASSUME NEW b, OpOK(b), Running(b), b.kind \in Cancellable, NEW ok \in BOOLEAN
  PROVE  LET e == Proceed(ItemEnded(b, ok))
         IN  OpOK(e) /\ Same(b, e) /\ Heeding(b, e) /\ e.pc \in {"item", "ended"}
<1> DEFINE m == ItemEnded(b, ok)
           e == Proceed(m)
<1>e. e = Proceed(ItemEnded(b, ok))
  OBVIOUS
<1>1. Between(m) /\ Same(b, m) /\ m.i = b.i + 1
  BY ItemEndedOK
<1> HIDE DEF m
<1>2. /\ OpOK(e) /\ Same(m, e) /\ e.pc \in {"item", "ended"} /\ e.i = m.i
      /\ m.cancelled /\ m.i <= Len(m.items) => e.status = "cancelled"
  BY <1>1, ProceedOK
<1> HIDE DEF e
<1>3. b.i \in Nat /\ Len(b.items) \in Nat
  BY DEF OpOK, Operation
<1>4. b.i + 1 <= b.i + 1 /\ (b.i < Len(b.items) => b.i + 1 <= Len(b.items))
  BY <1>3
<1>5. Heeding(b, e)
  BY <1>1, <1>2, <1>4 DEF Heeding, Same
<1> QED BY <1>1, <1>2, <1>5, <1>e DEF Same

\* Where an operation is once its item has ended, well or not.
After(b, e, ok) ==
  /\ Same(b, e) /\ Heeding(b, e)
  /\ b.kind \notin {"trash", "restore"} => e.pc \in {"item", "ended"}
  /\ b.kind = "trash" /\ ok => e.pc = "ended" \/ (e.pc = "info" /\ e.i = b.i + 1)
  /\ b.kind = "trash" /\ ~ok => e.pc = "unrecord" /\ e.i = b.i
  /\ b.kind = "restore" /\ ok => e.pc = "unrecord" /\ e.i = b.i
  /\ b.kind = "restore" /\ ~ok => e.pc = "ended"
  /\ b.kind = "save" => e.applied = IF ok THEN b.applied \union {b.i} ELSE b.applied

\* What follows an item.
LEMMA ItemDoneOK ==
  ASSUME NEW b, OpOK(b), NEW ok \in BOOLEAN,
         b.pc \in {"item", "act", "copied"}, b.pc = "item" /\ b.kind = "restore" => ~ok
  PROVE  OpOK(ItemDone(b, ok)) /\ After(b, ItemDone(b, ok), ok)
<1>0. /\ b \in Operation /\ Asked(b) /\ Where(b) /\ Running(b)
      /\ b.cancelled => b.kind \in Cancellable
  BY DEF OpOK, Running, Told
<1>1. CASE b.kind \in Cancellable
  <2>1. ItemDone(b, ok) = Proceed(ItemEnded(b, ok)) /\ b.kind \notin {"trash", "restore", "save"}
    BY <1>1 DEF ItemDone, Cancellable, Batches, WindowsBatches
  <2> QED BY <1>0, <1>1, <2>1, AdvanceOK DEF After
<1>2. CASE b.kind = "trash" /\ ok
  <2> DEFINE a == Applied(b)
  <2>1. ItemDone(b, ok) = OnTo(a, "info")
    BY <1>2 DEF ItemDone, Cancellable, Batches, WindowsBatches
  <2>2. Handled(a) /\ Same(b, a) /\ a.pc = b.pc /\ a.i = b.i
    BY <1>0, AppliedOK
  <2>3. b.pc \in {"act", "copied"}
    BY <1>0, <1>2 DEF Where
  <2> HIDE DEF a
  <2>4. Chosen(a) /\ DOMAIN a.names = DOMAIN a.items
    BY <1>0, <1>2, <2>2, <2>3 DEF Where, Chosen, Same
  <2>5. /\ OpOK(OnTo(a, "info")) /\ Same(a, OnTo(a, "info"))
        /\ \/ OnTo(a, "info").pc = "ended" /\ OnTo(a, "info").i = a.i
           \/ OnTo(a, "info").pc = "info" /\ OnTo(a, "info").i = a.i + 1
    BY <2>2, <2>4, OnToOK
  <2>6. Same(b, OnTo(a, "info"))
    BY <2>2, <2>5 DEF Same
  <2>7. Heeding(b, OnTo(a, "info"))
    BY <1>2, HeedingOK DEF Cancellable, Batches, WindowsBatches
  <2> QED BY <1>2, <2>1, <2>2, <2>5, <2>6, <2>7 DEF After
<1>3. CASE b.kind = "trash" /\ ~ok
  <2> DEFINE e == [b EXCEPT !.pc = "unrecord", !.failed = TRUE]
  <2>1. ItemDone(b, ok) = e
    BY <1>3 DEF ItemDone, Cancellable, Batches, WindowsBatches
  <2>2. OpOK(e) /\ e.pc = "unrecord" /\ e.i = b.i /\ Same(b, e)
    BY <1>0, <1>3, UnmovedOK DEF Where
  <2> HIDE DEF e
  <2> QED BY <1>3, <2>1, <2>2, HeedingOK DEF After
<1>4. CASE b.kind = "restore" /\ ok
  <2> DEFINE e == [b EXCEPT !.pc = "unrecord"]
  <2>1. ItemDone(b, ok) = e
    BY <1>4 DEF ItemDone, Cancellable, Batches, WindowsBatches
  <2>2. b.pc \in {"act", "copied"}
    BY <1>4
  <2>3. OpOK(e) /\ e.pc = "unrecord" /\ e.i = b.i /\ Same(b, e)
    BY <1>0, <1>4, <2>2, PcOK
  <2> HIDE DEF e
  <2> QED BY <1>4, <2>1, <2>3, HeedingOK DEF After
<1>5. CASE b.kind = "restore" /\ ~ok
  <2>1. ItemDone(b, ok) = Finish(b, FALSE)
    BY <1>5 DEF ItemDone, Cancellable, Batches, WindowsBatches
  <2>2. OpOK(Finish(b, FALSE)) /\ Same(b, Finish(b, FALSE)) /\ Finish(b, FALSE).pc = "ended"
    BY <1>0, FinishOK
  <2>3. Heeding(b, Finish(b, FALSE))
    BY <1>5, HeedingOK DEF Cancellable, Batches, WindowsBatches
  <2> QED BY <1>5, <2>1, <2>2, <2>3 DEF After
<1>6. CASE b.kind \notin Cancellable \union {"trash", "restore"}
  <2>1. b.kind \in {"remove", "rename", "create", "save"}
    <3>1. b.kind # "none"
      BY <1>0 DEF Asked, Running, Idle
    <3> QED BY <1>0, <1>6, <3>1 DEF Operation, MoveKinds
  <2>h. \A e : Heeding(b, e)
    BY <1>6, HeedingOK
  <2>2. CASE ok
    <3> DEFINE a == Applied(b)
    <3>1. ItemDone(b, ok) = OnTo(a, "item")
      BY <1>6, <2>2 DEF ItemDone
    <3>2. Handled(a) /\ Same(b, a) /\ a.pc = b.pc /\ a.i = b.i /\ a.applied = b.applied \union {b.i}
      BY <1>0, AppliedOK
    <3> HIDE DEF a
    <3>3. a.kind \in {"remove", "rename", "create", "save"}
      BY <2>1, <3>2 DEF Same
    <3>4. /\ OpOK(OnTo(a, "item")) /\ Same(a, OnTo(a, "item")) /\ OnTo(a, "item").applied = a.applied
          /\ OnTo(a, "item").pc \in {"item", "ended"}
      BY <3>2, <3>3, OnToOK
    <3>5. Same(b, OnTo(a, "item"))
      BY <3>2, <3>4 DEF Same
    <3> QED BY <1>6, <2>2, <2>h, <3>1, <3>2, <3>4, <3>5 DEF After
  <2>3. CASE ~ok
    <3>1. ItemDone(b, ok) = Finish(b, FALSE)
      BY <1>6, <2>3 DEF ItemDone
    <3>2. /\ OpOK(Finish(b, FALSE)) /\ Same(b, Finish(b, FALSE)) /\ Finish(b, FALSE).pc = "ended"
          /\ Finish(b, FALSE).applied = b.applied
      BY <1>0, FinishOK
    <3> QED BY <1>6, <2>3, <2>h, <3>1, <3>2 DEF After
  <2> QED BY <2>2, <2>3
<1> QED BY <1>1, <1>2, <1>3, <1>4, <1>5, <1>6

\* After the time limit: the next item of a batch, or the end.
LEMMA GivenUpOK ==
  ASSUME NEW b, OpOK(b), Running(b)
  PROVE  LET e == GivenUp(b)
         IN  /\ OpOK(e) /\ Same(b, e) /\ Heeding(b, e)
             /\ e.pc \in {"item", "ended"} /\ (b.kind \notin Batches => e.pc = "ended")
             /\ b.kind = "save" => e.applied = b.applied
<1>1. CASE b.kind \in Batches
  <2>1. GivenUp(b) = Proceed(ItemEnded(b, FALSE)) /\ b.kind \in Cancellable /\ b.kind # "save"
    BY <1>1 DEF GivenUp, Cancellable, Batches
  <2> QED BY <1>1, <2>1, AdvanceOK
<1>2. CASE b.kind \notin Batches
  <2>1. GivenUp(b) = Finish(b, FALSE)
    BY <1>2 DEF GivenUp
  <2>2. b \in Operation /\ Asked(b) /\ (b.cancelled => b.kind \in Cancellable)
    BY DEF OpOK, Told
  <2> QED BY <1>2, <2>1, <2>2, FinishOK, HeedingOK
<1> QED BY <1>1, <1>2

\* A script that goes on is at the same item, at the same place.
LEMMA OrphanOK ==
  ASSUME NEW b, OpOK(b), Running(b), b.pc # "list"
  PROVE  LET e == Orphan(b)
         IN  /\ OpOK(e) /\ e.kind = b.kind /\ e.pc = b.pc /\ e.names = b.names /\ e.records = b.records
             /\ e.items[e.i] = b.items[b.i]
             /\ b.kind = "trash" => e.items = b.items /\ e.i = b.i
             /\ b.kind = "save" => e.applied = {}
<1> DEFINE e == Orphan(b)
<1>e. e = Orphan(b)
  OBVIOUS
<1>0. b \in Operation /\ b.kind # "none" /\ b.pc # "idle" /\ b.i \in DOMAIN b.items
  BY DEF OpOK, Asked, Running, Idle, Told
<1>1. CASE b.kind = "trash"
  <2>1. e = [b EXCEPT !.failed = TRUE]
    BY <1>1 DEF Orphan
  <2> HIDE DEF e
  <2>2. e \in Operation
    BY <1>0, <2>1 DEF Operation
  <2>3. /\ e.pc = b.pc /\ e.status = b.status /\ e.i = b.i /\ e.failed = TRUE
        /\ e.applied = b.applied /\ e.warned = b.warned /\ Same(b, e)
    BY <1>0, <2>1 DEF Operation, Same
  <2>5. Asked(e) /\ Where(e) /\ Told(e)
    BY <1>1, <2>3 DEF OpOK, Asked, Where, Chosen, Told, Running, Same
  <2> QED BY <1>1, <2>2, <2>3, <2>5, <1>e DEF OpOK, Same
<1>2. CASE b.kind # "trash"
  <2> DEFINE m == b.items[b.i]
             s == <<m>>
  <2>1. e = [b EXCEPT !.failed = TRUE, !.cancelled = FALSE, !.items = s, !.i = 1,
                      !.applied = {}, !.warned = {}]
    BY <1>2 DEF Orphan
  <2>2. IF b.kind = "restore" THEN m \in TrashNames ELSE m \in Moves
    BY <1>0 DEF OpOK, Asked
  <2>3. /\ IF b.kind = "restore" THEN s \in Seq(TrashNames) ELSE s \in Seq(Moves)
        /\ s # <<>> /\ DOMAIN s = {1} /\ s[1] = m
    BY <2>2
  <2>m. m = b.items[b.i]
    OBVIOUS
  <2> HIDE DEF m, s, e
  <2>4. s \in Seq(Moves) \union Seq(TrashNames) /\ 1 \in Nat
    BY <2>3
  <2>5. e \in Operation
    BY <1>0, <2>1, <2>4 DEF Operation
  <2>6. /\ e.pc = b.pc /\ e.status = b.status /\ e.i = 1 /\ e.failed = TRUE /\ e.cancelled = FALSE
        /\ e.kind = b.kind /\ e.names = b.names /\ e.records = b.records /\ e.found = b.found
        /\ e.items = s /\ e.applied = {}
    BY <1>0, <2>1 DEF Operation
  <2>7. Asked(e)
    BY <1>0, <2>3, <2>6 DEF Asked
  <2>8. Where(e)
    <3>1. Where(b)
      BY DEF OpOK
    <3> QED BY <3>1, <1>2, <2>3, <2>6, <2>m DEF Where, Chosen
  <2>9. Told(e)
    <3>1. b.status = "none" /\ Running(e)
      BY <2>6 DEF OpOK, Told, Running
    <3>2. e.i \in DOMAIN e.items /\ e.status = "none"
      BY <3>1, <2>3, <2>6
    <3> QED BY <3>1, <3>2, <1>2, <2>6 DEF Told
  <2>10. e.items[e.i] = b.items[b.i]
    BY <2>3, <2>6, <2>m
  <2> QED BY <1>2, <2>5, <2>6, <2>7, <2>8, <2>9, <2>10, <1>e DEF OpOK
<1> QED BY <1>1, <1>2

-----------------------------------------------------------------------------
(* The names of a batch in the trash *)

\* A set of naturals that is not empty has a least element.
LEMMA NatMin ==
  ASSUME NEW S \in SUBSET Nat, S # {}
  PROVE  \E m \in S : \A k \in S : m <= k
<1> DEFINE R == OpToRel(<, Nat)
<1>1. \A x, y \in Nat : <<x, y>> \in R <=> x < y
  BY DEF OpToRel
<1>2. IsWellFoundedOn(R, Nat)
  BY NatLessThanWellFounded
<1> HIDE DEF R
<1>3. \E x \in S : \A y \in S : ~ (<<y, x>> \in R)
  BY <1>2, WFMin
<1>4. PICK x \in S : \A y \in S : ~ (<<y, x>> \in R)
  BY <1>3
<1>5. x \in Nat /\ \A y \in S : y \in Nat /\ ~(y < x)
  BY <1>4, <1>1
<1> QED BY <1>5

Free(name, used) == {k \in 1..MaxCopies : <<name, k>> \notin used}
With(used, p, i) == used \union {p[j] : j \in 1..(i - 1)}

\* The name chosen for the trash is free, and a variant of the item's.
LEMMA FreeNameOK ==
  ASSUME NEW name \in Names, NEW used, Free(name, used) # {}
  PROVE  /\ FreeName(name, used) \in TrashNames
         /\ FreeName(name, used)[1] = name
         /\ FreeName(name, used) \notin used
<1> DEFINE S == {k \in 1..MaxCopies : <<name, k>> \notin used}
<1>1. S \in SUBSET Nat /\ S # {}
  BY DEF Free
<1>2. \E m \in S : \A k \in S : m <= k
  BY <1>1, NatMin
<1>3. Least(S) \in S
  BY <1>2 DEF Least
<1> QED BY <1>3 DEF FreeName, TrashNames

\* Fewer names picked than there are free ones leave one free.
LEMMA OneLeft ==
  ASSUME NEW name \in Names, NEW used, NEW i \in Nat \ {0}, NEW p \in Seq(TrashNames),
         Len(p) = i - 1,
         Cardinality(Free(name, used)) >= i
  PROVE  Free(name, With(used, p, i)) # {}
<1> DEFINE F == Free(name, used)
           D == 1..(i - 1)
           h == [k \in F |-> CHOOSE j \in D : p[j] = <<name, k>>]
<1>1. IsFiniteSet(1..MaxCopies)
  BY CopiesAssumption, FS_Interval
<1>2. IsFiniteSet(F) /\ Cardinality(F) \in Nat
  BY <1>1, FS_Subset, FS_CardinalityType DEF Free
<1>3. IsFiniteSet(D) /\ Cardinality(D) = i - 1
  <2> DEFINE n == i - 1
  <2>1. 1 \in Int /\ n \in Int /\ n \in Nat
    OBVIOUS
  <2> HIDE DEF n
  <2>2. IsFiniteSet(1..n) /\ Cardinality(1..n) = IF 1 > n THEN 0 ELSE n - 1 + 1
    BY <2>1, FS_Interval
  <2>3. IsFiniteSet(1..n) /\ Cardinality(1..n) = n
    BY <2>1, <2>2
  <2> QED BY <2>3 DEF n
<1> SUFFICES ASSUME \A k \in F : <<name, k>> \in {p[j] : j \in D}
             PROVE  FALSE
  BY DEF Free, With
<1>4. \A k \in F : h[k] \in D /\ p[h[k]] = <<name, k>>
  OBVIOUS
<1>5. h \in [F -> D]
  BY <1>4
<1>6. Cardinality(D) < Cardinality(F)
  BY <1>2, <1>3
<1> HIDE DEF F, D, h
<1>7. \E x, y \in F : x # y /\ h[x] = h[y]
  BY <1>2, <1>3, <1>5, <1>6, FS_PigeonHole
<1> QED BY <1>4, <1>7

\* The recursive function inside BatchNames, up to the n-th item.
Picks(items, used, f, n) ==
  f = [i \in 0..n |->
        IF i = 0 THEN <<>>
        ELSE Append(f[i - 1], FreeName(items[i].from[2], With(used, f[i - 1], i)))]

\* The names of a batch can be chosen one after the other, however long it is.
LEMMA PicksExist ==
  ASSUME NEW items, NEW used, NEW n \in Nat
  PROVE  \E f : Picks(items, used, f, n)
<1> DEFINE Bad == {m \in Nat : ~ \E f : Picks(items, used, f, m)}
<1> SUFFICES ASSUME Bad # {} PROVE FALSE
  OBVIOUS
<1>1. PICK m \in Bad : \A k \in Bad : m <= k
  BY NatMin
<1>2. m # 0
  <2> DEFINE z == [i \in 0..0 |-> <<>>]
  <2>1. Picks(items, used, z, 0)
    BY DEF Picks
  <2> QED BY <2>1
<1>3. m - 1 \in Nat /\ m - 1 \notin Bad
  BY <1>1, <1>2
<1>4. PICK f : Picks(items, used, f, m - 1)
  BY <1>3
<1> DEFINE new == Append(f[m - 1], FreeName(items[m].from[2], With(used, f[m - 1], m)))
           g == [i \in 0..m |-> IF i = m THEN new ELSE f[i]]
<1>5. \A i \in 0..m : g[i] = IF i = 0 THEN <<>>
        ELSE Append(g[i - 1], FreeName(items[i].from[2], With(used, g[i - 1], i)))
  <2> TAKE i \in 0..m
  <2>1. CASE i = m
    <3>1. g[i - 1] = f[m - 1] /\ g[i] = new /\ i # 0
      BY <2>1, <1>2, <1>3
    <3> HIDE DEF g
    <3> QED BY <3>1, <2>1
  <2>2. CASE i # m /\ i # 0
    <3>1. i \in 0..(m - 1) /\ i - 1 \in 0..m /\ i - 1 # m /\ i \in Nat
      BY <2>2, <1>3
    <3>2. g[i - 1] = f[i - 1] /\ g[i] = f[i]
      BY <3>1, <2>2
    <3>3. f[i] = Append(f[i - 1], FreeName(items[i].from[2], With(used, f[i - 1], i)))
      BY <3>1, <2>2, <1>4 DEF Picks
    <3> HIDE DEF g
    <3> QED BY <3>2, <3>3, <2>2
  <2>3. CASE i # m /\ i = 0
    <3>1. i \in 0..(m - 1) /\ g[i] = f[i]
      BY <2>3, <1>3
    <3> HIDE DEF g
    <3> QED BY <3>1, <2>3, <1>4 DEF Picks
  <2> QED BY <2>1, <2>2, <2>3
<1>6. Picks(items, used, g, m)
  <2>1. DOMAIN g = 0..m /\ g = [i \in 0..m |-> g[i]]
    OBVIOUS
  <2> HIDE DEF g
  <2> QED BY <2>1, <1>5 DEF Picks
<1> QED BY <1>6

\* What the first i picks are.
Picked(items, used, p, i) ==
  /\ p \in Seq(TrashNames) /\ Len(p) = i
  /\ \A j \in 1..i : p[j][1] = items[j].from[2] /\ p[j] \notin used
  /\ \A j, k \in 1..i : p[j] = p[k] => j = k

\* One more name chosen keeps all names of the batch free and different.
LEMMA PickedNext ==
  ASSUME NEW items \in Seq(Moves), NEW used, NEW i \in 1..Len(items), NEW p,
         Picked(items, used, p, i - 1),
         Cardinality(Free(items[i].from[2], used)) >= Len(items)
  PROVE  Picked(items, used, Append(p, FreeName(items[i].from[2], With(used, p, i))), i)
<1> DEFINE name == items[i].from[2]
           x == FreeName(name, With(used, p, i))
           q == Append(p, x)
<1>1. items[i] \in Moves
  OBVIOUS
<1>2. name \in Names
  BY <1>1 DEF Moves, Places
<1>3. i \in Nat \ {0} /\ i <= Len(items) /\ Len(items) \in Nat /\ i - 1 \in Nat
  OBVIOUS
<1>4. p \in Seq(TrashNames) /\ Len(p) = i - 1
  BY DEF Picked
<1>5. Cardinality(Free(name, used)) >= i
  <2>1. IsFiniteSet(1..MaxCopies)
    BY CopiesAssumption, FS_Interval
  <2>2. Cardinality(Free(name, used)) \in Nat
    BY <2>1, FS_Subset, FS_CardinalityType DEF Free
  <2> QED BY <1>3, <2>2
<1> HIDE DEF name
<1>6. Free(name, With(used, p, i)) # {}
  BY <1>2, <1>3, <1>4, <1>5, OneLeft
<1>7. x \in TrashNames /\ x[1] = name /\ x \notin With(used, p, i)
  BY <1>2, <1>6, FreeNameOK
<1> HIDE DEF x
<1>8. q \in Seq(TrashNames) /\ Len(q) = i /\ q[i] = x /\ \A j \in 1..(i - 1) : q[j] = p[j]
  BY <1>3, <1>4, <1>7
<1>q. q = Append(p, x)
  OBVIOUS
<1> HIDE DEF q
<1>9. \A j \in 1..(i - 1) : x # p[j] /\ x \notin used
  BY <1>7 DEF With
<1>10. x \notin used
  BY <1>7 DEF With
<1>11. \A j \in 1..i : j = i \/ j \in 1..(i - 1)
  BY <1>3
<1>12. \A j \in 1..i : q[j][1] = items[j].from[2] /\ q[j] \notin used
  BY <1>7, <1>8, <1>10, <1>11 DEF Picked, name
<1>13. \A j, k \in 1..i : q[j] = q[k] => j = k
  BY <1>8, <1>9, <1>11 DEF Picked
<1>14. Picked(items, used, q, i)
  BY <1>8, <1>12, <1>13 DEF Picked
<1> QED BY <1>14, <1>q DEF x, name

\* Every item of a batch gets a name of its own, under its base name, that is not in use.
LEMMA BatchNamesOK ==
  ASSUME NEW items \in Seq(Moves), NEW used,
         \A i \in DOMAIN items : Cardinality(Free(items[i].from[2], used)) >= Len(items)
  PROVE  Picked(items, used, BatchNames(items, used), Len(items))
<1> DEFINE L == Len(items)
           f == CHOOSE g : Picks(items, used, g, L)
<1>0. L \in Nat /\ DOMAIN items = 1..L
  OBVIOUS
<1>1. BatchNames(items, used) = f[L]
  BY DEF BatchNames, Picks, With
<1>2. Picks(items, used, f, L)
  BY <1>0, PicksExist
<1> HIDE DEF f
<1> DEFINE Bad == {i \in 0..L : ~Picked(items, used, f[i], i)}
<1> SUFFICES ASSUME Bad # {} PROVE FALSE
  BY <1>0, <1>1
<1>3. PICK i \in Bad : \A k \in Bad : i <= k
  <2>1. Bad \in SUBSET Nat
    BY <1>0
  <2> HIDE DEF Bad
  <2> QED BY <2>1, NatMin
<1>4. CASE i = 0
  <2>1. f[0] = <<>>
    BY <1>0, <1>2 DEF Picks
  <2>2. <<>> \in Seq(TrashNames) /\ Len(<<>>) = 0
    OBVIOUS
  <2>3. Picked(items, used, f[0], 0)
    BY <2>1, <2>2 DEF Picked
  <2> QED BY <2>3, <1>4
<1>5. CASE i # 0
  <2>1. i \in 1..L /\ i - 1 \in 0..L /\ ~(i <= i - 1)
    BY <1>0, <1>5
  <2>2. Picked(items, used, f[i - 1], i - 1)
    BY <2>1, <1>3
  <2>3. f[i] = Append(f[i - 1], FreeName(items[i].from[2], With(used, f[i - 1], i)))
    BY <2>1, <1>2, <1>5 DEF Picks
  <2>4. Picked(items, used, f[i], i)
    BY <2>1, <2>2, <2>3, <1>0, PickedNext
  <2> QED BY <2>4
<1> QED BY <1>4, <1>5

-----------------------------------------------------------------------------
(* Steps of one operation *)

\* An action of o leaves the other operations alone.
OnlyOp(o) == OpsOK' /\ \A oo \in Ops \ {o} : op'[oo] = op[oo]

\* A step that replaces one operation's record.
LEMMA OpStep ==
  ASSUME OpsOK, NEW o \in Ops, NEW b, OpOK(b), op' = [op EXCEPT ![o] = b]
  PROVE  OnlyOp(o) /\ op'[o] = b
BY DEF OnlyOp, OpsOK

\* A step that ends the item in hand.
LEMMA DoneOp ==
  ASSUME OpsOK, NEW o \in Ops, NEW ok \in BOOLEAN, op[o].pc \in {"item", "act", "copied"},
         op[o].pc = "item" /\ op[o].kind = "restore" => ~ok,
         op' = [op EXCEPT ![o] = ItemDone(op[o], ok)]
  PROVE  OnlyOp(o) /\ After(op[o], op'[o], ok)
<1>1. OpOK(op[o])
  BY DEF OpsOK
<1>2. OpOK(ItemDone(op[o], ok)) /\ After(op[o], ItemDone(op[o], ok), ok)
  BY <1>1, ItemDoneOK
<1>3. OnlyOp(o) /\ op'[o] = ItemDone(op[o], ok)
  BY <1>2, OpStep
<1> QED BY <1>2, <1>3

\* A step that moves the item in hand on in its script.
LEMMA PcOp ==
  ASSUME OpsOK, NEW o \in Ops, Running(op[o]), NEW pc,
         \/ pc = "act" /\ op[o].pc = "info"
         \/ pc = "copied" /\ op[o].pc = "act" /\ op[o].kind \in Moved,
         op' = [op EXCEPT ![o] = [op[o] EXCEPT !.pc = pc]]
  PROVE  /\ OnlyOp(o) /\ Same(op[o], op'[o]) /\ op'[o].pc = pc /\ op'[o].i = op[o].i
         /\ op'[o].applied = op[o].applied /\ Heeding(op[o], op'[o])
<1> DEFINE e == [op[o] EXCEPT !.pc = pc]
<1>1. OpOK(op[o])
  BY DEF OpsOK
<1>2. OpOK(e) /\ e.pc = pc /\ e.i = op[o].i /\ e.applied = op[o].applied /\ Same(op[o], e)
  BY <1>1, PcOK
<1> HIDE DEF e
<1>3. OnlyOp(o) /\ op'[o] = e
  BY <1>2, OpStep DEF e
<1> QED BY <1>1, <1>2, <1>3, HeedingOK

\* Directories and trash names are different spots.
LEMMA SpotsApart == Places \cap TrashNames = {} /\ Absent \notin Places
BY NamesAssumption DEF Places, TrashNames

\* The spots an operation works on.
LEMMA Spotted ==
  ASSUME OpsOK, NEW o \in Ops, Running(op[o]), op[o].pc # "list"
  PROVE  /\ op[o].kind \notin {"trash", "restore"} =>
              From(o) \in Places /\ To(o) \in Places /\ Item(o).content \in Held
         /\ op[o].kind = "trash" =>
              /\ From(o) \in Places /\ To(o) \in TrashNames /\ Chosen(op[o])
              /\ To(o) = op[o].names[op[o].i] /\ From(o) = op[o].items[op[o].i].from
         /\ op[o].kind = "restore" =>
              /\ From(o) \in TrashNames /\ From(o) = op[o].items[op[o].i] /\ Item(o) = From(o)
              /\ op[o].pc \in {"act", "copied"} => To(o) \in Places
         /\ op[o].pc \in {"act", "copied"} => From(o) \in Spots /\ To(o) \in Spots
<1> DEFINE b == op[o]
<1>1. OpOK(b) /\ b.kind # "none" /\ b \in Operation /\ Where(b)
  BY DEF OpsOK, OpOK, Asked, Running, Idle
<1>2. b.i \in DOMAIN b.items /\ b.pc \in {"info", "item", "act", "copied", "unrecord"}
  BY <1>1 DEF OpOK, Told, Running, Operation
<1>3. CASE b.kind \notin {"trash", "restore"}
  <2>1. b.items \in Seq(Moves)
    BY <1>1, <1>3 DEF OpOK, Asked
  <2>2. Item(o) \in Moves
    BY <1>2, <2>1 DEF Item
  <2>3. From(o) = Item(o).from /\ To(o) = Item(o).to
    BY <1>3 DEF From, To
  <2> QED BY <1>3, <2>2, <2>3 DEF Moves, Spots, Held
<1>4. CASE b.kind = "trash"
  <2>1. b.items \in Seq(Moves)
    BY <1>1, <1>4 DEF OpOK, Asked
  <2>2. Item(o) \in Moves /\ Item(o) = b.items[b.i]
    BY <1>2, <2>1 DEF Item
  <2>3. Chosen(b)
    BY <1>1, <1>2, <1>4 DEF Where, Chosen
  <2>4. b.names \in Seq(TrashNames) /\ b.i \in DOMAIN b.names
    BY <1>1, <1>2, <2>3 DEF Operation, Where
  <2>5. From(o) = Item(o).from /\ To(o) = b.names[b.i]
    BY <1>4 DEF From, To
  <2>6. b.names[b.i] \in TrashNames
    BY <2>4
  <2> QED BY <1>4, <2>2, <2>3, <2>5, <2>6 DEF Moves, Spots
<1>5. CASE b.kind = "restore"
  <2>1. b.items \in Seq(TrashNames)
    BY <1>1, <1>5 DEF OpOK, Asked
  <2>2. Item(o) \in TrashNames /\ Item(o) = b.items[b.i]
    BY <1>2, <2>1 DEF Item
  <2>3. From(o) = Item(o) /\ To(o) = b.records[Item(o)]
    BY <1>5 DEF From, To
  <2>4. b.pc \in {"act", "copied"} => To(o) \in Places
    BY <1>1, <1>5, <2>2, <2>3 DEF Where
  <2> QED BY <1>5, <2>2, <2>3, <2>4 DEF Spots
<1> QED BY <1>3, <1>4, <1>5

-----------------------------------------------------------------------------
(* Every action: what it makes of its operation *)

\* An operation starts with its list or its first item, or ends at once.
LEMMA StartOp ==
  ASSUME TypeOK, NEW o \in Ops, Start(o)
  PROVE  /\ OnlyOp(o) /\ Heeding(op[o], op'[o]) /\ op[o] = Idle
         /\ op'[o].pc \in {"list", "item", "ended"}
         /\ op'[o].kind \in {"trash", "restore"} => op'[o].pc = "list"
         /\ op'[o].applied = {}
<1> DEFINE r == scenario.requests[o]
           b == [Idle EXCEPT !.kind = r.kind, !.items = r.items, !.i = 1]
<1>1. r \in Requests
  BY DEF Start, TypeOK, ScenarioOK
<1>2. op[o] = Idle /\ OpsOK
  BY DEF Start, TypeOK, OpsOK, OpOK, Asked
<1>3. \A e : Heeding(op[o], e)
  BY <1>2 DEF Heeding, Idle
<1>4. /\ b.kind = r.kind /\ b.items = r.items /\ b.i = 1 /\ b.pc = "idle" /\ b.status = "none"
      /\ b.failed = FALSE /\ b.cancelled = FALSE /\ b.applied = {} /\ b.warned = {}
      /\ b.names = <<>> /\ b.records = <<>>
  BY DEF Idle
<1>5. r.items # <<>> /\ r.kind \in MoveKinds \union {"restore"}
      /\ (r.kind \in MoveKinds => r.items \in Seq(Moves))
      /\ (r.kind = "restore" => r.items \in Seq(TrashNames))
  BY <1>1 DEF Requests, MoveKinds, Cancellable, Batches, WindowsBatches
<1>6. b \in Operation
  <2>1. Idle \in Operation
    BY IdleOK DEF OpOK
  <2>2. r.items \in Seq(Moves) \union Seq(TrashNames)
        /\ r.kind \in {"none", "restore"} \union MoveKinds
    BY <1>5
  <2> HIDE DEF r
  <2> QED BY <2>1, <2>2 DEF Operation
<1>7. op' = [op EXCEPT ![o] =
          IF r.kind \in {"trash", "restore"} THEN [b EXCEPT !.pc = "list"] ELSE Proceed(b)]
  BY DEF Start
<1> HIDE DEF r
<1>8. 1 \in DOMAIN b.items
  BY <1>4, <1>5
<1>9. 1..0 = {} /\ 1 - 1 = 0
  OBVIOUS
<1>10. CASE r.kind \in {"trash", "restore"}
  <2> DEFINE e == [b EXCEPT !.pc = "list"]
  <2>1. e \in Operation
    BY <1>6 DEF Operation
  <2>2. /\ e.kind = r.kind /\ e.items = r.items /\ e.i = 1 /\ e.pc = "list" /\ e.status = "none"
        /\ e.failed = FALSE /\ e.cancelled = FALSE /\ e.applied = {} /\ e.warned = {}
    BY <1>6, <1>4 DEF Operation
  <2>3. op' = [op EXCEPT ![o] = e]
    BY <1>7, <1>10
  <2>4. 1 \in DOMAIN e.items
    BY <2>2, <1>4, <1>8
  <2> HIDE DEF e
  <2>5. Asked(e) /\ Where(e)
    BY <1>10, <1>5, <2>2 DEF Asked, Where, Chosen, MoveKinds
  <2>6. Told(e)
    BY <1>9, <1>10, <2>2, <2>4 DEF Told, Running
  <2>7. OpOK(e)
    BY <2>1, <2>5, <2>6 DEF OpOK
  <2> QED BY <1>2, <1>3, <2>2, <2>3, <2>7, OpStep
<1>11. CASE r.kind \notin {"trash", "restore"}
  <2>1. op' = [op EXCEPT ![o] = Proceed(b)]
    BY <1>7, <1>11
  <2>2. 1 \in 1..(Len(b.items) + 1)
    BY <1>4, <1>5
  <2>3. b.kind \notin {"trash", "restore"} /\ b.applied = {}
    BY <1>4, <1>11
  <2> HIDE DEF b
  <2>4. Between(b)
    BY <1>4, <1>5, <1>6, <1>9, <1>11, <2>2 DEF Between
  <2>5. OnlyOp(o) /\ op'[o] = Proceed(b)
    BY <1>2, <2>1, <2>4, ProceedOK, OpStep
  <2>6. Proceed(b).pc \in {"item", "ended"} /\ Proceed(b).applied = {} /\ Same(b, Proceed(b))
    BY <2>3, <2>4, ProceedOK
  <2> QED BY <1>2, <1>3, <2>3, <2>5, <2>6 DEF Same
<1> QED BY <1>10, <1>11

\* Cancelling leaves the item in hand alone.
LEMMA CancelOpOp ==
  ASSUME TypeOK, NEW o \in Ops, CancelOp(o)
  PROVE  /\ OnlyOp(o) /\ Heeding(op[o], op'[o])
         /\ op'[o].pc = op[o].pc /\ op'[o].i = op[o].i /\ op'[o].kind = op[o].kind
         /\ op'[o].items = op[o].items /\ op'[o].names = op[o].names
         /\ op'[o].records = op[o].records /\ op'[o].applied = op[o].applied
         /\ op[o].kind \in Cancellable
<1> DEFINE e == [op[o] EXCEPT !.cancelled = TRUE]
<1>1. OpsOK /\ OpOK(op[o]) /\ op[o].kind \in Cancellable
  BY DEF TypeOK, OpsOK, CancelOp
<1>2. /\ OpOK(e) /\ e.pc = op[o].pc /\ e.i = op[o].i /\ e.kind = op[o].kind
      /\ e.items = op[o].items /\ e.names = op[o].names /\ e.records = op[o].records
      /\ e.applied = op[o].applied
  BY <1>1, CancelledOK
<1>3. op' = [op EXCEPT ![o] = e]
  BY DEF CancelOp
<1> HIDE DEF e
<1>4. OnlyOp(o) /\ op'[o] = e
  BY <1>1, <1>2, <1>3, OpStep
<1> QED BY <1>1, <1>2, <1>4, HeedingOK

\* A script is stopped.
LEMMA StoppedOp ==
  ASSUME TypeOK, NEW o \in Ops, Stopped(o)
  PROVE  /\ OnlyOp(o) /\ Same(op[o], op'[o]) /\ Heeding(op[o], op'[o])
         /\ op'[o].pc \in {"item", "ended"} /\ (op[o].kind \notin Batches => op'[o].pc = "ended")
         /\ op[o].kind = "save" => op'[o].applied = op[o].applied
<1>1. OpsOK /\ OpOK(op[o]) /\ Running(op[o])
  BY DEF TypeOK, OpsOK, Stopped, Running
<1>2. op' = [op EXCEPT ![o] = GivenUp(op[o])]
  BY DEF Stopped
<1>3. OnlyOp(o) /\ op'[o] = GivenUp(op[o])
  BY <1>1, <1>2, GivenUpOK, OpStep
<1> QED BY <1>1, <1>3, GivenUpOK

\* A script goes on with nobody waiting for it.
LEMMA GoesOnOp ==
  ASSUME TypeOK, NEW o \in Ops, NEW q \in Ops, GoesOn(o, q)
  PROVE  /\ OpsOK' /\ o # q /\ \A oo \in Ops \ {o, q} : op'[oo] = op[oo]
         /\ Same(op[o], op'[o]) /\ Heeding(op[o], op'[o])
         /\ op'[o].pc \in {"item", "ended"} /\ (op[o].kind \notin Batches => op'[o].pc = "ended")
         /\ op[o].kind = "save" => op'[o].applied = op[o].applied
         /\ op[q] = Idle /\ Heeding(op[q], op'[q])
         /\ op'[q].kind = op[o].kind /\ op'[q].pc = op[o].pc /\ op'[q].names = op[o].names
         /\ op'[q].records = op[o].records /\ op'[q].items[op'[q].i] = op[o].items[op[o].i]
         /\ op[o].kind = "trash" => op'[q].items = op[o].items /\ op'[q].i = op[o].i
         /\ op[o].kind = "save" => op'[q].applied = {}
<1> DEFINE e == Orphan(op[o])
           g == GivenUp(op[o])
<1>1. OpsOK /\ OpOK(op[o]) /\ Running(op[o]) /\ op[o].pc # "list"
  BY DEF TypeOK, OpsOK, GoesOn, Running
<1>2. op[q] = Idle
  BY <1>1 DEF GoesOn, OpsOK, OpOK, Asked
<1>3. o # q
  BY <1>1, <1>2 DEF Running, Idle
<1>4. OpOK(g)
  BY <1>1, GivenUpOK
<1>5. OpOK(e)
  BY <1>1, OrphanOK
<1>6. op' = [op EXCEPT ![o] = g, ![q] = e]
  BY DEF GoesOn
<1> HIDE DEF e, g
<1>7. OpsOK' /\ op'[o] = g /\ op'[q] = e /\ \A oo \in Ops \ {o, q} : op'[oo] = op[oo]
  BY <1>1, <1>3, <1>4, <1>5, <1>6 DEF OpsOK
<1>8. Heeding(op[q], op'[q])
  BY <1>2 DEF Heeding, Idle
<1> QED BY <1>1, <1>2, <1>3, <1>7, <1>8, GivenUpOK, OrphanOK DEF e, g

\* The item in hand of o ended, well or not.
Concludes(o, ok) == OnlyOp(o) /\ After(op[o], op'[o], ok)

\* A look leads to the item's work, or ends the item.
LEMMA LookOp ==
  ASSUME TypeOK, NEW o \in Ops, Look(o)
  PROVE  /\ OnlyOp(o) /\ Same(op[o], op'[o]) /\ Heeding(op[o], op'[o])
         /\ op[o].pc = "item" /\ op[o].kind \notin {"trash", "remove", "save"}
         /\ op'[o].pc \in {"item", "act", "ended"}
<1>1. OpsOK /\ OpOK(op[o]) /\ op[o].pc = "item" /\ op[o].kind \notin {"remove", "save"}
  BY DEF TypeOK, OpsOK, Look
<1>2. op[o].kind # "trash" /\ Running(op[o])
  BY <1>1 DEF OpOK, Where, Running
<1>3. CASE Clear(o)
  <2> DEFINE e == [op[o] EXCEPT !.pc = "act", !.found = Absent]
  <2>1. files[To(o)] = Absent /\ (op[o].kind = "restore" => op[o].records[op[o].items[op[o].i]] # Absent)
    BY <1>3 DEF Clear, Item
  <2>2. op' = [op EXCEPT ![o] = e]
    BY <1>3, <2>1 DEF Look
  <2>3. OpOK(e) /\ e.pc = "act" /\ e.i = op[o].i /\ Same(op[o], e)
    BY <1>1, <2>1, LookedOK
  <2> HIDE DEF e
  <2>4. OnlyOp(o) /\ op'[o] = e
    BY <1>1, <2>2, <2>3, OpStep
  <2> QED BY <1>1, <1>2, <2>3, <2>4, HeedingOK
<1>4. CASE ~Clear(o)
  <2>1. op' = [op EXCEPT ![o] = ItemDone(op[o], FALSE)]
    BY <1>4 DEF Look
  <2>2. OnlyOp(o) /\ After(op[o], op'[o], FALSE)
    BY <1>1, <2>1, DoneOp
  <2> QED BY <1>1, <1>2, <2>2 DEF After
<1> QED BY <1>3, <1>4

\* A rename: the file is at its new place, or nothing happened.
LEMMA RenameOp ==
  ASSUME TypeOK, NEW o \in Ops, RenameItem(o)
  PROVE  /\ op[o].pc = "act" /\ op[o].kind \in Moved
         /\ UNCHANGED <<info, given, contested>>
         /\ \/ /\ Concludes(o, TRUE)
               /\ files[From(o)] # Absent /\ From(o) # To(o)
               /\ files' = [files EXCEPT ![To(o)] = files[From(o)], ![From(o)] = Absent]
               /\ Replaced(o) /\ Arrives(o)
            \/ Concludes(o, FALSE) /\ UNCHANGED <<files, raced, stale, cameFrom>>
<1>1. OpsOK /\ op[o].pc = "act" /\ op[o].kind \in Moved /\ UNCHANGED <<info, given, contested>>
  BY DEF TypeOK, RenameItem, Renames, Moving, Moved
<1>2. CASE op' = [op EXCEPT ![o] = ItemDone(@, TRUE)]
            /\ files[From(o)] # Absent /\ From(o) # To(o)
            /\ files' = [files EXCEPT ![To(o)] = files[From(o)], ![From(o)] = Absent]
            /\ Replaced(o) /\ Arrives(o)
  <2>1. Concludes(o, TRUE)
    BY <1>1, <1>2, DoneOp DEF Concludes
  <2> QED BY <1>1, <1>2, <2>1
<1>3. CASE op' = [op EXCEPT ![o] = ItemDone(@, FALSE)] /\ UNCHANGED <<files, raced, stale, cameFrom>>
  <2>1. Concludes(o, FALSE)
    BY <1>1, <1>3, DoneOp DEF Concludes
  <2> QED BY <1>1, <1>3, <2>1
<1> QED BY <1>2, <1>3 DEF RenameItem

\* A copy carried out: the source of a move is still to be removed.
LEMMA CopyOp ==
  ASSUME TypeOK, NEW o \in Ops, CopyItem(o)
  PROVE  /\ op[o].pc = "act" /\ files[From(o)] # Absent /\ From(o) # To(o)
         /\ UNCHANGED <<info, given, contested>>
         /\ files' = [files EXCEPT ![To(o)] = files[From(o)]]
         /\ Replaced(o) /\ Arrives(o)
         /\ \/ Concludes(o, TRUE) /\ op[o].kind \notin Moved
            \/ /\ OnlyOp(o) /\ Same(op[o], op'[o]) /\ Heeding(op[o], op'[o])
               /\ op'[o].pc = "copied" /\ op'[o].i = op[o].i /\ op[o].kind \in Moved
<1>1. /\ OpsOK /\ op[o].pc = "act" /\ files[From(o)] # Absent /\ From(o) # To(o)
      /\ Running(op[o]) /\ UNCHANGED <<info, given, contested>>
      /\ files' = [files EXCEPT ![To(o)] = files[From(o)]] /\ Replaced(o) /\ Arrives(o)
      /\ op[o].kind \in Moved <=> Moving(o)
  BY DEF TypeOK, CopyItem, Copies, Copyable, Running, Moving, Moved
<1>2. CASE Moving(o)
  <2>1. op' = [op EXCEPT ![o] = [op[o] EXCEPT !.pc = "copied"]]
    BY <1>2 DEF CopyItem
  <2>2. OnlyOp(o) /\ Same(op[o], op'[o]) /\ op'[o].pc = "copied" /\ op'[o].i = op[o].i
        /\ Heeding(op[o], op'[o])
    BY <1>1, <1>2, <2>1, PcOp
  <2> QED BY <1>1, <1>2, <2>2
<1>3. CASE ~Moving(o)
  <2>1. op' = [op EXCEPT ![o] = ItemDone(op[o], TRUE)]
    BY <1>3 DEF CopyItem
  <2>2. Concludes(o, TRUE)
    BY <1>1, <2>1, DoneOp DEF Concludes
  <2> QED BY <1>1, <1>3, <2>2
<1> QED BY <1>2, <1>3

\* A copy that fails: nothing, or something at the destination.
LEMMA CopyFailsOp ==
  ASSUME TypeOK, NEW o \in Ops, CopyFails(o)
  PROVE  /\ op[o].pc = "act" /\ Concludes(o, FALSE)
         /\ UNCHANGED <<info, given, contested>>
         /\ \/ UNCHANGED <<files, raced, stale, cameFrom>>
            \/ /\ \E c \in Held : files' = [files EXCEPT ![To(o)] = c]
               /\ Replaced(o) /\ Arrives(o)
<1>1. OpsOK /\ op[o].pc = "act" /\ UNCHANGED <<info, given, contested>>
  BY DEF TypeOK, CopyFails, Copies
<1>2. op' = [op EXCEPT ![o] = ItemDone(op[o], FALSE)]
  BY DEF CopyFails
<1>3. Concludes(o, FALSE)
  BY <1>1, <1>2, DoneOp DEF Concludes
<1>4. From(o) \in Spots
  BY <1>1, Spotted DEF Running
<1>5. {Partial, files[From(o)]} \subseteq Held
  BY <1>4 DEF TypeOK, FilesOK, Held
<1> QED BY <1>1, <1>3, <1>5 DEF CopyFails

\* An export of which cp only warned goes on as if done.
LEMMA ExportWarnedOp ==
  ASSUME TypeOK, NEW o \in Ops, ExportWarned(o)
  PROVE  /\ op[o].pc = "act" /\ op[o].kind = "export"
         /\ UNCHANGED <<info, given, contested, cameFrom>>
         /\ OnlyOp(o) /\ Same(op[o], op'[o]) /\ Heeding(op[o], op'[o])
         /\ op'[o].pc \in {"item", "ended"}
         /\ \/ UNCHANGED <<files, raced, stale>>
            \/ files' = [files EXCEPT ![To(o)] = files[From(o)]] /\ Replaced(o)
<1> DEFINE b == op[o]
           m == ItemEnded(b, TRUE)
           w == b.warned \union {b.i}
           a == b.applied
           e == [m EXCEPT !.applied = a, !.warned = w]
           p == Proceed(e)
<1>1. OpsOK /\ OpOK(b) /\ b.pc = "act" /\ b.kind = "export" /\ b.kind \in Cancellable /\ Running(b)
  BY DEF TypeOK, OpsOK, ExportWarned, Copies, Running, Cancellable, Batches
<1>2. op' = [op EXCEPT ![o] = p]
  BY DEF ExportWarned
<1>3. Between(m) /\ Same(b, m) /\ m.i = b.i + 1 /\ m.warned = b.warned /\ m.failed = (b.failed \/ ~TRUE)
  BY <1>1, ItemEndedOK
<1>4. b \in Operation /\ b.i \in Nat /\ b.i \in 1..Len(b.items) /\ Len(b.items) \in Nat
      /\ (~b.failed => b.applied \union b.warned = 1..(b.i - 1))
      /\ b.failed \in BOOLEAN
  <2>1. b \in Operation /\ b.i \in DOMAIN b.items /\ (~b.failed => b.applied \union b.warned = 1..(b.i - 1))
    BY <1>1 DEF OpOK, Told
  <2>2. Len(b.items) \in Nat /\ DOMAIN b.items = 1..Len(b.items)
    BY <2>1 DEF Operation
  <2> QED BY <2>1, <2>2 DEF Operation
<1>w. w = b.warned \union {b.i} /\ a = b.applied
  OBVIOUS
<1>5. w \in SUBSET Nat /\ a \in SUBSET Nat
  BY <1>4 DEF Operation
<1> HIDE DEF m, w, a
<1>6. m \in Operation
  BY <1>3 DEF Between
<1>7. e \in Operation
  BY <1>5, <1>6 DEF Operation
<1>8. /\ e.kind = m.kind /\ e.items = m.items /\ e.i = m.i /\ e.status = m.status
      /\ e.cancelled = m.cancelled /\ e.failed = m.failed /\ e.applied = a /\ e.warned = w
      /\ Same(m, e)
  BY <1>6 DEF Operation, Same
<1> HIDE DEF e
<1>9. ~e.failed => e.applied \union e.warned = 1..(e.i - 1)
  <2> SUFFICES ASSUME ~e.failed PROVE e.applied \union e.warned = 1..(e.i - 1)
    OBVIOUS
  <2>1. ~b.failed
    BY <1>3, <1>8
  <2>2. b.applied \union b.warned = 1..(b.i - 1)
    BY <2>1, <1>4
  <2>3. 1..b.i = 1..(b.i - 1) \union {b.i}
    BY <1>4
  <2>4. a \union w = 1..b.i
    BY <2>2, <2>3, <1>w
  <2>5. e.i - 1 = b.i
    BY <1>3, <1>4, <1>8
  <2> QED BY <2>4, <2>5, <1>8
<1>10. Between(e)
  BY <1>3, <1>7, <1>8, <1>9 DEF Between
<1>11. /\ OpOK(p) /\ Same(e, p) /\ p.pc \in {"item", "ended"} /\ p.i = e.i
       /\ e.cancelled /\ e.i <= Len(e.items) => p.status = "cancelled"
  BY <1>10, ProceedOK
<1>12. Same(b, e) /\ e.i = b.i + 1
  BY <1>3, <1>8 DEF Same
<1> HIDE DEF p
<1>13. Same(b, p)
  BY <1>11, <1>12 DEF Same
<1>14. b.i + 1 <= b.i + 1 /\ (b.i < Len(b.items) => b.i + 1 <= Len(b.items))
  BY <1>4
<1>15. Heeding(b, p)
  BY <1>11, <1>12, <1>14 DEF Heeding, Same
<1>16. OnlyOp(o) /\ op'[o] = p
  BY <1>1, <1>2, <1>11, OpStep
<1> QED BY <1>1, <1>11, <1>13, <1>15, <1>16 DEF ExportWarned

\* The second half of a move: the source is gone, or it stays and the item has failed.
LEMMA RemoveSourceOp ==
  ASSUME TypeOK, NEW o \in Ops, RemoveSource(o)
  PROVE  /\ op[o].pc = "copied" /\ op[o].kind \in Moved
         /\ UNCHANGED <<info, given, contested, cameFrom>> /\ stale' = stale \ {o}
         /\ \/ /\ Concludes(o, TRUE)
               /\ files[From(o)] # Absent \/ op[o].kind = "winMove"
               /\ files' = [files EXCEPT ![From(o)] = Absent]
               /\ raced' = IF o \in stale THEN raced \union {files[From(o)]} ELSE raced
            \/ Concludes(o, FALSE) /\ UNCHANGED <<files, raced>>
<1>1. OpsOK /\ op[o].pc = "copied" /\ OpOK(op[o])
      /\ UNCHANGED <<info, given, contested, cameFrom>> /\ stale' = stale \ {o}
  BY DEF TypeOK, RemoveSource, OpsOK
<1>m. op[o].kind \in Moved
  BY <1>1 DEF OpOK, Where
<1>2. CASE op' = [op EXCEPT ![o] = ItemDone(@, TRUE)]
            /\ (files[From(o)] # Absent \/ op[o].kind = "winMove")
            /\ files' = [files EXCEPT ![From(o)] = Absent]
            /\ raced' = IF o \in stale THEN raced \union {files[From(o)]} ELSE raced
  <2>1. Concludes(o, TRUE)
    BY <1>1, <1>2, DoneOp DEF Concludes
  <2> QED BY <1>1, <1>m, <1>2, <2>1
<1>3. CASE op' = [op EXCEPT ![o] = ItemDone(@, FALSE)] /\ UNCHANGED <<files, raced>>
  <2>1. Concludes(o, FALSE)
    BY <1>1, <1>3, DoneOp DEF Concludes
  <2> QED BY <1>1, <1>m, <1>3, <2>1
<1> QED BY <1>2, <1>3 DEF RemoveSource

\* An empty file is there, or nothing happened.
LEMMA CreateFileOp ==
  ASSUME TypeOK, NEW o \in Ops, CreateFile(o)
  PROVE  /\ op[o].pc = "act" /\ op[o].kind = "create"
         /\ UNCHANGED <<info, given, contested, cameFrom>>
         /\ \/ Concludes(o, TRUE) /\ files' = [files EXCEPT ![To(o)] = Item(o).content] /\ Replaced(o)
            \/ Concludes(o, FALSE) /\ UNCHANGED <<files, raced, stale>>
<1>1. OpsOK /\ op[o].pc = "act" /\ op[o].kind = "create"
      /\ UNCHANGED <<info, given, contested, cameFrom>>
  BY DEF TypeOK, CreateFile
<1>2. CASE op' = [op EXCEPT ![o] = ItemDone(@, TRUE)]
            /\ files' = [files EXCEPT ![To(o)] = Item(o).content] /\ Replaced(o)
  <2>1. Concludes(o, TRUE)
    BY <1>1, <1>2, DoneOp DEF Concludes
  <2> QED BY <1>1, <1>2, <2>1
<1>3. CASE op' = [op EXCEPT ![o] = ItemDone(@, FALSE)] /\ UNCHANGED <<files, raced, stale>>
  <2>1. Concludes(o, FALSE)
    BY <1>1, <1>3, DoneOp DEF Concludes
  <2> QED BY <1>1, <1>3, <2>1
<1> QED BY <1>2, <1>3 DEF CreateFile

\* A file is deleted for good, or nothing happened.
LEMMA RemoveItemOp ==
  ASSUME TypeOK, NEW o \in Ops, RemoveItem(o)
  PROVE  /\ op[o].pc = "item" /\ op[o].kind = "remove"
         /\ UNCHANGED <<info, raced, stale, contested, cameFrom>>
         /\ \/ /\ Concludes(o, TRUE)
               /\ files' = [files EXCEPT ![From(o)] = Absent]
               /\ given' = given \union {files[From(o)]}
            \/ Concludes(o, FALSE) /\ UNCHANGED <<files, given>>
<1>1. OpsOK /\ op[o].pc = "item" /\ op[o].kind = "remove"
      /\ UNCHANGED <<info, raced, stale, contested, cameFrom>>
  BY DEF TypeOK, RemoveItem
<1>2. CASE op' = [op EXCEPT ![o] = ItemDone(@, TRUE)]
            /\ files' = [files EXCEPT ![From(o)] = Absent]
            /\ given' = given \union {files[From(o)]}
  <2>1. Concludes(o, TRUE)
    BY <1>1, <1>2, DoneOp DEF Concludes
  <2> QED BY <1>1, <1>2, <2>1
<1>3. CASE op' = [op EXCEPT ![o] = ItemDone(@, FALSE)] /\ UNCHANGED <<files, given>>
  <2>1. Concludes(o, FALSE)
    BY <1>1, <1>3, DoneOp DEF Concludes
  <2> QED BY <1>1, <1>3, <2>1
<1> QED BY <1>2, <1>3 DEF RemoveItem

\* A text is saved over what was there, or nothing happened.
LEMMA SaveFileOp ==
  ASSUME TypeOK, NEW o \in Ops, SaveFile(o)
  PROVE  /\ op[o].pc = "item" /\ op[o].kind = "save"
         /\ UNCHANGED <<info, raced, contested, cameFrom>>
         /\ \/ /\ Concludes(o, TRUE)
               /\ files' = [files EXCEPT ![To(o)] = Item(o).content]
               /\ given' = given \union {files[To(o)]}
               /\ Touched(To(o))
            \/ Concludes(o, FALSE) /\ UNCHANGED <<files, given, stale>>
<1>1. OpsOK /\ op[o].pc = "item" /\ op[o].kind = "save"
      /\ UNCHANGED <<info, raced, contested, cameFrom>>
  BY DEF TypeOK, SaveFile
<1>2. CASE op' = [op EXCEPT ![o] = ItemDone(@, TRUE)]
            /\ files' = [files EXCEPT ![To(o)] = Item(o).content]
            /\ given' = given \union {files[To(o)]}
            /\ Touched(To(o))
  <2>1. Concludes(o, TRUE)
    BY <1>1, <1>2, DoneOp DEF Concludes
  <2> QED BY <1>1, <1>2, <2>1
<1>3. CASE op' = [op EXCEPT ![o] = ItemDone(@, FALSE)] /\ UNCHANGED <<files, given, stale>>
  <2>1. Concludes(o, FALSE)
    BY <1>1, <1>3, DoneOp DEF Concludes
  <2> QED BY <1>1, <1>3, <2>1
<1> QED BY <1>2, <1>3 DEF SaveFile

\* A trash batch has chosen a name of its own for each item.
LEMMA ListForTrashOp ==
  ASSUME TypeOK, NEW o \in Ops, ListForTrash(o)
  PROVE  /\ OnlyOp(o) /\ Heeding(op[o], op'[o])
         /\ op[o].pc = "list" /\ op[o].kind = "trash"
         /\ op'[o].pc = "info" /\ op'[o].kind = "trash"
         /\ op'[o].items = op[o].items /\ op'[o].names = BatchNames(op[o].items, Taken)
         /\ Picked(op[o].items, Taken, op'[o].names, Len(op[o].items))
<1> DEFINE b == op[o]
           n == BatchNames(b.items, Taken)
           e == [b EXCEPT !.pc = "info", !.names = n]
<1>1. OpsOK /\ OpOK(b) /\ b.kind = "trash" /\ b.pc = "list" /\ b.items \in Seq(Moves)
  BY DEF TypeOK, OpsOK, ListForTrash, OpOK, Asked
<1>2. Picked(b.items, Taken, n, Len(b.items))
  <2>1. \A i \in DOMAIN b.items : Cardinality(Free(b.items[i].from[2], Taken)) >= Len(b.items)
    BY DEF ListForTrash, Room, Free
  <2> QED BY <1>1, <2>1, BatchNamesOK
<1>3. n \in Seq(TrashNames) /\ DOMAIN n = DOMAIN b.items
  <2>1. n \in Seq(TrashNames) /\ Len(n) = Len(b.items)
    BY <1>2 DEF Picked
  <2> HIDE DEF n
  <2> QED BY <1>1, <2>1
<1>4. op' = [op EXCEPT ![o] = e]
  BY <1>1 DEF ListForTrash, OpsOK
<1>n. n = BatchNames(b.items, Taken)
  OBVIOUS
<1> HIDE DEF n
<1>5. b \in Operation
  BY <1>1 DEF OpOK
<1>6. e \in Operation
  BY <1>3, <1>5 DEF Operation
<1>7. /\ e.pc = "info" /\ e.status = b.status /\ e.i = b.i /\ e.kind = b.kind /\ e.items = b.items
      /\ e.cancelled = b.cancelled /\ e.failed = b.failed
      /\ e.applied = b.applied /\ e.warned = b.warned /\ e.names = n
  BY <1>5 DEF Operation
<1> HIDE DEF e
<1>8. Asked(e) /\ Where(e) /\ Told(e)
  BY <1>1, <1>3, <1>7 DEF OpOK, Asked, Where, Chosen, Told, Running
<1>9. OnlyOp(o) /\ op'[o] = e
  BY <1>1, <1>4, <1>6, <1>8, OpStep DEF OpOK
<1> QED BY <1>1, <1>2, <1>7, <1>9, <1>n, HeedingOK

\* The record of a trash item is written before the item moves.
LEMMA WriteInfoOp ==
  ASSUME TypeOK, NEW o \in Ops, WriteInfo(o)
  PROVE  /\ OnlyOp(o) /\ Same(op[o], op'[o]) /\ Heeding(op[o], op'[o])
         /\ op[o].kind = "trash" /\ op[o].pc = "info"
         /\ op'[o].pc = "act" /\ op'[o].i = op[o].i
<1>1. OpsOK /\ Running(op[o]) /\ op[o].pc = "info" /\ op[o].kind = "trash"
  BY DEF TypeOK, WriteInfo, Running
<1>2. op' = [op EXCEPT ![o] = [op[o] EXCEPT !.pc = "act"]]
  BY <1>1 DEF WriteInfo, OpsOK
<1> QED BY <1>1, <1>2, PcOp

\* A restore has read all the records.
LEMMA ListForRestoreOp ==
  ASSUME TypeOK, NEW o \in Ops, ListForRestore(o)
  PROVE  /\ OnlyOp(o) /\ Heeding(op[o], op'[o])
         /\ op[o].kind = "restore" /\ op[o].pc = "list"
         /\ op'[o].kind = "restore" /\ op'[o].pc = "item"
<1> DEFINE b == op[o]
           e == [b EXCEPT !.pc = "item", !.records = info]
<1>1. OpsOK /\ OpOK(b) /\ b.kind = "restore" /\ b.pc = "list" /\ b \in Operation
  BY DEF TypeOK, OpsOK, ListForRestore, OpOK
<1>2. info \in [TrashNames -> Places \union {Absent}]
  BY DEF TypeOK, TrashOK
<1>4. op' = [op EXCEPT ![o] = e]
  BY <1>1 DEF ListForRestore, OpsOK
<1>6. e \in Operation
  BY <1>1, <1>2 DEF Operation
<1>7. /\ e.pc = "item" /\ e.status = b.status /\ e.i = b.i /\ e.kind = b.kind /\ e.items = b.items
      /\ e.cancelled = b.cancelled /\ e.failed = b.failed
      /\ e.applied = b.applied /\ e.warned = b.warned /\ e.records = info
  BY <1>1 DEF Operation
<1> HIDE DEF e
<1>8. Asked(e) /\ Where(e) /\ Told(e)
  BY <1>1, <1>2, <1>7 DEF OpOK, Asked, Where, Chosen, Told, Running
<1>9. OnlyOp(o) /\ op'[o] = e
  BY <1>1, <1>4, <1>6, <1>8, OpStep DEF OpOK
<1> QED BY <1>1, <1>7, <1>9, HeedingOK

\* After the record is gone: the next item, or the end.
LEMMA RemoveInfoOp ==
  ASSUME TypeOK, NEW o \in Ops, RemoveInfo(o)
  PROVE  /\ OnlyOp(o) /\ Same(op[o], op'[o]) /\ Heeding(op[o], op'[o])
         /\ op[o].kind \in {"trash", "restore"} /\ op[o].pc = "unrecord"
         /\ op[o].kind = "trash" =>
              op'[o].pc = "ended" \/ (op'[o].pc = "info" /\ op'[o].i = op[o].i + 1)
         /\ op[o].kind = "restore" => op'[o].pc \in {"item", "ended"}
<1> DEFINE b == op[o]
<1>1. OpsOK /\ OpOK(b) /\ b.pc = "unrecord" /\ Running(b)
  BY DEF TypeOK, OpsOK, RemoveInfo, Running
<1>2. b.kind \in {"trash", "restore"} /\ b \in Operation
  BY <1>1 DEF OpOK, Where
<1>h. \A e : Heeding(b, e)
  BY <1>1, <1>2, HeedingOK DEF Cancellable, Batches, WindowsBatches
<1>3. CASE b.kind = "trash"
  <2> DEFINE e == OnTo(b, "info")
  <2>1. op' = [op EXCEPT ![o] = e]
    BY <1>3 DEF RemoveInfo
  <2>2. Handled(b)
    BY <1>1, <1>2, <1>3 DEF OpOK, Told, Handled
  <2>3. Chosen(b) /\ DOMAIN b.names = DOMAIN b.items
    BY <1>1, <1>3 DEF OpOK, Where, Chosen
  <2>4. /\ OpOK(e) /\ Same(b, e)
        /\ e.pc = "ended" \/ (e.pc = "info" /\ e.i = b.i + 1)
    BY <2>2, <2>3, OnToOK
  <2> HIDE DEF e
  <2>5. OnlyOp(o) /\ op'[o] = e
    BY <1>1, <2>1, <2>4, OpStep
  <2> QED BY <1>h, <1>1, <1>3, <2>4, <2>5
<1>4. CASE b.kind = "restore"
  <2> DEFINE a == Applied(b)
             e == OnTo(a, "item")
  <2>1. op' = [op EXCEPT ![o] = e]
    BY <1>4 DEF RemoveInfo
  <2>2. Handled(a) /\ Same(b, a)
    BY <1>1, AppliedOK
  <2>3. b.records \in [TrashNames -> Places \union {Absent}]
    BY <1>1, <1>4 DEF OpOK, Where
  <2> HIDE DEF a
  <2>4. a.kind = "restore" /\ a.records \in [TrashNames -> Places \union {Absent}]
    BY <1>4, <2>2, <2>3 DEF Same
  <2>5. OpOK(e) /\ Same(a, e) /\ e.pc \in {"item", "ended"}
    BY <2>2, <2>4, OnToOK
  <2> HIDE DEF e
  <2>6. OnlyOp(o) /\ op'[o] = e /\ Same(b, e)
    BY <1>1, <2>1, <2>2, <2>5, OpStep DEF Same
  <2> QED BY <1>h, <1>1, <1>4, <2>5, <2>6
<1> QED BY <1>2, <1>3, <1>4

\* Every action of one operation keeps all operations well formed and heeds a cancel.
LEMMA ActionOp ==
  ASSUME TypeOK, NEW o \in Ops, Start(o) \/ Step(o) \/ CancelOp(o) \/ Stopped(o)
  PROVE  OnlyOp(o) /\ Heeding(op[o], op'[o])
<1>1. CASE Start(o)
  BY <1>1, StartOp
<1>2. CASE CancelOp(o)
  BY <1>2, CancelOpOp
<1>3. CASE Stopped(o)
  BY <1>3, StoppedOp
<1>4. CASE Look(o)
  BY <1>4, LookOp
<1>5. CASE RenameItem(o)
  BY <1>5, RenameOp DEF Concludes, After
<1>6. CASE CopyItem(o)
  BY <1>6, CopyOp DEF Concludes, After
<1>7. CASE CopyFails(o)
  BY <1>7, CopyFailsOp DEF Concludes, After
<1>8. CASE ExportWarned(o)
  BY <1>8, ExportWarnedOp
<1>9. CASE RemoveSource(o)
  BY <1>9, RemoveSourceOp DEF Concludes, After
<1>10. CASE CreateFile(o)
  BY <1>10, CreateFileOp DEF Concludes, After
<1>11. CASE RemoveItem(o)
  BY <1>11, RemoveItemOp DEF Concludes, After
<1>12. CASE SaveFile(o)
  BY <1>12, SaveFileOp DEF Concludes, After
<1>13. CASE ListForTrash(o)
  BY <1>13, ListForTrashOp
<1>14. CASE WriteInfo(o)
  BY <1>14, WriteInfoOp
<1>15. CASE ListForRestore(o)
  BY <1>15, ListForRestoreOp
<1>16. CASE RemoveInfo(o)
  BY <1>16, RemoveInfoOp
<1> QED BY <1>1, <1>2, <1>3, <1>4, <1>5, <1>6, <1>7, <1>8, <1>9, <1>10, <1>11, <1>12, <1>13,
           <1>14, <1>15, <1>16 DEF Step

-----------------------------------------------------------------------------
(* The type invariant *)

\* The bounds on faults and cancels only shrink.
LEMMA BudgetOK ==
  ASSUME ScenarioOK,
         \/ NoFault
         \/ Fault
         \/ scenario.cancels > 0 /\ scenario' = [scenario EXCEPT !.cancels = @ - 1]
  PROVE  ScenarioOK' /\ scenario'.files = scenario.files /\ scenario'.requests = scenario.requests
<1>1. CASE NoFault
  BY <1>1 DEF NoFault, ScenarioOK
<1>2. CASE Fault
  <2> DEFINE n == scenario.faults - 1
  <2>1. n \in Nat
    BY <1>2 DEF Fault, ScenarioOK
  <2>2. scenario' = [scenario EXCEPT !.faults = n]
    BY <1>2 DEF Fault
  <2> HIDE DEF n
  <2> QED BY <2>1, <2>2 DEF ScenarioOK
<1>3. CASE scenario.cancels > 0 /\ scenario' = [scenario EXCEPT !.cancels = @ - 1]
  <2> DEFINE n == scenario.cancels - 1
  <2>1. n \in Nat
    BY <1>3 DEF ScenarioOK
  <2>2. scenario' = [scenario EXCEPT !.cancels = n]
    BY <1>3
  <2> HIDE DEF n
  <2> QED BY <2>1, <2>2 DEF ScenarioOK
<1> QED BY <1>1, <1>2, <1>3

\* What every step makes of the bounds.
LEMMA BudgetNext ==
  ASSUME TypeOK, Next
  PROVE  ScenarioOK' /\ scenario'.files = scenario.files /\ scenario'.requests = scenario.requests
<1>1. PICK o \in Ops : Start(o) \/ Step(o) \/ CancelOp(o) \/ Stopped(o) \/ \E q \in Ops : GoesOn(o, q)
  BY DEF Next
<1>2. \/ NoFault
      \/ Fault
      \/ scenario.cancels > 0 /\ scenario' = [scenario EXCEPT !.cancels = @ - 1]
  <2>1. CASE Start(o)
    BY <2>1 DEF Start, NoFault
  <2>2. CASE CancelOp(o)
    BY <2>2 DEF CancelOp
  <2>3. CASE Stopped(o) \/ \E q \in Ops : GoesOn(o, q)
    BY <2>3 DEF Stopped, GoesOn
  <2>4. CASE Look(o) \/ ListForTrash(o) \/ WriteInfo(o) \/ ListForRestore(o) \/ RemoveInfo(o)
    BY <2>4 DEF Look, ListForTrash, WriteInfo, ListForRestore, RemoveInfo, NoFault
  <2>5. CASE RenameItem(o)
    BY <2>5 DEF RenameItem
  <2>6. CASE CopyItem(o) \/ CopyFails(o) \/ ExportWarned(o)
    BY <2>6 DEF CopyItem, CopyFails, ExportWarned
  <2>7. CASE RemoveSource(o)
    BY <2>7 DEF RemoveSource
  <2>8. CASE CreateFile(o) \/ RemoveItem(o) \/ SaveFile(o)
    BY <2>8 DEF CreateFile, RemoveItem, SaveFile
  <2> QED BY <1>1, <2>1, <2>2, <2>3, <2>4, <2>5, <2>6, <2>7, <2>8 DEF Step
<1>3. ScenarioOK
  BY DEF TypeOK
<1> QED BY <1>2, <1>3, BudgetOK

\* What is replaced at a destination was held by a file.
LEMMA ReplacedOK ==
  ASSUME TypeOK, NEW o \in Ops, op[o].pc = "act", Replaced(o), UNCHANGED <<given, contested>>
  PROVE  PastOK'
<1>1. To(o) \in Spots
  BY Spotted DEF TypeOK, Running
<1>2. files[To(o)] \in Held
  BY <1>1 DEF TypeOK, FilesOK
<1>3. raced' \subseteq Held
  BY <1>2 DEF TypeOK, PastOK, Replaced
<1>4. stale' \subseteq Ops
  BY DEF TypeOK, PastOK, Replaced, Touched, Copiers
<1> QED BY <1>3, <1>4 DEF TypeOK, PastOK

\* What comes to the trash came from a directory.
LEMMA ArrivesOK ==
  ASSUME TypeOK, NEW o \in Ops, op[o].pc = "act", Arrives(o), UNCHANGED info
  PROVE  TrashOK'
<1>1. CASE op[o].kind = "trash"
  <2>1. To(o) \in TrashNames /\ From(o) \in Places
    BY <1>1, Spotted DEF TypeOK, Running
  <2> QED BY <1>1, <2>1 DEF TypeOK, TrashOK, Arrives
<1>2. CASE op[o].kind # "trash"
  BY <1>2 DEF TypeOK, TrashOK, Arrives
<1> QED BY <1>1, <1>2

\* The data after a step of one operation.
DataOK == FilesOK' /\ TrashOK' /\ PastOK'

\* Files, records and the history keep their types, whatever the scripts do.
LEMMA QuietData ==
  ASSUME TypeOK, UNCHANGED <<files, info, given, raced, contested, cameFrom>>, stale' \subseteq Ops
  PROVE  DataOK
BY DEF DataOK, TypeOK, FilesOK, TrashOK, PastOK

\* A rename.
LEMMA RenameData == ASSUME TypeOK, NEW o \in Ops, RenameItem(o) PROVE DataOK
<1>1. op[o].pc = "act" /\ UNCHANGED <<info, given, contested>>
  BY RenameOp
<1>2. From(o) \in Spots /\ To(o) \in Spots /\ files[From(o)] \in Held /\ Absent \in Held
  <2>1. From(o) \in Spots /\ To(o) \in Spots
    BY <1>1, Spotted DEF TypeOK, Running
  <2> QED BY <2>1 DEF TypeOK, FilesOK, Held
<1>3. CASE UNCHANGED <<files, raced, stale, cameFrom>>
  BY <1>1, <1>3, QuietData DEF TypeOK, PastOK
<1>4. CASE /\ files' = [files EXCEPT ![To(o)] = files[From(o)], ![From(o)] = Absent]
           /\ Replaced(o) /\ Arrives(o)
  <2>1. FilesOK'
    BY <1>2, <1>4 DEF TypeOK, FilesOK
  <2> QED BY <1>1, <1>4, <2>1, ReplacedOK, ArrivesOK DEF DataOK
<1> QED BY <1>3, <1>4, RenameOp

\* A copy.
LEMMA CopyData == ASSUME TypeOK, NEW o \in Ops, CopyItem(o) PROVE DataOK
<1>1. /\ op[o].pc = "act" /\ UNCHANGED <<info, given, contested>>
      /\ files' = [files EXCEPT ![To(o)] = files[From(o)]] /\ Replaced(o) /\ Arrives(o)
  BY CopyOp
<1>2. From(o) \in Spots /\ To(o) \in Spots
  BY <1>1, Spotted DEF TypeOK, Running
<1>3. FilesOK'
  BY <1>1, <1>2 DEF TypeOK, FilesOK
<1> QED BY <1>1, <1>3, ReplacedOK, ArrivesOK DEF DataOK

\* A copy that fails.
LEMMA CopyFailsData == ASSUME TypeOK, NEW o \in Ops, CopyFails(o) PROVE DataOK
<1>1. op[o].pc = "act" /\ UNCHANGED <<info, given, contested>>
  BY CopyFailsOp
<1>3. CASE UNCHANGED <<files, raced, stale, cameFrom>>
  BY <1>1, <1>3, QuietData DEF TypeOK, PastOK
<1>4. CASE (\E c \in Held : files' = [files EXCEPT ![To(o)] = c]) /\ Replaced(o) /\ Arrives(o)
  <2>1. FilesOK'
    BY <1>4 DEF TypeOK, FilesOK
  <2> QED BY <1>1, <1>4, <2>1, ReplacedOK, ArrivesOK DEF DataOK
<1> QED BY <1>3, <1>4, CopyFailsOp

\* An export of which cp only warned.
LEMMA ExportWarnedData == ASSUME TypeOK, NEW o \in Ops, ExportWarned(o) PROVE DataOK
<1>1. op[o].pc = "act" /\ UNCHANGED <<info, given, contested, cameFrom>>
  BY ExportWarnedOp
<1>3. CASE UNCHANGED <<files, raced, stale>>
  BY <1>1, <1>3, QuietData DEF TypeOK, PastOK
<1>4. CASE files' = [files EXCEPT ![To(o)] = files[From(o)]] /\ Replaced(o)
  <2>1. From(o) \in Spots
    BY <1>1, Spotted DEF TypeOK, Running
  <2>2. FilesOK'
    BY <1>4, <2>1 DEF TypeOK, FilesOK
  <2>3. TrashOK'
    BY <1>1 DEF TypeOK, TrashOK
  <2> QED BY <1>1, <1>4, <2>2, <2>3, ReplacedOK DEF DataOK
<1> QED BY <1>3, <1>4, ExportWarnedOp

\* The end of a move.
LEMMA RemoveSourceData == ASSUME TypeOK, NEW o \in Ops, RemoveSource(o) PROVE DataOK
<1>1. op[o].pc = "copied" /\ UNCHANGED <<info, given, contested, cameFrom>> /\ stale' = stale \ {o}
  BY RemoveSourceOp
<1>2. From(o) \in Spots
  BY <1>1, Spotted DEF TypeOK, Running
<1>3. files[From(o)] \in Held /\ Absent \in Held
  BY <1>2 DEF TypeOK, FilesOK, Held
<1>4. files' = [files EXCEPT ![From(o)] = Absent] \/ UNCHANGED files
  BY RemoveSourceOp
<1>5. raced' \subseteq raced \union {files[From(o)]}
  BY RemoveSourceOp
<1>6. FilesOK'
  BY <1>3, <1>4 DEF TypeOK, FilesOK
<1>7. PastOK'
  BY <1>1, <1>3, <1>5 DEF TypeOK, PastOK
<1>8. TrashOK'
  BY <1>1 DEF TypeOK, TrashOK
<1> QED BY <1>6, <1>7, <1>8 DEF DataOK

\* An empty file.
LEMMA CreateFileData == ASSUME TypeOK, NEW o \in Ops, CreateFile(o) PROVE DataOK
<1>1. op[o].pc = "act" /\ op[o].kind = "create" /\ UNCHANGED <<info, given, contested, cameFrom>>
  BY CreateFileOp
<1>3. CASE UNCHANGED <<files, raced, stale>>
  BY <1>1, <1>3, QuietData DEF TypeOK, PastOK
<1>4. CASE files' = [files EXCEPT ![To(o)] = Item(o).content] /\ Replaced(o)
  <2>1. Item(o).content \in Held
    BY <1>1, Spotted DEF TypeOK, Running
  <2>2. FilesOK'
    BY <1>4, <2>1 DEF TypeOK, FilesOK
  <2>3. TrashOK'
    BY <1>1 DEF TypeOK, TrashOK
  <2> QED BY <1>1, <1>4, <2>2, <2>3, ReplacedOK DEF DataOK
<1> QED BY <1>3, <1>4, CreateFileOp

\* A permanent deletion.
LEMMA RemoveItemData == ASSUME TypeOK, NEW o \in Ops, RemoveItem(o) PROVE DataOK
<1>1. /\ op[o].pc = "item" /\ op[o].kind = "remove"
      /\ UNCHANGED <<info, raced, stale, contested, cameFrom>>
  BY RemoveItemOp
<1>2. From(o) \in Spots
  BY <1>1, Spotted DEF TypeOK, Running, Spots
<1>3. files[From(o)] \in Held /\ Absent \in Held
  BY <1>2 DEF TypeOK, FilesOK, Held
<1>4. files' = [files EXCEPT ![From(o)] = Absent] \/ UNCHANGED files
  BY RemoveItemOp
<1>5. given' \subseteq given \union {files[From(o)]}
  BY RemoveItemOp
<1>6. FilesOK'
  BY <1>3, <1>4 DEF TypeOK, FilesOK
<1>7. PastOK'
  BY <1>1, <1>3, <1>5 DEF TypeOK, PastOK
<1>8. TrashOK'
  BY <1>1 DEF TypeOK, TrashOK
<1> QED BY <1>6, <1>7, <1>8 DEF DataOK

\* A save.
LEMMA SaveFileData == ASSUME TypeOK, NEW o \in Ops, SaveFile(o) PROVE DataOK
<1>1. /\ op[o].pc = "item" /\ op[o].kind = "save"
      /\ UNCHANGED <<info, raced, contested, cameFrom>>
  BY SaveFileOp
<1>2. To(o) \in Spots /\ Item(o).content \in Held
  BY <1>1, Spotted DEF TypeOK, Running, Spots
<1>3. files[To(o)] \in Held
  BY <1>2 DEF TypeOK, FilesOK
<1>4. files' = [files EXCEPT ![To(o)] = Item(o).content] \/ UNCHANGED files
  BY SaveFileOp
<1>5. given' \subseteq given \union {files[To(o)]}
  BY SaveFileOp
<1>s. stale' \subseteq Ops
  BY SaveFileOp DEF TypeOK, PastOK, Touched, Copiers
<1>6. FilesOK'
  BY <1>2, <1>4 DEF TypeOK, FilesOK
<1>7. PastOK'
  BY <1>1, <1>3, <1>5, <1>s DEF TypeOK, PastOK
<1>8. TrashOK'
  BY <1>1 DEF TypeOK, TrashOK
<1> QED BY <1>6, <1>7, <1>8 DEF DataOK

\* The choice of names in the trash.
LEMMA ListForTrashData == ASSUME TypeOK, NEW o \in Ops, ListForTrash(o) PROVE DataOK
<1>1. UNCHANGED <<files, info, given, raced, stale, cameFrom>>
  BY DEF ListForTrash
<1>2. contested' \subseteq TrashNames
  BY DEF ListForTrash, TypeOK, PastOK
<1> QED BY <1>1, <1>2 DEF DataOK, TypeOK, FilesOK, TrashOK, PastOK

\* The record of an item.
LEMMA WriteInfoData == ASSUME TypeOK, NEW o \in Ops, WriteInfo(o) PROVE DataOK
<1>1. op[o].kind = "trash" /\ op[o].pc = "info"
  BY WriteInfoOp
<1>2. From(o) \in Places
  BY <1>1, Spotted DEF TypeOK, Running
<1>3. UNCHANGED <<files, given, raced, stale, contested, cameFrom>>
      /\ info' = [info EXCEPT ![To(o)] = From(o)]
  BY DEF WriteInfo
<1>4. TrashOK'
  BY <1>2, <1>3 DEF TypeOK, TrashOK
<1> QED BY <1>3, <1>4 DEF DataOK, TypeOK, FilesOK, PastOK

\* The rm of a record.
LEMMA RemoveInfoData == ASSUME TypeOK, NEW o \in Ops, RemoveInfo(o) PROVE DataOK
<1>1. /\ UNCHANGED <<files, given, raced, stale, contested>>
      /\ \E t : info' = [info EXCEPT ![t] = Absent]
      /\ cameFrom' = cameFrom \/ \E t : cameFrom' = [cameFrom EXCEPT ![t] = Absent]
  BY DEF RemoveInfo
<1>2. TrashOK'
  <2>1. Absent \in Places \union {Absent}
    OBVIOUS
  <2>2. info' \in [TrashNames -> Places \union {Absent}]
    BY <1>1, <2>1 DEF TypeOK, TrashOK
  <2>3. cameFrom' \in [TrashNames -> Places \union {Absent}]
    BY <1>1, <2>1 DEF TypeOK, TrashOK
  <2> QED BY <2>2, <2>3 DEF TrashOK
<1> QED BY <1>1, <1>2 DEF DataOK, TypeOK, FilesOK, PastOK

\* Every step of the specification keeps the types of the data.
LEMMA DataNext == ASSUME TypeOK, Next PROVE DataOK
<1>1. PICK o \in Ops : Start(o) \/ Step(o) \/ CancelOp(o) \/ Stopped(o) \/ \E q \in Ops : GoesOn(o, q)
  BY DEF Next
<1>2. stale \subseteq Ops
  BY DEF TypeOK, PastOK
<1>3. CASE Start(o) \/ CancelOp(o) \/ Look(o) \/ ListForRestore(o)
  BY <1>2, <1>3, QuietData DEF Start, CancelOp, Look, ListForRestore
<1>4. CASE Stopped(o)
  BY <1>2, <1>4, QuietData DEF Stopped
<1>5. CASE \E q \in Ops : GoesOn(o, q)
  BY <1>2, <1>5, QuietData DEF GoesOn
<1>6. CASE RenameItem(o)
  BY <1>6, RenameData
<1>7. CASE CopyItem(o)
  BY <1>7, CopyData
<1>8. CASE CopyFails(o)
  BY <1>8, CopyFailsData
<1>9. CASE ExportWarned(o)
  BY <1>9, ExportWarnedData
<1>10. CASE RemoveSource(o)
  BY <1>10, RemoveSourceData
<1>11. CASE CreateFile(o)
  BY <1>11, CreateFileData
<1>12. CASE RemoveItem(o)
  BY <1>12, RemoveItemData
<1>13. CASE SaveFile(o)
  BY <1>13, SaveFileData
<1>14. CASE ListForTrash(o)
  BY <1>14, ListForTrashData
<1>15. CASE WriteInfo(o)
  BY <1>15, WriteInfoData
<1>16. CASE RemoveInfo(o)
  BY <1>16, RemoveInfoData
<1> QED BY <1>1, <1>3, <1>4, <1>5, <1>6, <1>7, <1>8, <1>9, <1>10, <1>11, <1>12, <1>13, <1>14,
           <1>15, <1>16 DEF Step

\* A scenario is well formed.
LEMMA ScenarioTyped == Init => ScenarioOK
BY ScenariosAssumption DEF Init, ScenarioOK

\* The type invariant holds at the start.
LEMMA TypeInit == Init => TypeOK
<1> SUFFICES ASSUME Init PROVE TypeOK
  OBVIOUS
<1>1. ScenarioOK
  BY ScenarioTyped
<1>2. OpsOK
  BY IdleOK DEF Init, OpsOK
<1>3. FilesOK
  <2>1. \A p \in Places : scenario.files[p] \in Held
    BY <1>1 DEF ScenarioOK, Held
  <2> QED BY <2>1 DEF Init, FilesOK, Spots, Held
<1>4. TrashOK /\ PastOK
  BY DEF Init, TrashOK, PastOK
<1> QED BY <1>1, <1>2, <1>3, <1>4 DEF TypeOK

\* Every step keeps the type invariant.
LEMMA TypeNext == TypeOK /\ [Next]_vars => TypeOK'
<1> SUFFICES ASSUME TypeOK, [Next]_vars PROVE TypeOK'
  OBVIOUS
<1>1. CASE UNCHANGED vars
  BY <1>1 DEF vars, TypeOK, OpsOK, FilesOK, TrashOK, ScenarioOK, PastOK
<1>2. CASE Next
  <2>1. PICK o \in Ops : Start(o) \/ Step(o) \/ CancelOp(o) \/ Stopped(o) \/ \E q \in Ops : GoesOn(o, q)
    BY <1>2 DEF Next
  <2>2. OpsOK'
    BY <2>1, ActionOp, GoesOnOp DEF OnlyOp
  <2> QED BY <1>2, <2>2, BudgetNext, DataNext DEF TypeOK, DataOK
<1> QED BY <1>1, <1>2

\* Types, and what an operation tells of itself: where it is in its script, what it
\* has carried out, and what is said of it at its end (operations.ts, transfer.ts,
\* windows.ts, trash.ts).
THEOREM TypeCorrect == Spec => []TypeOK
<1>1. Init => TypeOK
  BY TypeInit
<1>2. TypeOK /\ [Next]_vars => TypeOK'
  BY TypeNext
<1> QED BY <1>1, <1>2, PTL DEF Spec

\* "done" is said of an operation only if every item of it was carried out, or was an
\* export's of which cp only warned: an early failure is not forgotten by the last item,
\* and what becomes of a script that was given up makes no news.
THEOREM DoneIsAll == Spec => []DoneMeansAll
<1>1. TypeOK => DoneMeansAll
  BY DEF TypeOK, OpsOK, OpOK, Told, DoneMeansAll
<1> QED BY <1>1, TypeCorrect, PTL

\* A cancel that comes before the last item has begun ends the batch with
\* "cancelled" after the item in flight (backend.ts, operations.ts, windows.ts).
THEOREM CancelIsHeeded == Spec => CancelHeeded
<1> DEFINE Heeded == \A o \in Ops :
       (op[o].cancelled /\ op[o].pc # "ended" /\ op[o].i < Len(op[o].items))
         => op'[o].i <= op[o].i + 1 /\ (op'[o].i = op[o].i + 1 => op'[o].status = "cancelled")
<1>1. TypeOK /\ [Next]_vars => [Heeded]_vars
  <2> SUFFICES ASSUME TypeOK, Next PROVE Heeded
    OBVIOUS
  <2>1. PICK o \in Ops : Start(o) \/ Step(o) \/ CancelOp(o) \/ Stopped(o) \/ \E q \in Ops : GoesOn(o, q)
    BY DEF Next
  <2>2. \A oo \in Ops : op'[oo] = op[oo] => Heeding(op[oo], op'[oo])
    BY HeedingOK DEF TypeOK, OpsOK
  <2>3. CASE Start(o) \/ Step(o) \/ CancelOp(o) \/ Stopped(o)
    <3>1. Heeding(op[o], op'[o]) /\ OnlyOp(o)
      BY <2>3, ActionOp
    <3>2. \A oo \in Ops : Heeding(op[oo], op'[oo])
      BY <2>2, <3>1 DEF OnlyOp
    <3> QED BY <3>2 DEF Heeding
  <2>4. CASE \E q \in Ops : GoesOn(o, q)
    <3>1. PICK q \in Ops : GoesOn(o, q)
      BY <2>4
    <3>2. /\ Heeding(op[o], op'[o]) /\ Heeding(op[q], op'[q])
          /\ \A oo \in Ops \ {o, q} : op'[oo] = op[oo]
      BY <3>1, GoesOnOp
    <3>3. \A oo \in Ops : Heeding(op[oo], op'[oo])
      BY <2>2, <3>2
    <3> QED BY <3>3 DEF Heeding
  <2> QED BY <2>1, <2>3, <2>4
<1>2. Spec => [][Heeded]_vars
  BY <1>1, TypeCorrect, PTL DEF Spec
<1> QED BY <1>2 DEF CancelHeeded

-----------------------------------------------------------------------------
(* The trash *)

\* The names a batch has chosen, those it still waits to fill among them, and the one a
\* restore is to free.
LEMMA HandOK ==
  ASSUME NEW b, OpOK(b)
  PROVE  /\ Coming(b) \subseteq InUse(b) /\ InUse(b) \subseteq TrashNames
         /\ Freeing(b) \subseteq TrashNames
         /\ ~Chosen(b) => InUse(b) = {} /\ Coming(b) = {}
         /\ ~(b.kind = "restore" /\ b.pc = "unrecord") => Freeing(b) = {}
         /\ Chosen(b) => /\ b.names[b.i] \in InUse(b)
                         /\ b.pc \in {"info", "act"} => b.names[b.i] \in Coming(b)
                         /\ DOMAIN b.names = DOMAIN b.items /\ b.kind = "trash"
                         /\ b.i \in Nat /\ Len(b.items) \in Nat
                         /\ b.i \in DOMAIN b.items /\ DOMAIN b.items = 1..Len(b.items)
                         /\ b.i..Len(b.items) \subseteq DOMAIN b.items
<1>1. CASE Chosen(b)
  <2>1. /\ b.i \in DOMAIN b.items /\ DOMAIN b.names = DOMAIN b.items
        /\ b.kind = "trash" /\ b.i \in Nat /\ b.items \in Seq(Moves) /\ b.names \in Seq(TrashNames)
    BY <1>1 DEF OpOK, Asked, Where, Told, Chosen, Operation, Running
  <2>2. Len(b.items) \in Nat /\ DOMAIN b.items = 1..Len(b.items)
    BY <2>1
  <2>3. b.i \in b.i..Len(b.items) /\ b.i..Len(b.items) \subseteq DOMAIN b.items
        /\ (b.i + 1)..Len(b.items) \subseteq b.i..Len(b.items)
    BY <2>1, <2>2
  <2>4. \A j \in DOMAIN b.items : b.names[j] \in TrashNames
    BY <2>1
  <2>5. Coming(b) \subseteq InUse(b)
    BY <1>1, <2>3 DEF Coming, InUse
  <2>6. InUse(b) \subseteq TrashNames
    BY <1>1, <2>3, <2>4 DEF InUse
  <2>7. b.names[b.i] \in InUse(b) /\ (b.pc \in {"info", "act"} => b.names[b.i] \in Coming(b))
    BY <1>1, <2>3 DEF Coming, InUse
  <2>8. Freeing(b) = {}
    BY <2>1 DEF Freeing
  <2> QED BY <1>1, <2>1, <2>2, <2>3, <2>5, <2>6, <2>7, <2>8
<1>2. CASE ~Chosen(b)
  <2>1. InUse(b) = {} /\ Coming(b) = {}
    BY <1>2 DEF InUse, Coming
  <2>2. CASE b.kind = "restore" /\ b.pc = "unrecord"
    <3>1. b.items \in Seq(TrashNames) /\ b.i \in DOMAIN b.items
      BY <2>2 DEF OpOK, Asked, Told, Running
    <3> QED BY <1>2, <2>1, <2>2, <3>1 DEF Freeing
  <2>3. CASE ~(b.kind = "restore" /\ b.pc = "unrecord")
    BY <1>2, <2>1, <2>3 DEF Freeing
  <2> QED BY <2>2, <2>3
<1> QED BY <1>1, <1>2

\* An operation that has neither chosen names nor a name to free has nothing in the trash.
Idling(b) == ~Chosen(b) /\ ~(b.kind = "restore" /\ b.pc = "unrecord")

\* It is in order, and apart from every other.
LEMMA IdlingOK ==
  ASSUME NEW b, Idling(b), NEW d, NEW f, NEW n, NEW c, NEW x
  PROVE  NamesOf(b, f, n, c, x) /\ Apart(b, d, x) /\ Apart(d, b, x)
BY DEF Idling, NamesOf, Apart, Coming, InUse, Freeing

\* What an operation has in the trash stays in order under steps of others that leave its
\* names alone, but for contested ones and files taken out.
LEMMA NamesKept ==
  ASSUME NEW b, OpOK(b), NEW f, NEW n, NEW c, NEW x, NamesOf(b, f, n, c, x),
         NEW ff, NEW nn, NEW cc, NEW xx, x \subseteq xx,
         \A t \in Coming(b) \ xx : nn[t] = n[t],
         \A t \in InUse(b) \ xx : cc[t] = c[t],
         \A t \in (InUse(b) \union Freeing(b)) \ xx : ff[t] = f[t] \/ ff[t] = Absent
  PROVE  NamesOf(b, ff, nn, cc, xx)
<1>1. Coming(b) \subseteq InUse(b)
  BY HandOK
<1>2. Chosen(b) => b.names[b.i] \in InUse(b) /\ (b.pc = "act" => b.names[b.i] \in Coming(b))
  BY HandOK
<1>3. Chosen(b) => \A j, k \in DOMAIN b.items : b.names[j] = b.names[k] => j = k
  BY DEF NamesOf
<1>4. \A t \in Coming(b) : t \notin xx => ff[t] = Absent
  BY <1>1 DEF NamesOf
<1>5. \A t \in Freeing(b) : t \notin xx => ff[t] = Absent
  BY DEF NamesOf
<1>6. Chosen(b) /\ b.pc = "act" /\ b.names[b.i] \notin xx => nn[b.names[b.i]] = b.items[b.i].from
  BY <1>2 DEF NamesOf
<1>7. Chosen(b) /\ b.pc \in {"copied", "unrecord"} /\ b.names[b.i] \notin xx /\ ff[b.names[b.i]] # Absent =>
       cc[b.names[b.i]] = b.items[b.i].from
  BY <1>2 DEF NamesOf
<1> QED BY <1>3, <1>4, <1>5, <1>6, <1>7 DEF NamesOf

\* Being apart is mutual.
LEMMA ApartBothWays ==
  ASSUME NEW b, NEW d, NEW x, Apart(b, d, x)
  PROVE  Apart(d, b, x)
BY DEF Apart

\* More contested names leave more operations apart, and so do fewer names in hand.
LEMMA ApartStays ==
  ASSUME NEW b, NEW d, NEW x, Apart(b, d, x), NEW e, NEW xx, x \subseteq xx,
         InUse(e) \subseteq InUse(b), Coming(e) \subseteq Coming(b), Freeing(e) \subseteq Freeing(b)
  PROVE  Apart(e, d, xx)
BY DEF Apart

\* A step of o leaves the trash in order if o's names are in order after it, apart from
\* the others', and theirs are undisturbed.
LEMMA TrashKept ==
  ASSUME TypeOK, TrashInv, NEW o \in Ops, OnlyOp(o), contested \subseteq contested',
         RecordTellsOrigin',
         NamesOf(op'[o], files', info', cameFrom', contested'),
         \A q \in Ops \ {o} : /\ NamesOf(op[q], files', info', cameFrom', contested')
                              /\ Apart(op'[o], op[q], contested')
  PROVE  TrashInv'
<1>1. \A q \in Ops : NamesOf(op'[q], files', info', cameFrom', contested')
  BY DEF OnlyOp
<1>2. ASSUME NEW a \in Ops, NEW q \in Ops, a # q
      PROVE  Apart(op'[a], op'[q], contested')
  <2>1. CASE a = o
    BY <1>2, <2>1 DEF OnlyOp
  <2>2. CASE q = o
    BY <1>2, <2>2, ApartBothWays DEF OnlyOp
  <2>3. CASE a # o /\ q # o
    <3>1. op'[a] = op[a] /\ op'[q] = op[q] /\ Apart(op[a], op[q], contested)
      BY <1>2, <2>3 DEF OnlyOp, TrashInv
    <3>2. Apart(op[a], op[q], contested')
      BY <3>1, ApartStays
    <3> QED BY <3>1, <3>2
  <2> QED BY <2>1, <2>2, <2>3
<1> QED BY <1>1, <1>2 DEF TrashInv

\* A step of an operation with nothing in the trash, that at most takes files out of it.
LEMMA QuietTrash ==
  ASSUME TypeOK, TrashInv, NEW o \in Ops, OnlyOp(o), Idling(op'[o]),
         UNCHANGED <<info, cameFrom, contested>>,
         \A t \in TrashNames : files'[t] = files[t] \/ files'[t] = Absent
  PROVE  TrashInv'
<1>1. RecordTellsOrigin'
  BY DEF TrashInv, RecordTellsOrigin
<1>2. NamesOf(op'[o], files', info', cameFrom', contested')
  BY IdlingOK
<1>3. ASSUME NEW q \in Ops \ {o}
      PROVE  NamesOf(op[q], files', info', cameFrom', contested') /\ Apart(op'[o], op[q], contested')
  <2>1. OpOK(op[q]) /\ NamesOf(op[q], files, info, cameFrom, contested)
    BY DEF TypeOK, OpsOK, TrashInv
  <2>2. InUse(op[q]) \subseteq TrashNames /\ Freeing(op[q]) \subseteq TrashNames
    BY <2>1, HandOK
  <2>3. NamesOf(op[q], files', info', cameFrom', contested')
    BY <2>1, <2>2, NamesKept
  <2> QED BY <2>3, IdlingOK
<1> QED BY <1>1, <1>2, <1>3, TrashKept

\* A step of a trash batch with the name in hand, whose record and file may change: other
\* names of the trash are left alone, and the batch keeps no name it did not have.
LEMMA TrashStep ==
  ASSUME TypeOK, TrashInv, NEW o \in Ops, OnlyOp(o), Chosen(op[o]), Same(op[o], op'[o]),
         UNCHANGED contested,
         \A t \in TrashNames \ {op[o].names[op[o].i]} :
           files'[t] = files[t] /\ info'[t] = info[t] /\ cameFrom'[t] = cameFrom[t],
         op[o].pc \in {"copied", "unrecord"} =>
           files'[op[o].names[op[o].i]] = files[op[o].names[op[o].i]],
         op[o].names[op[o].i] \notin contested /\ files'[op[o].names[op[o].i]] # Absent =>
           info'[op[o].names[op[o].i]] = cameFrom'[op[o].names[op[o].i]],
         \/ op'[o].pc = "ended"
         \/ op'[o].pc = "info" /\ op'[o].i = op[o].i + 1
         \/ op[o].pc = "info" /\ op'[o].pc = "act" /\ op'[o].i = op[o].i
            /\ files'[op[o].names[op[o].i]] = files[op[o].names[op[o].i]]
            /\ info'[op[o].names[op[o].i]] = op[o].items[op[o].i].from
         \/ op'[o].pc \in {"copied", "unrecord"} /\ op'[o].i = op[o].i
            /\ (op[o].names[op[o].i] \notin contested /\ files'[op[o].names[op[o].i]] # Absent =>
                  cameFrom'[op[o].names[op[o].i]] = op[o].items[op[o].i].from)
  PROVE  TrashInv'
<1> DEFINE b == op[o]
           e == op'[o]
           name == b.names[b.i]
<1>0. OpOK(b) /\ OpOK(e) /\ NamesOf(b, files, info, cameFrom, contested)
  BY DEF TypeOK, OpsOK, OnlyOp, TrashInv
<1>1. /\ name \in InUse(b) /\ DOMAIN b.names = DOMAIN b.items /\ b.kind = "trash"
      /\ b.i \in Nat /\ Len(b.items) \in Nat /\ b.i \in DOMAIN b.items
      /\ b.i..Len(b.items) \subseteq DOMAIN b.items
      /\ Coming(b) \subseteq InUse(b) /\ InUse(b) \subseteq TrashNames /\ Freeing(b) = {}
      /\ b.pc \in {"info", "act"} => name \in Coming(b)
  BY <1>0, HandOK DEF Chosen
<1>2. e.kind = "trash" /\ e.items = b.items /\ e.names = b.names
  BY <1>1 DEF Same
<1>3. b.pc \in {"info", "act", "copied", "unrecord"}
  BY DEF Chosen
<1>d. \A j, k \in DOMAIN b.items : b.names[j] = b.names[k] => j = k
  BY <1>0 DEF NamesOf
<1>r. /\ (b.i + 1)..Len(b.items) \subseteq b.i..Len(b.items)
      /\ \A j \in (b.i + 1)..Len(b.items) : j # b.i
      /\ (b.i + 1 + 1)..Len(b.items) \subseteq (b.i + 1)..Len(b.items)
  BY <1>1
<1>c. {b.names[j] : j \in (b.i + 1)..Len(b.items)} \subseteq Coming(b)
      /\ name \notin {b.names[j] : j \in (b.i + 1)..Len(b.items)}
  <2>1. \A j \in (b.i + 1)..Len(b.items) : j \in DOMAIN b.items /\ b.names[j] # b.names[b.i]
    <3>1. \A j \in (b.i + 1)..Len(b.items) : j \in DOMAIN b.items /\ j # b.i
      BY <1>1, <1>r
    <3> QED BY <3>1, <1>1, <1>d
  <2>2. {b.names[j] : j \in (b.i + 1)..Len(b.items)} \subseteq {b.names[j] : j \in b.i..Len(b.items)}
    BY <1>r
  <2>3. \/ Coming(b) = {b.names[j] : j \in b.i..Len(b.items)}
        \/ Coming(b) = {b.names[j] : j \in (b.i + 1)..Len(b.items)}
    BY DEF Coming
  <2> QED BY <2>1, <2>2, <2>3
<1>f. \A t \in Coming(b) : t \notin contested => files[t] = Absent
  BY <1>0 DEF NamesOf
<1>4. RecordTellsOrigin'
  <2>1. ASSUME NEW t \in TrashNames \ contested, files'[t] # Absent
        PROVE  info'[t] = cameFrom'[t]
    <3>1. CASE t = name
      BY <2>1, <3>1
    <3>2. CASE t # name
      BY <2>1, <3>2 DEF TrashInv, RecordTellsOrigin
    <3> QED BY <3>1, <3>2
  <2> QED BY <2>1 DEF RecordTellsOrigin
<1>5. /\ NamesOf(e, files', info', cameFrom', contested')
      /\ InUse(e) \subseteq InUse(b) /\ Coming(e) \subseteq Coming(b) /\ Freeing(e) \subseteq Freeing(b)
  <2>1. CASE e.pc = "ended"
    <3>1. Idling(e)
      BY <2>1 DEF Idling, Chosen
    <3> QED BY <3>1, IdlingOK DEF Idling, InUse, Coming, Freeing
  <2>2. CASE e.pc = "info" /\ e.i = b.i + 1
    <3>1. InUse(e) = {b.names[j] : j \in (b.i + 1)..Len(b.items)} /\ Coming(e) = InUse(e)
          /\ Freeing(e) = {} /\ Chosen(e)
      BY <2>2, <1>2 DEF InUse, Coming, Freeing, Chosen
    <3>2. \A t \in Coming(e) : t \notin contested' => files'[t] = Absent
      BY <3>1, <1>c, <1>f, <1>1
    <3>3. NamesOf(e, files', info', cameFrom', contested')
      BY <3>1, <3>2, <2>2, <1>2, <1>d DEF NamesOf
    <3> QED BY <3>1, <3>3, <1>c, <1>1
  <2>3. CASE b.pc = "info" /\ e.pc = "act" /\ e.i = b.i /\ files'[name] = files[name]
             /\ info'[name] = b.items[b.i].from
    <3>1. InUse(e) = InUse(b) /\ Coming(e) = Coming(b) /\ Freeing(e) = {} /\ Chosen(e)
      BY <2>3, <1>1, <1>2 DEF InUse, Coming, Freeing, Chosen
    <3>2. \A t \in Coming(e) : t \notin contested' => files'[t] = Absent
      BY <3>1, <2>3, <1>f, <1>1
    <3>3. NamesOf(e, files', info', cameFrom', contested')
      BY <3>1, <3>2, <2>3, <1>2, <1>d DEF NamesOf
    <3> QED BY <3>1, <3>3, <1>1
  <2>4. CASE /\ e.pc \in {"copied", "unrecord"} /\ e.i = b.i
             /\ name \notin contested /\ files'[name] # Absent => cameFrom'[name] = b.items[b.i].from
    <3>c. Chosen(e) /\ e.pc \notin {"info", "act"} /\ e.kind # "restore"
      BY <2>4, <1>2 DEF Chosen
    <3>e. e.i = b.i /\ e.items = b.items /\ e.names = b.names
      BY <2>4, <1>2
    <3>i. InUse(e) = {e.names[j] : j \in e.i..Len(e.items)}
      BY <3>c DEF InUse
    <3>j. InUse(b) = {b.names[j] : j \in b.i..Len(b.items)}
      BY DEF InUse
    <3>k. Coming(e) = {e.names[j] : j \in (e.i + 1)..Len(e.items)}
      BY <3>c DEF Coming
    <3>l. Freeing(e) = {}
      BY <3>c DEF Freeing
    <3>1. /\ InUse(e) = InUse(b) /\ Coming(e) = {b.names[j] : j \in (b.i + 1)..Len(b.items)}
          /\ Freeing(e) = {} /\ Chosen(e)
      BY <3>c, <3>e, <3>i, <3>j, <3>k, <3>l
    <3>2. \A t \in Coming(e) : t \notin contested' => files'[t] = Absent
      BY <3>1, <1>c, <1>f, <1>1
    <3>3. NamesOf(e, files', info', cameFrom', contested')
      BY <3>1, <3>2, <2>4, <1>2, <1>d DEF NamesOf
    <3> QED BY <3>1, <3>3, <1>c, <1>1
  <2> QED BY <2>1, <2>2, <2>3, <2>4
<1>6. ASSUME NEW q \in Ops \ {o}
      PROVE  NamesOf(op[q], files', info', cameFrom', contested') /\ Apart(op'[o], op[q], contested')
  <2>1. OpOK(op[q]) /\ NamesOf(op[q], files, info, cameFrom, contested) /\ Apart(b, op[q], contested)
    BY DEF TypeOK, OpsOK, TrashInv
  <2>2. InUse(op[q]) \subseteq TrashNames /\ Freeing(op[q]) \subseteq TrashNames
        /\ Coming(op[q]) \subseteq InUse(op[q])
    BY <2>1, HandOK
  <2>3. name \in InUse(op[q]) => name \in contested
    BY <2>1, <1>1 DEF Apart
  <2>4. b.pc \in {"info", "act"} /\ name \in Freeing(op[q]) => name \in contested
    BY <2>1, <1>1 DEF Apart
  <2>5. \A t \in (InUse(op[q]) \union Freeing(op[q])) \ contested : files'[t] = files[t]
    BY <2>2, <2>3, <2>4, <1>3
  <2>6. \A t \in InUse(op[q]) \ contested : info'[t] = info[t] /\ cameFrom'[t] = cameFrom[t]
    BY <2>2, <2>3
  <2>7. NamesOf(op[q], files', info', cameFrom', contested')
    BY <2>1, <2>2, <2>5, <2>6, NamesKept
  <2>8. Apart(op'[o], op[q], contested')
    BY <2>1, <1>5, ApartStays
  <2> QED BY <2>7, <2>8
<1> QED BY <1>4, <1>5, <1>6, TrashKept

\* The name in hand of a trash batch, before its file has moved: no file has it, and its
\* record is that of the file.
LEMMA NameInHand ==
  ASSUME TypeOK, TrashInv, NEW o \in Ops, op[o].kind = "trash",
         op[o].pc \in {"info", "act", "copied", "unrecord"}
  PROVE  /\ Chosen(op[o]) /\ To(o) = op[o].names[op[o].i] /\ To(o) \in TrashNames
         /\ From(o) = op[o].items[op[o].i].from /\ From(o) \in Places /\ From(o) \notin TrashNames
         /\ To(o) \in Spots /\ From(o) \in Spots /\ From(o) # To(o)
         /\ op[o].pc \in {"info", "act"} /\ To(o) \notin contested => files[To(o)] = Absent
         /\ op[o].pc = "act" /\ To(o) \notin contested => info[To(o)] = From(o)
         /\ op[o].pc \in {"copied", "unrecord"} /\ To(o) \notin contested /\ files[To(o)] # Absent =>
              cameFrom[To(o)] = From(o)
<1>1. /\ From(o) \in Places /\ To(o) \in TrashNames /\ Chosen(op[o])
      /\ To(o) = op[o].names[op[o].i] /\ From(o) = op[o].items[op[o].i].from
  BY Spotted DEF TypeOK, Running
<1>2. NamesOf(op[o], files, info, cameFrom, contested) /\ OpOK(op[o])
  BY DEF TrashInv, TypeOK, OpsOK
<1>3. op[o].pc \in {"info", "act"} => To(o) \in Coming(op[o])
  BY <1>1, <1>2, HandOK
<1> QED BY <1>1, <1>2, <1>3, SpotsApart DEF NamesOf, Spots

\* A step of a trash batch that moves the file in hand, or fails to.
LEMMA TrashAct ==
  ASSUME TypeOK, TrashInv, NEW o \in Ops, op[o].kind = "trash", op[o].pc = "act",
         OnlyOp(o), Same(op[o], op'[o]), UNCHANGED <<info, contested>>,
         \/ UNCHANGED <<files, cameFrom>>
         \/ Arrives(o) /\ \A t \in TrashNames \ {To(o)} : files'[t] = files[t],
         \/ op'[o].pc = "ended"
         \/ op'[o].pc = "info" /\ op'[o].i = op[o].i + 1
         \/ op'[o].pc \in {"copied", "unrecord"} /\ op'[o].i = op[o].i
  PROVE  TrashInv'
<1>1. /\ Chosen(op[o]) /\ To(o) = op[o].names[op[o].i] /\ To(o) \in TrashNames
      /\ From(o) = op[o].items[op[o].i].from
      /\ To(o) \notin contested => files[To(o)] = Absent /\ info[To(o)] = From(o)
  BY NameInHand
<1>2. \A t \in TrashNames \ {To(o)} : files'[t] = files[t] /\ info'[t] = info[t] /\ cameFrom'[t] = cameFrom[t]
  BY DEF Arrives, TypeOK, TrashOK
<1>3. To(o) \notin contested /\ files'[To(o)] # Absent => cameFrom'[To(o)] = From(o)
  BY <1>1 DEF Arrives, TypeOK, TrashOK
<1>4. To(o) \notin contested /\ files'[To(o)] # Absent => info'[To(o)] = cameFrom'[To(o)]
  BY <1>1, <1>3
<1> QED BY <1>1, <1>2, <1>3, <1>4, TrashStep

\* A restore that has put its file back.
LEMMA RestoreDone ==
  ASSUME TypeOK, TrashInv, NEW o \in Ops, op[o].kind = "restore", op[o].pc \in {"act", "copied"},
         OnlyOp(o), Same(op[o], op'[o]), op'[o].pc = "unrecord", op'[o].i = op[o].i,
         UNCHANGED <<info, cameFrom, contested>>,
         files[From(o)] # Absent, files'[From(o)] = Absent,
         \A t \in TrashNames \ {From(o)} : files'[t] = files[t]
  PROVE  TrashInv'
<1>1. From(o) \in TrashNames /\ From(o) = op[o].items[op[o].i]
  BY Spotted DEF TypeOK, Running
<1>2. op'[o].kind = "restore" /\ op'[o].items = op[o].items
  BY DEF Same
<1>3. Freeing(op'[o]) = {From(o)} /\ ~Chosen(op'[o]) /\ InUse(op'[o]) = {} /\ Coming(op'[o]) = {}
  BY <1>1, <1>2 DEF Freeing, Chosen, InUse, Coming
<1>4. RecordTellsOrigin'
  BY DEF TrashInv, RecordTellsOrigin
<1>5. NamesOf(op'[o], files', info', cameFrom', contested')
  BY <1>3 DEF NamesOf
<1>6. ASSUME NEW q \in Ops \ {o}
      PROVE  NamesOf(op[q], files', info', cameFrom', contested') /\ Apart(op'[o], op[q], contested')
  <2>1. OpOK(op[q]) /\ NamesOf(op[q], files, info, cameFrom, contested)
    BY DEF TypeOK, OpsOK, TrashInv
  <2>2. InUse(op[q]) \subseteq TrashNames /\ Freeing(op[q]) \subseteq TrashNames
    BY <2>1, HandOK
  <2>3. NamesOf(op[q], files', info', cameFrom', contested')
    BY <2>1, <2>2, NamesKept
  <2>4. From(o) \in Coming(op[q]) => From(o) \in contested
    BY <2>1 DEF NamesOf
  <2> QED BY <2>3, <2>4, <1>3 DEF Apart
<1> QED BY <1>4, <1>5, <1>6, TrashKept

\* A rename.
LEMMA RenameTrash == ASSUME TypeOK, TrashInv, NEW o \in Ops, RenameItem(o) PROVE TrashInv'
<1>1. op[o].pc = "act" /\ op[o].kind \in Moved /\ UNCHANGED <<info, contested>>
  BY RenameOp
<1>s. From(o) \in Spots /\ To(o) \in Spots /\ DOMAIN files = Spots
  BY <1>1, Spotted DEF TypeOK, FilesOK, Running
<1>2. CASE op[o].kind = "trash"
  <2>1. From(o) \notin TrashNames
    BY <1>1, <1>2, NameInHand
  <2>2. /\ OnlyOp(o) /\ Same(op[o], op'[o])
        /\ \/ op'[o].pc = "ended"
           \/ op'[o].pc = "info" /\ op'[o].i = op[o].i + 1
           \/ op'[o].pc = "unrecord" /\ op'[o].i = op[o].i
    BY <1>2, RenameOp DEF Concludes, After
  <2>3. \/ UNCHANGED <<files, cameFrom>>
        \/ Arrives(o) /\ \A t \in TrashNames \ {To(o)} : files'[t] = files[t]
    BY <2>1, <1>s, RenameOp DEF Spots
  <2> QED BY <1>1, <1>2, <2>2, <2>3, TrashAct
<1>3. CASE op[o].kind = "restore"
  <2>1. From(o) \in TrashNames /\ To(o) \in Places
    BY <1>1, <1>3, Spotted DEF TypeOK, Running
  <2>2. CASE Concludes(o, TRUE) /\ files[From(o)] # Absent /\ From(o) # To(o) /\ Arrives(o)
             /\ files' = [files EXCEPT ![To(o)] = files[From(o)], ![From(o)] = Absent]
    <3>1. OnlyOp(o) /\ Same(op[o], op'[o]) /\ op'[o].pc = "unrecord" /\ op'[o].i = op[o].i
      BY <1>3, <2>2 DEF Concludes, After
    <3>2. UNCHANGED cameFrom
      BY <1>3, <2>2 DEF Arrives
    <3>3. files'[From(o)] = Absent /\ \A t \in TrashNames \ {From(o)} : files'[t] = files[t]
      BY <1>s, <2>1, <2>2, SpotsApart DEF Spots
    <3> QED BY <1>1, <1>3, <2>2, <3>1, <3>2, <3>3, RestoreDone
  <2>3. CASE Concludes(o, FALSE) /\ UNCHANGED <<files, cameFrom>>
    <3>1. OnlyOp(o) /\ Idling(op'[o])
      BY <1>3, <2>3 DEF Concludes, After, Idling, Chosen
    <3> QED BY <1>1, <2>3, <3>1, QuietTrash
  <2> QED BY <2>2, <2>3, RenameOp
<1>4. CASE op[o].kind \notin {"trash", "restore"}
  <2>1. From(o) \in Places /\ To(o) \in Places
    BY <1>1, <1>4, Spotted DEF TypeOK, Running
  <2>2. \A t \in TrashNames : files'[t] = files[t]
    BY <1>s, <2>1, SpotsApart, RenameOp DEF Spots
  <2>3. UNCHANGED cameFrom
    BY <1>4, RenameOp DEF Arrives
  <2>4. OnlyOp(o) /\ Idling(op'[o])
    BY <1>4, RenameOp DEF Concludes, After, Idling, Chosen, Same
  <2> QED BY <1>1, <2>2, <2>3, <2>4, QuietTrash
<1> QED BY <1>2, <1>3, <1>4

\* A copy.
LEMMA CopyTrash == ASSUME TypeOK, TrashInv, NEW o \in Ops, CopyItem(o) PROVE TrashInv'
<1>1. /\ op[o].pc = "act" /\ UNCHANGED <<info, contested>> /\ Arrives(o)
      /\ files' = [files EXCEPT ![To(o)] = files[From(o)]]
  BY CopyOp
<1>s. From(o) \in Spots /\ To(o) \in Spots /\ DOMAIN files = Spots
  BY <1>1, Spotted DEF TypeOK, FilesOK, Running
<1>2. CASE op[o].kind = "trash"
  <2>2. OnlyOp(o) /\ Same(op[o], op'[o]) /\ op'[o].pc = "copied" /\ op'[o].i = op[o].i
    BY <1>2, CopyOp DEF Moved
  <2>3. \A t \in TrashNames \ {To(o)} : files'[t] = files[t]
    BY <1>1, <1>s DEF Spots
  <2> QED BY <1>1, <1>2, <2>2, <2>3, TrashAct
<1>3. CASE op[o].kind # "trash"
  <2>1. To(o) \in Places
    BY <1>1, <1>3, Spotted DEF TypeOK, Running
  <2>2. \A t \in TrashNames : files'[t] = files[t]
    BY <1>1, <1>s, <2>1, SpotsApart DEF Spots
  <2>3. UNCHANGED cameFrom
    BY <1>1, <1>3 DEF Arrives
  <2>4. OnlyOp(o) /\ Idling(op'[o])
    BY <1>3, CopyOp DEF Concludes, After, Idling, Chosen, Same, Moved
  <2> QED BY <1>1, <2>2, <2>3, <2>4, QuietTrash
<1> QED BY <1>2, <1>3

\* A copy that fails.
LEMMA CopyFailsTrash == ASSUME TypeOK, TrashInv, NEW o \in Ops, CopyFails(o) PROVE TrashInv'
<1>1. op[o].pc = "act" /\ UNCHANGED <<info, contested>> /\ Concludes(o, FALSE)
  BY CopyFailsOp
<1>s. To(o) \in Spots /\ DOMAIN files = Spots
  BY <1>1, Spotted DEF TypeOK, FilesOK, Running
<1>w. \/ UNCHANGED <<files, cameFrom>>
      \/ Arrives(o) /\ \E c \in Held : files' = [files EXCEPT ![To(o)] = c]
  BY CopyFailsOp
<1>2. CASE op[o].kind = "trash"
  <2>2. OnlyOp(o) /\ Same(op[o], op'[o]) /\ op'[o].pc = "unrecord" /\ op'[o].i = op[o].i
    BY <1>1, <1>2 DEF Concludes, After
  <2>3. \/ UNCHANGED <<files, cameFrom>>
        \/ Arrives(o) /\ \A t \in TrashNames \ {To(o)} : files'[t] = files[t]
    BY <1>s, <1>w DEF Spots
  <2> QED BY <1>1, <1>2, <2>2, <2>3, TrashAct
<1>3. CASE op[o].kind # "trash"
  <2>1. To(o) \in Places
    BY <1>1, <1>3, Spotted DEF TypeOK, Running
  <2>2. \A t \in TrashNames : files'[t] = files[t]
    BY <1>s, <1>w, <2>1, SpotsApart DEF Spots
  <2>3. UNCHANGED cameFrom
    BY <1>3, <1>w DEF Arrives
  <2>4. OnlyOp(o) /\ Idling(op'[o])
    BY <1>1, <1>3 DEF Concludes, After, Idling, Chosen, Same
  <2> QED BY <1>1, <2>2, <2>3, <2>4, QuietTrash
<1> QED BY <1>2, <1>3

\* The end of a move.
LEMMA RemoveSourceTrash == ASSUME TypeOK, TrashInv, NEW o \in Ops, RemoveSource(o) PROVE TrashInv'
<1>1. op[o].pc = "copied" /\ UNCHANGED <<info, contested, cameFrom>>
  BY RemoveSourceOp
<1>s. From(o) \in Spots /\ DOMAIN files = Spots
  BY <1>1, Spotted DEF TypeOK, FilesOK, Running
<1>w. UNCHANGED files \/ files' = [files EXCEPT ![From(o)] = Absent]
  BY RemoveSourceOp
<1>2. CASE op[o].kind = "trash"
  <2>1. /\ Chosen(op[o]) /\ To(o) = op[o].names[op[o].i] /\ To(o) \in TrashNames
        /\ From(o) = op[o].items[op[o].i].from /\ From(o) \notin TrashNames
        /\ To(o) \notin contested /\ files[To(o)] # Absent => cameFrom[To(o)] = From(o)
    BY <1>1, <1>2, NameInHand
  <2>2. /\ OnlyOp(o) /\ Same(op[o], op'[o])
        /\ \/ op'[o].pc = "ended"
           \/ op'[o].pc = "info" /\ op'[o].i = op[o].i + 1
           \/ op'[o].pc = "unrecord" /\ op'[o].i = op[o].i
    BY <1>2, RemoveSourceOp DEF Concludes, After
  <2>3. \A t \in TrashNames : files'[t] = files[t] /\ info'[t] = info[t] /\ cameFrom'[t] = cameFrom[t]
    BY <1>1, <1>s, <1>w, <2>1 DEF Spots
  <2>4. To(o) \notin contested /\ files'[To(o)] # Absent => info'[To(o)] = cameFrom'[To(o)]
    BY <2>1, <2>3 DEF TrashInv, RecordTellsOrigin
  <2> QED BY <1>1, <2>1, <2>2, <2>3, <2>4, TrashStep
<1>3. CASE op[o].kind = "restore"
  <2>1. From(o) \in TrashNames
    BY <1>1, <1>3, Spotted DEF TypeOK, Running
  <2>2. CASE Concludes(o, TRUE) /\ files[From(o)] # Absent
             /\ files' = [files EXCEPT ![From(o)] = Absent]
    <3>1. OnlyOp(o) /\ Same(op[o], op'[o]) /\ op'[o].pc = "unrecord" /\ op'[o].i = op[o].i
      BY <1>3, <2>2 DEF Concludes, After
    <3>3. files'[From(o)] = Absent /\ \A t \in TrashNames \ {From(o)} : files'[t] = files[t]
      BY <1>s, <2>1, <2>2 DEF Spots
    <3> QED BY <1>1, <1>3, <2>2, <3>1, <3>3, RestoreDone
  <2>3. CASE Concludes(o, FALSE) /\ UNCHANGED files
    <3>1. OnlyOp(o) /\ Idling(op'[o])
      BY <1>3, <2>3 DEF Concludes, After, Idling, Chosen
    <3> QED BY <1>1, <2>3, <3>1, QuietTrash
  <2> QED BY <1>3, <2>2, <2>3, RemoveSourceOp
<1>4. CASE op[o].kind \notin {"trash", "restore"}
  <2>2. \A t \in TrashNames : files'[t] = files[t] \/ files'[t] = Absent
    BY <1>s, <1>w DEF Spots
  <2>4. OnlyOp(o) /\ Idling(op'[o])
    BY <1>4, RemoveSourceOp DEF Concludes, After, Idling, Chosen, Same
  <2> QED BY <1>1, <2>2, <2>4, QuietTrash
<1> QED BY <1>2, <1>3, <1>4

\* What the other operations do to files, they do in directories.
LEMMA OtherTrash ==
  ASSUME TypeOK, TrashInv, NEW o \in Ops,
         ExportWarned(o) \/ CreateFile(o) \/ RemoveItem(o) \/ SaveFile(o)
  PROVE  TrashInv'
<1>1. op[o].kind \in {"export", "create", "remove", "save"} /\ Running(op[o]) /\ op[o].pc # "list"
  BY ExportWarnedOp, CreateFileOp, RemoveItemOp, SaveFileOp DEF Running
<1>2. From(o) \in Places /\ To(o) \in Places
  BY <1>1, Spotted DEF TypeOK
<1>3. UNCHANGED <<info, contested, cameFrom>>
  BY ExportWarnedOp, CreateFileOp, RemoveItemOp, SaveFileOp
<1>4. UNCHANGED files \/ \E p \in Places : \E c : files' = [files EXCEPT ![p] = c]
  <2>1. CASE ExportWarned(o)
    BY <1>2, <2>1, ExportWarnedOp
  <2>2. CASE CreateFile(o)
    BY <1>2, <2>2, CreateFileOp
  <2>3. CASE RemoveItem(o)
    BY <1>2, <2>3, RemoveItemOp
  <2>4. CASE SaveFile(o)
    BY <1>2, <2>4, SaveFileOp
  <2> QED BY <2>1, <2>2, <2>3, <2>4
<1>5. \A t \in TrashNames : files'[t] = files[t]
  BY <1>4, SpotsApart DEF TypeOK, FilesOK, Spots
<1>6. OnlyOp(o) /\ Same(op[o], op'[o])
  BY ExportWarnedOp, CreateFileOp, RemoveItemOp, SaveFileOp DEF Concludes, After
<1>7. Idling(op'[o])
  BY <1>1, <1>6 DEF Same, Idling, Chosen
<1> QED BY <1>3, <1>5, <1>6, <1>7, QuietTrash

\* The record of an item of a batch: no file has its name yet.
LEMMA WriteInfoTrash == ASSUME TypeOK, TrashInv, NEW o \in Ops, WriteInfo(o) PROVE TrashInv'
<1>1. /\ OnlyOp(o) /\ Same(op[o], op'[o]) /\ op[o].kind = "trash" /\ op[o].pc = "info"
      /\ op'[o].pc = "act" /\ op'[o].i = op[o].i
  BY WriteInfoOp
<1>2. /\ Chosen(op[o]) /\ To(o) = op[o].names[op[o].i] /\ To(o) \in TrashNames
      /\ From(o) = op[o].items[op[o].i].from
      /\ To(o) \notin contested => files[To(o)] = Absent
  BY <1>1, NameInHand
<1>3. UNCHANGED <<files, contested, cameFrom>> /\ info' = [info EXCEPT ![To(o)] = From(o)]
  BY DEF WriteInfo
<1>4. /\ info'[To(o)] = From(o)
      /\ \A t \in TrashNames \ {To(o)} :
           files'[t] = files[t] /\ info'[t] = info[t] /\ cameFrom'[t] = cameFrom[t]
  BY <1>2, <1>3 DEF TypeOK, TrashOK
<1> QED BY <1>1, <1>2, <1>3, <1>4, TrashStep

\* The rm of a record: there is no file under its name any more.
LEMMA RemoveInfoTrash == ASSUME TypeOK, TrashInv, NEW o \in Ops, RemoveInfo(o) PROVE TrashInv'
<1>1. /\ OnlyOp(o) /\ Same(op[o], op'[o]) /\ op[o].pc = "unrecord" /\ UNCHANGED <<files, contested>>
      /\ op[o].kind \in {"trash", "restore"}
  BY RemoveInfoOp DEF RemoveInfo
<1>2. CASE op[o].kind = "trash"
  <2>1. /\ Chosen(op[o]) /\ To(o) = op[o].names[op[o].i] /\ To(o) \in TrashNames
        /\ From(o) = op[o].items[op[o].i].from
        /\ To(o) \notin contested /\ files[To(o)] # Absent => cameFrom[To(o)] = From(o)
    BY <1>1, <1>2, NameInHand
  <2>2. /\ info' = [info EXCEPT ![To(o)] = Absent]
        /\ cameFrom' = IF cameFrom[To(o)] = From(o) THEN [cameFrom EXCEPT ![To(o)] = Absent] ELSE cameFrom
    BY <1>2 DEF RemoveInfo
  <2>3. /\ info'[To(o)] = Absent
        /\ cameFrom[To(o)] = From(o) => cameFrom'[To(o)] = Absent
        /\ \A t \in TrashNames \ {To(o)} :
             files'[t] = files[t] /\ info'[t] = info[t] /\ cameFrom'[t] = cameFrom[t]
    BY <1>1, <2>1, <2>2 DEF TypeOK, TrashOK
  <2>4. op'[o].pc = "ended" \/ (op'[o].pc = "info" /\ op'[o].i = op[o].i + 1)
    BY <1>2, RemoveInfoOp
  <2> QED BY <1>1, <2>1, <2>3, <2>4, TrashStep
<1>3. CASE op[o].kind = "restore"
  <2>1. Item(o) \in TrashNames /\ Freeing(op[o]) = {Item(o)}
    BY <1>1, <1>3, Spotted DEF TypeOK, Running, Freeing, Item
  <2>2. info' = [info EXCEPT ![Item(o)] = Absent] /\ cameFrom' = cameFrom
    BY <1>3 DEF RemoveInfo
  <2>3. Item(o) \notin contested => files[Item(o)] = Absent
    BY <2>1 DEF TrashInv, NamesOf
  <2>4. info'[Item(o)] = Absent /\ \A t \in TrashNames \ {Item(o)} : info'[t] = info[t]
    BY <2>1, <2>2 DEF TypeOK, TrashOK
  <2>5. RecordTellsOrigin'
    BY <1>1, <2>2, <2>3, <2>4 DEF TrashInv, RecordTellsOrigin
  <2>6. Idling(op'[o])
    BY <1>1, <1>3, RemoveInfoOp DEF Same, Idling, Chosen
  <2>7. NamesOf(op'[o], files', info', cameFrom', contested')
    BY <2>6, IdlingOK
  <2>8. ASSUME NEW q \in Ops \ {o}
        PROVE  NamesOf(op[q], files', info', cameFrom', contested') /\ Apart(op'[o], op[q], contested')
    <3>1. OpOK(op[q]) /\ NamesOf(op[q], files, info, cameFrom, contested) /\ Apart(op[o], op[q], contested)
      BY DEF TypeOK, OpsOK, TrashInv
    <3>2. InUse(op[q]) \subseteq TrashNames /\ Coming(op[q]) \subseteq InUse(op[q])
      BY <3>1, HandOK
    <3>3. Item(o) \in Coming(op[q]) => Item(o) \in contested
      BY <3>1, <2>1 DEF Apart
    <3>4. \A t \in Coming(op[q]) \ contested : info'[t] = info[t]
      BY <3>2, <3>3, <2>4
    <3>5. NamesOf(op[q], files', info', cameFrom', contested')
      BY <1>1, <2>2, <3>1, <3>4, NamesKept
    <3> QED BY <3>5, <2>6, IdlingOK
  <2> QED BY <1>1, <2>5, <2>7, <2>8, TrashKept
<1> QED BY <1>1, <1>2, <1>3

\* What an operation has in hand.
LEMMA InHandIs ==
  ASSUME TypeOK, NEW o \in Ops
  PROVE  InHand(o) = InUse(op[o]) \union Freeing(op[o])
BY DEF InHand, InUse, Freeing, Chosen, Item

\* New names are those of no file, and those others have in hand become contested.
LEMMA ListForTrashTrash == ASSUME TypeOK, TrashInv, NEW o \in Ops, ListForTrash(o) PROVE TrashInv'
<1> DEFINE b == op[o]
           e == op'[o]
           L == Len(b.items)
<1>1. /\ OnlyOp(o) /\ b.pc = "list" /\ b.kind = "trash" /\ e.pc = "info" /\ e.kind = "trash"
      /\ e.items = b.items /\ e.names = BatchNames(b.items, Taken)
      /\ Picked(b.items, Taken, e.names, L)
  BY ListForTrashOp
<1>2. UNCHANGED <<files, info, cameFrom>>
  BY DEF ListForTrash
<1>3. contested' = contested \union
        {t \in TrashNames : (\E j \in DOMAIN e.names : e.names[j] = t) /\ \E q \in Ops : t \in InHand(q)}
  BY <1>1 DEF ListForTrash
<1>4. OpOK(e)
  BY <1>1 DEF OnlyOp, OpsOK
<1>5. /\ Chosen(e) /\ e.i..L \subseteq DOMAIN e.names /\ DOMAIN e.names = 1..L
      /\ InUse(e) \subseteq TrashNames /\ Freeing(e) = {}
  BY <1>1, <1>4, HandOK DEF Chosen
<1>6. InUse(e) = {e.names[j] : j \in e.i..L} /\ Coming(e) = InUse(e)
  BY <1>1, <1>5 DEF InUse, Coming
<1>7. \A j \in 1..L : e.names[j] \notin Taken
  BY <1>1 DEF Picked
<1>8. \A t \in InUse(e) : files[t] = Absent
  BY <1>5, <1>6, <1>7 DEF Taken
<1>9. \A j, k \in DOMAIN e.items : e.names[j] = e.names[k] => j = k
  BY <1>1, <1>4, <1>5, HandOK DEF Picked
<1>10. NamesOf(e, files', info', cameFrom', contested')
  BY <1>1, <1>2, <1>5, <1>6, <1>8, <1>9 DEF NamesOf
<1>11. RecordTellsOrigin'
  BY <1>2, <1>3 DEF TrashInv, RecordTellsOrigin
<1>12. ASSUME NEW q \in Ops \ {o}
       PROVE  NamesOf(op[q], files', info', cameFrom', contested') /\ Apart(e, op[q], contested')
  <2>1. OpOK(op[q]) /\ NamesOf(op[q], files, info, cameFrom, contested)
    BY DEF TypeOK, OpsOK, TrashInv
  <2>2. NamesOf(op[q], files', info', cameFrom', contested')
    BY <1>2, <1>3, <2>1, NamesKept
  <2>3. Coming(op[q]) \subseteq InUse(op[q])
    BY <2>1, HandOK
  <2>4. \A t \in InUse(e) : t \in InHand(q) => t \in contested'
    BY <1>3, <1>5, <1>6
  <2>5. \A t \in InUse(e) : t \in InUse(op[q]) \union Freeing(op[q]) => t \in contested'
    BY <2>4, InHandIs
  <2>6. Apart(e, op[q], contested')
    BY <1>5, <1>6, <2>5, <2>3 DEF Apart
  <2> QED BY <2>2, <2>6
<1>13. contested \subseteq contested'
  BY <1>3
<1> QED BY <1>1, <1>10, <1>11, <1>12, <1>13, TrashKept

\* A script that goes on has the names in hand that were its caller's.
LEMMA GoesOnTrash ==
  ASSUME TypeOK, TrashInv, NEW o \in Ops, NEW q \in Ops, GoesOn(o, q)
  PROVE  TrashInv'
<1> DEFINE b == op[o]
           e == op'[q]
<1>1. /\ OpsOK' /\ o # q /\ \A oo \in Ops \ {o, q} : op'[oo] = op[oo]
      /\ op'[o].pc \in {"item", "ended"}
      /\ e.kind = b.kind /\ e.pc = b.pc /\ e.names = b.names /\ e.items[e.i] = b.items[b.i]
      /\ b.kind = "trash" => e.items = b.items /\ e.i = b.i
  BY GoesOnOp
<1>2. UNCHANGED <<files, info, cameFrom, contested>>
  BY DEF GoesOn
<1>3. Idling(op'[o])
  BY <1>1 DEF Idling, Chosen
<1>4. Chosen(e) <=> Chosen(b)
  BY <1>1 DEF Chosen
<1>5. Freeing(e) = Freeing(b)
  BY <1>1 DEF Freeing
<1>6. InUse(e) = InUse(b) /\ Coming(e) = Coming(b)
  <2>1. CASE Chosen(b)
    <3>1. e.names = b.names /\ e.items = b.items /\ e.i = b.i /\ e.pc = b.pc /\ Chosen(e)
      BY <1>1, <1>4, <2>1 DEF Chosen
    <3> QED BY <2>1, <3>1 DEF InUse, Coming
  <2>2. CASE ~Chosen(b)
    BY <1>4, <2>2 DEF InUse, Coming
  <2> QED BY <2>1, <2>2
<1>7. NamesOf(e, files', info', cameFrom', contested')
  <2>1. NamesOf(b, files, info, cameFrom, contested)
    BY DEF TrashInv
  <2>2. CASE Chosen(b)
    <3>1. e.names = b.names /\ e.items = b.items /\ e.i = b.i /\ e.pc = b.pc
      BY <1>1, <2>2 DEF Chosen
    <3> QED BY <1>2, <1>4, <1>5, <1>6, <2>1, <2>2, <3>1 DEF NamesOf
  <2>3. CASE ~Chosen(b)
    BY <1>2, <1>4, <1>5, <1>6, <2>1, <2>3 DEF NamesOf
  <2> QED BY <2>2, <2>3
<1>8. \A oo \in Ops : NamesOf(op'[oo], files', info', cameFrom', contested')
  <2>1. \A oo \in Ops \ {o, q} : NamesOf(op'[oo], files', info', cameFrom', contested')
    BY <1>1, <1>2 DEF TrashInv
  <2>2. NamesOf(op'[o], files', info', cameFrom', contested')
    BY <1>3, IdlingOK
  <2> QED BY <2>1, <2>2, <1>7
<1>9. ASSUME NEW a \in Ops, NEW d \in Ops, a # d
      PROVE  Apart(op'[a], op'[d], contested')
  <2>1. CASE a = o \/ d = o
    BY <2>1, <1>3, IdlingOK
  <2>2. CASE a = q /\ d \notin {o, q}
    <3>1. op'[d] = op[d] /\ Apart(b, op[d], contested)
      BY <2>2, <1>1 DEF TrashInv
    <3> QED BY <2>2, <3>1, <1>2, <1>5, <1>6 DEF Apart
  <2>3. CASE d = q /\ a \notin {o, q}
    <3>1. op'[a] = op[a] /\ Apart(op[a], b, contested)
      BY <2>3, <1>1 DEF TrashInv
    <3> QED BY <2>3, <3>1, <1>2, <1>5, <1>6 DEF Apart
  <2>4. CASE a \notin {o, q} /\ d \notin {o, q}
    BY <2>4, <1>1, <1>2, <1>9 DEF TrashInv
  <2> QED BY <2>1, <2>2, <2>3, <2>4, <1>9
<1>10. RecordTellsOrigin'
  BY <1>2 DEF TrashInv, RecordTellsOrigin
<1> QED BY <1>8, <1>9, <1>10 DEF TrashInv

\* The trash is in order at the start: nobody has anything in hand.
LEMMA TrashInit == Init => TrashInv
<1> SUFFICES ASSUME Init PROVE TrashInv
  OBVIOUS
<1>1. \A o \in Ops : op[o] = Idle
  BY DEF Init
<1>2. Idling(Idle)
  BY DEF Idling, Chosen, Idle
<1>3. RecordTellsOrigin
  <2>1. \A t \in TrashNames : t \in Spots /\ t \notin Places
    BY SpotsApart DEF Spots
  <2> QED BY <2>1 DEF Init, RecordTellsOrigin
<1> QED BY <1>1, <1>2, <1>3, IdlingOK DEF TrashInv

\* Every step leaves the trash in order.
LEMMA TrashNext == TypeOK /\ TrashInv /\ [Next]_vars => TrashInv'
<1> SUFFICES ASSUME TypeOK, TrashInv, [Next]_vars PROVE TrashInv'
  OBVIOUS
<1>1. CASE UNCHANGED vars
  BY <1>1 DEF vars, TrashInv, RecordTellsOrigin
<1>2. CASE Next
  <2>0. PICK o \in Ops : Start(o) \/ Step(o) \/ CancelOp(o) \/ Stopped(o) \/ \E q \in Ops : GoesOn(o, q)
    BY <1>2 DEF Next
  <2>1. CASE Start(o)
    <3>1. OnlyOp(o) /\ Idling(op'[o])
      BY <2>1, StartOp DEF Idling, Chosen
    <3> QED BY <2>1, <3>1, QuietTrash DEF Start
  <2>2. CASE CancelOp(o)
    <3>1. OnlyOp(o) /\ Idling(op'[o])
      BY <2>2, CancelOpOp DEF Idling, Chosen, Cancellable, Batches, WindowsBatches
    <3> QED BY <2>2, <3>1, QuietTrash DEF CancelOp
  <2>3. CASE Stopped(o)
    <3>1. OnlyOp(o) /\ Idling(op'[o])
      BY <2>3, StoppedOp DEF Idling, Chosen
    <3> QED BY <2>3, <3>1, QuietTrash DEF Stopped
  <2>4. CASE Look(o)
    <3>1. OnlyOp(o) /\ Idling(op'[o])
      BY <2>4, LookOp DEF Idling, Chosen, Same
    <3> QED BY <2>4, <3>1, QuietTrash DEF Look
  <2>5. CASE ListForRestore(o)
    <3>1. OnlyOp(o) /\ Idling(op'[o])
      BY <2>5, ListForRestoreOp DEF Idling, Chosen
    <3> QED BY <2>5, <3>1, QuietTrash DEF ListForRestore
  <2>6. CASE RenameItem(o)
    BY <2>6, RenameTrash
  <2>7. CASE CopyItem(o)
    BY <2>7, CopyTrash
  <2>8. CASE CopyFails(o)
    BY <2>8, CopyFailsTrash
  <2>9. CASE RemoveSource(o)
    BY <2>9, RemoveSourceTrash
  <2>10. CASE ExportWarned(o) \/ CreateFile(o) \/ RemoveItem(o) \/ SaveFile(o)
    BY <2>10, OtherTrash
  <2>11. CASE WriteInfo(o)
    BY <2>11, WriteInfoTrash
  <2>12. CASE RemoveInfo(o)
    BY <2>12, RemoveInfoTrash
  <2>13. CASE ListForTrash(o)
    BY <2>13, ListForTrashTrash
  <2>14. CASE \E q \in Ops : GoesOn(o, q)
    BY <2>14, GoesOnTrash
  <2> QED BY <2>0, <2>1, <2>2, <2>3, <2>4, <2>5, <2>6, <2>7, <2>8, <2>9, <2>10, <2>11, <2>12,
             <2>13, <2>14 DEF Step
<1> QED BY <1>1, <1>2

\* The record of a trashed file names the place the file came from, whatever else is
\* trashed, restored, given up or left half done; except under a name that two
\* operations had in hand at once (trash.ts:73-133, 224-273).
THEOREM RecordsTellOrigin == Spec => []RecordTellsOrigin
<1>1. Init => TrashInv
  BY TrashInit
<1>2. TypeOK /\ TrashInv /\ [Next]_vars => TrashInv'
  BY TrashNext
<1>3. TrashInv => RecordTellsOrigin
  BY DEF TrashInv
<1> QED BY <1>1, <1>2, <1>3, TypeCorrect, PTL DEF Spec

-----------------------------------------------------------------------------
(* Nothing is lost *)

\* A file about to be replaced is none, or is seen to be destroyed in a race: the look
\* found the destination free, and the name of a trash batch is no file's.
LEMMA ReplacedIsRaced ==
  ASSUME TypeOK, TrashInv, NEW o \in Ops, op[o].pc = "act", Replaced(o)
  PROVE  raced \subseteq raced' /\ (files[To(o)] = Absent \/ files[To(o)] \in raced')
<1>1. CASE op[o].kind = "trash"
  <2>1. To(o) \notin contested => files[To(o)] = Absent
    BY <1>1, NameInHand
  <2> QED BY <1>1, <2>1 DEF Replaced, InRace
<1>2. CASE op[o].kind # "trash"
  <2>1. op[o].found = Absent
    BY <1>2 DEF TypeOK, OpsOK, OpOK, Where
  <2> QED BY <1>2, <2>1 DEF Replaced, InRace
<1> QED BY <1>1, <1>2

\* The source of an operation that did not change is where it was.
LEMMA FromStays ==
  ASSUME NEW q \in Ops, op'[q].kind = op[q].kind, op'[q].i = op[q].i,
         op'[q].items = op[q].items
  PROVE  From(q)' = From(q)
BY DEF From, Item

\* A spot that an operation is about to clear was so before a step of o, and has not been
\* written to; or it is the one that o has just copied.
LEMMA LeavingStep ==
  ASSUME NEW o \in Ops, OnlyOp(o), stale \ {o} \subseteq stale', NEW s \in Leaving'
  PROVE  \/ s \in Leaving /\ \A t : Touched(t) => s # t
         \/ op'[o].pc = "copied" /\ o \notin stale' /\ s = From(o)'
<1>1. PICK q \in Ops : op'[q].pc = "copied" /\ q \notin stale' /\ From(q)' = s
  BY DEF Leaving
<1>2. CASE q = o
  BY <1>1, <1>2
<1>3. CASE q # o
  <2>1. op'[q] = op[q] /\ q \notin stale
    BY <1>1, <1>3 DEF OnlyOp
  <2>2. From(q)' = From(q)
    BY <2>1, FromStays
  <2>3. \A t : Touched(t) => s # t
    BY <1>1, <2>1, <2>2 DEF Touched, Copiers
  <2>4. s \in Leaving
    BY <1>1, <2>1, <2>2 DEF Leaving
  <2> QED BY <2>3, <2>4
<1> QED BY <1>2, <1>3

\* No content that is whole is lost.
Keeping == \A c : c # Absent /\ Whole(c) => Whole(c)'

\* A step that changes no file and clears none.
LEMMA QuietKeeps ==
  ASSUME UNCHANGED <<files, given, raced>>, Leaving' \subseteq Leaving
  PROVE  Keeping
BY DEF Keeping, Whole

\* A step of o that copies nothing, and leaves what others have written to as it was.
LEMMA NoNewLeaving ==
  ASSUME NEW o \in Ops, OnlyOp(o), op'[o].pc # "copied", stale \ {o} \subseteq stale'
  PROVE  Leaving' \subseteq Leaving
BY LeavingStep

\* A step of o that writes to its destination: what was there is accounted for, and what
\* it has copied is there now.
LEMMA WriteKeeps ==
  ASSUME TypeOK, TrashInv, NEW o \in Ops, OnlyOp(o), op[o].pc = "act", UNCHANGED given,
         NEW v, files' = [files EXCEPT ![To(o)] = v], Replaced(o),
         \/ op'[o].pc # "copied"
         \/ v = files[From(o)] /\ From(o) # To(o) /\ Same(op[o], op'[o]) /\ op'[o].i = op[o].i
  PROVE  Keeping
<1>1. raced \subseteq raced' /\ (files[To(o)] = Absent \/ files[To(o)] \in raced')
  BY ReplacedIsRaced
<1>2. Touched(To(o)) /\ stale \ {o} \subseteq stale'
  BY DEF Replaced, Touched
<1>3. To(o) \in Spots /\ From(o) \in Spots /\ DOMAIN files = Spots
  BY Spotted DEF TypeOK, FilesOK, Running
<1>4. op'[o].pc = "copied" => From(o)' = From(o) /\ From(o) # To(o) /\ v = files[From(o)]
  BY FromStays DEF Same
<1>5. To(o) \notin Leaving'
  BY <1>2, <1>4, LeavingStep
<1>6. ASSUME NEW c, c # Absent, Whole(c)
      PROVE  Whole(c)'
  <2>1. CASE c \in given \union raced
    BY <2>1, <1>1 DEF Whole
  <2>2. CASE \E s \in Spots \ Leaving : files[s] = c
    <3>1. PICK s \in Spots \ Leaving : files[s] = c
      BY <2>2
    <3>2. CASE s = To(o)
      BY <1>1, <1>6, <3>1, <3>2 DEF Whole
    <3>3. CASE s # To(o) /\ s \notin Leaving'
      <4>1. files'[s] = c
        BY <1>3, <3>1, <3>3
      <4> QED BY <4>1, <3>3 DEF Whole
    <3>4. CASE s # To(o) /\ s \in Leaving'
      <4>1. op'[o].pc = "copied" /\ s = From(o)'
        BY <1>2, <3>1, <3>4, LeavingStep
      <4>2. files'[To(o)] = c
        BY <1>3, <1>4, <3>1, <4>1
      <4> QED BY <4>2, <1>3, <1>5 DEF Whole
    <3> QED BY <3>2, <3>3, <3>4
  <2> QED BY <1>6, <2>1, <2>2 DEF Whole
<1> QED BY <1>6 DEF Keeping

\* A rename: what it moves is at its destination.
LEMMA RenameKeeps == ASSUME TypeOK, TrashInv, NEW o \in Ops, RenameItem(o) PROVE Keeping
<1>0. op[o].pc = "act" /\ op[o].kind \in Moved /\ UNCHANGED given
  BY RenameOp
<1>p. OnlyOp(o) /\ op'[o].pc # "copied"
  BY <1>0, RenameOp DEF Concludes, After, Moved
<1>1. CASE UNCHANGED <<files, raced, stale>>
  BY <1>0, <1>p, <1>1, NoNewLeaving, QuietKeeps
<1>2. CASE /\ files[From(o)] # Absent /\ From(o) # To(o) /\ Replaced(o)
           /\ files' = [files EXCEPT ![To(o)] = files[From(o)], ![From(o)] = Absent]
  <2>1. raced \subseteq raced' /\ (files[To(o)] = Absent \/ files[To(o)] \in raced')
    BY <1>0, <1>2, ReplacedIsRaced
  <2>2. Touched(To(o)) /\ stale \ {o} \subseteq stale'
    BY <1>2 DEF Replaced, Touched
  <2>3. To(o) \in Spots /\ From(o) \in Spots /\ DOMAIN files = Spots
    BY <1>0, Spotted DEF TypeOK, FilesOK, Running
  <2>4. Leaving' \subseteq Leaving /\ To(o) \notin Leaving'
    BY <1>p, <2>2, LeavingStep
  <2>5. ASSUME NEW c, c # Absent, Whole(c)
        PROVE  Whole(c)'
    <3>1. CASE c \in given \union raced
      BY <3>1, <2>1, <1>0 DEF Whole
    <3>2. CASE \E s \in Spots \ Leaving : files[s] = c
      <4>1. PICK s \in Spots \ Leaving : files[s] = c
        BY <3>2
      <4>2. CASE s = To(o)
        BY <2>1, <2>5, <4>1, <4>2 DEF Whole
      <4>3. CASE s = From(o)
        <5>1. files'[To(o)] = c
          BY <1>2, <2>3, <4>1, <4>3
        <5> QED BY <5>1, <2>3, <2>4 DEF Whole
      <4>4. CASE s # To(o) /\ s # From(o)
        <5>1. files'[s] = c
          BY <1>2, <2>3, <4>1, <4>4
        <5> QED BY <5>1, <4>1, <2>4 DEF Whole
      <4> QED BY <4>2, <4>3, <4>4
    <3> QED BY <2>5, <3>1, <3>2 DEF Whole
  <2> QED BY <2>5 DEF Keeping
<1> QED BY <1>1, <1>2, RenameOp

\* A copy.
LEMMA CopyKeeps == ASSUME TypeOK, TrashInv, NEW o \in Ops, CopyItem(o) PROVE Keeping
<1>1. /\ op[o].pc = "act" /\ From(o) # To(o) /\ UNCHANGED given /\ Replaced(o)
      /\ files' = [files EXCEPT ![To(o)] = files[From(o)]]
  BY CopyOp
<1>2. CASE Concludes(o, TRUE) /\ op[o].kind \notin Moved
  <2>1. OnlyOp(o) /\ op'[o].pc # "copied"
    BY <1>2 DEF Concludes, After, Moved
  <2> QED BY <1>1, <2>1, WriteKeeps
<1>3. CASE OnlyOp(o) /\ Same(op[o], op'[o]) /\ op'[o].i = op[o].i
  BY <1>1, <1>3, WriteKeeps
<1> QED BY <1>2, <1>3, CopyOp

\* A copy that fails.
LEMMA CopyFailsKeeps == ASSUME TypeOK, TrashInv, NEW o \in Ops, CopyFails(o) PROVE Keeping
<1>1. op[o].pc = "act" /\ UNCHANGED given /\ OnlyOp(o) /\ op'[o].pc # "copied"
  BY CopyFailsOp DEF Concludes, After
<1>2. CASE UNCHANGED <<files, raced, stale>>
  BY <1>1, <1>2, NoNewLeaving, QuietKeeps
<1>3. CASE (\E c \in Held : files' = [files EXCEPT ![To(o)] = c]) /\ Replaced(o)
  BY <1>1, <1>3, WriteKeeps
<1> QED BY <1>2, <1>3, CopyFailsOp

\* An export of which cp only warned.
LEMMA ExportWarnedKeeps == ASSUME TypeOK, TrashInv, NEW o \in Ops, ExportWarned(o) PROVE Keeping
<1>1. op[o].pc = "act" /\ UNCHANGED given /\ OnlyOp(o) /\ op'[o].pc # "copied"
  BY ExportWarnedOp
<1>2. CASE UNCHANGED <<files, raced, stale>>
  BY <1>1, <1>2, NoNewLeaving, QuietKeeps
<1>3. CASE files' = [files EXCEPT ![To(o)] = files[From(o)]] /\ Replaced(o)
  BY <1>1, <1>3, WriteKeeps
<1> QED BY <1>2, <1>3, ExportWarnedOp

\* An empty file.
LEMMA CreateFileKeeps == ASSUME TypeOK, TrashInv, NEW o \in Ops, CreateFile(o) PROVE Keeping
<1>1. op[o].pc = "act" /\ op[o].kind = "create" /\ UNCHANGED given
  BY CreateFileOp
<1>p. OnlyOp(o) /\ op'[o].pc # "copied"
  BY <1>1, CreateFileOp DEF Concludes, After
<1>2. CASE UNCHANGED <<files, raced, stale>>
  BY <1>1, <1>p, <1>2, NoNewLeaving, QuietKeeps
<1>3. CASE files' = [files EXCEPT ![To(o)] = Item(o).content] /\ Replaced(o)
  BY <1>1, <1>p, <1>3, WriteKeeps
<1> QED BY <1>2, <1>3, CreateFileOp

\* The end of a move clears a spot that was to be left, or destroys in a race what came
\* to it since the copy.
LEMMA RemoveSourceKeeps == ASSUME TypeOK, NEW o \in Ops, RemoveSource(o) PROVE Keeping
<1>0. /\ op[o].pc = "copied" /\ op[o].kind \in Moved /\ UNCHANGED given /\ stale' = stale \ {o}
  BY RemoveSourceOp
<1>p. OnlyOp(o) /\ op'[o].pc # "copied"
  BY <1>0, RemoveSourceOp DEF Concludes, After, Moved
<1>l. Leaving' \subseteq Leaving
  BY <1>0, <1>p, NoNewLeaving
<1>1. CASE UNCHANGED <<files, raced>>
  BY <1>0, <1>l, <1>1, QuietKeeps
<1>2. CASE /\ files' = [files EXCEPT ![From(o)] = Absent]
           /\ raced' = IF o \in stale THEN raced \union {files[From(o)]} ELSE raced
  <2>1. From(o) \in Leaving \/ files[From(o)] \in raced'
    BY <1>0, <1>2 DEF Leaving
  <2>2. raced \subseteq raced' /\ From(o) \in Spots /\ DOMAIN files = Spots
    BY <1>0, <1>2, Spotted DEF TypeOK, FilesOK, Running
  <2>3. ASSUME NEW c, c # Absent, Whole(c)
        PROVE  Whole(c)'
    <3>1. CASE c \in given \union raced
      BY <3>1, <2>2, <1>0 DEF Whole
    <3>2. CASE \E s \in Spots \ Leaving : files[s] = c
      <4>1. PICK s \in Spots \ Leaving : files[s] = c
        BY <3>2
      <4>2. CASE s = From(o)
        BY <2>1, <4>1, <4>2 DEF Whole
      <4>3. CASE s # From(o)
        <5>1. files'[s] = c
          BY <1>2, <2>2, <4>1, <4>3
        <5> QED BY <5>1, <4>1, <1>l DEF Whole
      <4> QED BY <4>2, <4>3
    <3> QED BY <2>3, <3>1, <3>2 DEF Whole
  <2> QED BY <2>3 DEF Keeping
<1> QED BY <1>1, <1>2, RemoveSourceOp

\* What is deleted for good or replaced by a save is the user's doing, and the new text is
\* there.
LEMMA GivenKeeps ==
  ASSUME TypeOK, NEW o \in Ops, RemoveItem(o) \/ SaveFile(o)
  PROVE  /\ Keeping
         /\ SaveFile(o) /\ files' = [files EXCEPT ![To(o)] = Item(o).content] /\ Touched(To(o)) =>
              \A c : c = Item(o).content => Whole(c)'
<1>0. UNCHANGED raced /\ op[o].pc = "item" /\ op[o].kind \in {"remove", "save"}
      /\ stale \subseteq stale' /\ OnlyOp(o) /\ op'[o].pc # "copied"
  <2>1. CASE RemoveItem(o)
    BY <2>1, RemoveItemOp DEF Concludes, After
  <2>2. CASE SaveFile(o)
    <3>1. stale \subseteq stale'
      BY <2>2, SaveFileOp DEF Touched
    <3> QED BY <2>2, <3>1, SaveFileOp DEF Concludes, After
  <2> QED BY <2>1, <2>2
<1>s. From(o) \in Spots /\ To(o) \in Spots /\ DOMAIN files = Spots
  BY <1>0, Spotted DEF TypeOK, FilesOK, Running, Spots
<1>l. Leaving' \subseteq Leaving
  BY <1>0, NoNewLeaving
<1>1. ASSUME UNCHANGED <<files, given>>
      PROVE  Keeping
  BY <1>0, <1>l, <1>1, QuietKeeps
<1>2. ASSUME NEW t \in Spots, NEW v, files' = [files EXCEPT ![t] = v],
             given' = given \union {files[t]}
      PROVE  Keeping
  <2>1. ASSUME NEW c, c # Absent, Whole(c)
        PROVE  Whole(c)'
    <3>1. CASE c \in given \union raced
      BY <3>1, <1>2, <1>0 DEF Whole
    <3>2. CASE \E s \in Spots \ Leaving : files[s] = c
      <4>1. PICK s \in Spots \ Leaving : files[s] = c
        BY <3>2
      <4>2. CASE s = t
        BY <1>2, <4>1, <4>2 DEF Whole
      <4>3. CASE s # t
        <5>1. files'[s] = c
          BY <1>2, <1>s, <4>1, <4>3
        <5> QED BY <5>1, <4>1, <1>l DEF Whole
      <4> QED BY <4>2, <4>3
    <3> QED BY <2>1, <3>1, <3>2 DEF Whole
  <2> QED BY <2>1 DEF Keeping
<1>3. CASE RemoveItem(o)
  <2>1. ~SaveFile(o)
    BY <1>3, RemoveItemOp, SaveFileOp
  <2> QED BY <1>1, <1>2, <1>3, <1>s, <2>1, RemoveItemOp
<1>4. CASE SaveFile(o)
  <2>1. Keeping
    BY <1>1, <1>2, <1>4, <1>s, SaveFileOp
  <2>2. ASSUME files' = [files EXCEPT ![To(o)] = Item(o).content], Touched(To(o)),
               NEW c, c = Item(o).content
        PROVE  Whole(c)'
    <3>1. files' = [files EXCEPT ![To(o)] = c] /\ Touched(To(o))
      BY <2>2
    <3>2. To(o) \notin Leaving'
      BY <1>0, <3>1, LeavingStep
    <3>3. files'[To(o)] = c
      BY <1>s, <3>1
    <3> QED BY <1>s, <3>2, <3>3 DEF Whole
  <2> QED BY <2>1, <2>2
<1> QED BY <1>3, <1>4

\* A script that goes on is about to clear what its caller was.
LEMMA GoesOnKeeps ==
  ASSUME TypeOK, NEW o \in Ops, NEW q \in Ops, GoesOn(o, q)
  PROVE  Keeping
<1>1. /\ o # q /\ \A oo \in Ops \ {o, q} : op'[oo] = op[oo]
      /\ op'[o].pc \in {"item", "ended"}
      /\ op'[q].kind = op[o].kind /\ op'[q].pc = op[o].pc
      /\ op'[q].items[op'[q].i] = op[o].items[op[o].i]
  BY GoesOnOp
<1>2. UNCHANGED <<files, given, raced>>
      /\ stale' = IF o \in stale THEN (stale \ {o}) \union {q} ELSE stale
  BY DEF GoesOn
<1>3. ASSUME NEW s \in Leaving'
      PROVE  s \in Leaving
  <2>1. PICK r \in Ops : op'[r].pc = "copied" /\ r \notin stale' /\ From(r)' = s
    BY <1>3 DEF Leaving
  <2>2. CASE r = q
    <3>1. op[o].pc = "copied" /\ o \notin stale
      BY <1>1, <1>2, <2>1, <2>2
    <3>2. From(q)' = From(o)
      BY <1>1 DEF From, Item
    <3> QED BY <2>1, <2>2, <3>1, <3>2 DEF Leaving
  <2>3. CASE r # q
    <3>1. r # o /\ op'[r] = op[r] /\ r \notin stale
      BY <1>1, <1>2, <2>1, <2>3
    <3>2. From(r)' = From(r)
      BY <3>1, FromStays
    <3> QED BY <2>1, <3>1, <3>2 DEF Leaving
  <2> QED BY <2>2, <2>3
<1> QED BY <1>2, <1>3, QuietKeeps

\* Every step keeps the contents that were whole.
LEMMA KeepingNext == ASSUME TypeOK, TrashInv, Next PROVE Keeping
<1>0. PICK o \in Ops : Start(o) \/ Step(o) \/ CancelOp(o) \/ Stopped(o) \/ \E q \in Ops : GoesOn(o, q)
  BY DEF Next
<1>1. CASE Start(o)
  <2>1. OnlyOp(o) /\ op'[o].pc # "copied"
    BY <1>1, StartOp
  <2> QED BY <1>1, <2>1, NoNewLeaving, QuietKeeps DEF Start
<1>2. CASE CancelOp(o)
  <2>1. /\ OnlyOp(o) /\ op'[o].pc = op[o].pc /\ op'[o].i = op[o].i /\ op'[o].kind = op[o].kind
        /\ op'[o].items = op[o].items
    BY <1>2, CancelOpOp
  <2>2. From(o)' = From(o) /\ UNCHANGED <<files, given, raced, stale>>
    BY <1>2, <2>1, FromStays DEF CancelOp
  <2>3. ASSUME NEW s \in Leaving'
        PROVE  s \in Leaving
    <3>1. s \in Leaving \/ (op'[o].pc = "copied" /\ o \notin stale' /\ s = From(o)')
      BY <2>1, <2>2, LeavingStep
    <3> QED BY <2>1, <2>2, <3>1 DEF Leaving
  <2> QED BY <2>2, <2>3, QuietKeeps
<1>3. CASE Stopped(o)
  <2>1. OnlyOp(o) /\ op'[o].pc # "copied"
    BY <1>3, StoppedOp
  <2> QED BY <1>3, <2>1, NoNewLeaving, QuietKeeps DEF Stopped
<1>4. CASE Look(o)
  <2>1. OnlyOp(o) /\ op'[o].pc # "copied"
    BY <1>4, LookOp
  <2> QED BY <1>4, <2>1, NoNewLeaving, QuietKeeps DEF Look
<1>5. CASE ListForTrash(o)
  <2>1. OnlyOp(o) /\ op'[o].pc # "copied"
    BY <1>5, ListForTrashOp
  <2> QED BY <1>5, <2>1, NoNewLeaving, QuietKeeps DEF ListForTrash
<1>6. CASE WriteInfo(o)
  <2>1. OnlyOp(o) /\ op'[o].pc # "copied"
    BY <1>6, WriteInfoOp
  <2> QED BY <1>6, <2>1, NoNewLeaving, QuietKeeps DEF WriteInfo
<1>7. CASE ListForRestore(o)
  <2>1. OnlyOp(o) /\ op'[o].pc # "copied"
    BY <1>7, ListForRestoreOp
  <2> QED BY <1>7, <2>1, NoNewLeaving, QuietKeeps DEF ListForRestore
<1>8. CASE RemoveInfo(o)
  <2>1. OnlyOp(o) /\ op'[o].pc # "copied"
    BY <1>8, RemoveInfoOp
  <2> QED BY <1>8, <2>1, NoNewLeaving, QuietKeeps DEF RemoveInfo
<1>9. CASE RenameItem(o)
  BY <1>9, RenameKeeps
<1>10. CASE CopyItem(o)
  BY <1>10, CopyKeeps
<1>11. CASE CopyFails(o)
  BY <1>11, CopyFailsKeeps
<1>12. CASE ExportWarned(o)
  BY <1>12, ExportWarnedKeeps
<1>13. CASE RemoveSource(o)
  BY <1>13, RemoveSourceKeeps
<1>14. CASE CreateFile(o)
  BY <1>14, CreateFileKeeps
<1>15. CASE RemoveItem(o) \/ SaveFile(o)
  BY <1>15, GivenKeeps
<1>16. CASE \E q \in Ops : GoesOn(o, q)
  BY <1>16, GoesOnKeeps
<1> QED BY <1>0, <1>1, <1>2, <1>3, <1>4, <1>5, <1>6, <1>7, <1>8, <1>9, <1>10, <1>11, <1>12, <1>13,
           <1>14, <1>15, <1>16 DEF Step

\* What an operation has saved: the same after a step that saves nothing.
LEMMA SavedSame ==
  ASSUME NEW b, NEW e,
         \/ e.kind # "save"
         \/ e.applied = {}
         \/ e.kind = b.kind /\ e.items = b.items /\ (b.kind = "save" => e.applied = b.applied)
  PROVE  SavedBy(e) \subseteq SavedBy(b)
BY DEF SavedBy

\* A save adds its content to what is saved.
LEMMA SavedMore ==
  ASSUME NEW b, NEW e, e.kind = b.kind, e.items = b.items, b.kind = "save",
         e.applied = b.applied \union {b.i}
  PROVE  SavedBy(e) \subseteq SavedBy(b) \union {b.items[b.i].content}
BY DEF SavedBy

\* What a step adds to what is saved is the content of a save that has just been made.
LEMMA SavedStep ==
  ASSUME TypeOK, NEW o \in Ops, Start(o) \/ Step(o) \/ CancelOp(o) \/ Stopped(o)
  PROVE  /\ OnlyOp(o)
         /\ \/ SavedBy(op'[o]) \subseteq SavedBy(op[o])
            \/ /\ SaveFile(o)
               /\ files' = [files EXCEPT ![To(o)] = Item(o).content] /\ Touched(To(o))
               /\ SavedBy(op'[o]) \subseteq SavedBy(op[o]) \union {Item(o).content}
<1>0. OnlyOp(o)
  BY ActionOp
<1>a. OpOK(op[o])
  BY DEF TypeOK, OpsOK
<1>k. op[o].kind # "save" /\ Same(op[o], op'[o]) => SavedBy(op'[o]) \subseteq SavedBy(op[o])
  BY SavedSame DEF Same
<1>1. CASE Start(o)
  BY <1>0, <1>1, StartOp, SavedSame
<1>2. CASE CancelOp(o)
  BY <1>0, <1>2, CancelOpOp, SavedSame
<1>3. CASE Stopped(o)
  BY <1>0, <1>3, StoppedOp, SavedSame DEF Same
<1>4. CASE Look(o)
  BY <1>0, <1>k, <1>4, LookOp
<1>5. CASE RenameItem(o)
  BY <1>0, <1>k, <1>5, RenameOp DEF Concludes, After, Moved
<1>6. CASE CopyItem(o)
  <2>1. op[o].kind # "save"
    BY <1>a, <1>6, CopyOp DEF OpOK, Where
  <2> QED BY <1>0, <1>k, <1>6, <2>1, CopyOp DEF Concludes, After
<1>7. CASE CopyFails(o)
  <2>1. op[o].kind # "save"
    BY <1>a, <1>7, CopyFailsOp DEF OpOK, Where
  <2> QED BY <1>0, <1>k, <1>7, <2>1, CopyFailsOp DEF Concludes, After
<1>8. CASE ExportWarned(o)
  BY <1>0, <1>k, <1>8, ExportWarnedOp
<1>9. CASE RemoveSource(o)
  BY <1>0, <1>k, <1>9, RemoveSourceOp DEF Concludes, After, Moved
<1>10. CASE CreateFile(o)
  BY <1>0, <1>k, <1>10, CreateFileOp DEF Concludes, After
<1>11. CASE RemoveItem(o)
  BY <1>0, <1>k, <1>11, RemoveItemOp DEF Concludes, After
<1>12. CASE SaveFile(o)
  <2>1. op[o].kind = "save" /\ op[o].items[op[o].i] = Item(o)
    BY <1>12, SaveFileOp DEF Item
  <2>2. CASE Concludes(o, TRUE) /\ files' = [files EXCEPT ![To(o)] = Item(o).content] /\ Touched(To(o))
    <3>1. op'[o].kind = op[o].kind /\ op'[o].items = op[o].items
          /\ op'[o].applied = op[o].applied \union {op[o].i}
      BY <2>1, <2>2 DEF Concludes, After, Same
    <3>2. SavedBy(op'[o]) \subseteq SavedBy(op[o]) \union {Item(o).content}
      BY <2>1, <3>1, SavedMore
    <3> QED BY <1>0, <1>12, <2>2, <3>2
  <2>3. CASE Concludes(o, FALSE)
    <3>1. op'[o].kind = op[o].kind /\ op'[o].items = op[o].items /\ op'[o].applied = op[o].applied
      BY <2>1, <2>3 DEF Concludes, After, Same
    <3> QED BY <1>0, <3>1, SavedSame
  <2> QED BY <1>12, <2>2, <2>3, SaveFileOp
<1>13. CASE ListForTrash(o)
  BY <1>0, <1>13, ListForTrashOp, SavedSame
<1>14. CASE WriteInfo(o)
  BY <1>0, <1>k, <1>14, WriteInfoOp
<1>15. CASE ListForRestore(o)
  BY <1>0, <1>15, ListForRestoreOp, SavedSame
<1>16. CASE RemoveInfo(o)
  BY <1>0, <1>k, <1>16, RemoveInfoOp
<1> QED BY <1>1, <1>2, <1>3, <1>4, <1>5, <1>6, <1>7, <1>8, <1>9, <1>10, <1>11, <1>12, <1>13,
           <1>14, <1>15, <1>16 DEF Step

\* Every promised content is whole at the start.
LEMMA KeptInit == Init => KeptInv
<1> SUFFICES ASSUME Init, NEW c \in Promised PROVE Whole(c)
  BY DEF KeptInv
<1>1. Leaving = {}
  BY DEF Init, Leaving, Idle
<1>2. \A o \in Ops : SavedBy(op[o]) = {}
  BY DEF Init, SavedBy, Idle
<1>3. c \in Original
  BY <1>2 DEF Promised
<1>4. PICK p \in Places : c = scenario.files[p]
  BY <1>3 DEF Original
<1>5. p \in Spots /\ files[p] = c
  BY <1>4 DEF Init, Spots
<1> QED BY <1>1, <1>5 DEF Whole

\* Every step keeps every promised content whole.
LEMMA KeptNext == TypeOK /\ TrashInv /\ KeptInv /\ [Next]_vars => KeptInv'
<1> SUFFICES ASSUME TypeOK, TrashInv, KeptInv, [Next]_vars PROVE KeptInv'
  OBVIOUS
<1>1. CASE UNCHANGED vars
  <2>1. Promised' = Promised
    BY <1>1 DEF vars, Promised, Original
  <2>2. Leaving' = Leaving
    BY <1>1 DEF vars, Leaving, From, Item
  <2>3. \A c : Whole(c) => Whole(c)'
    BY <1>1, <2>2 DEF vars, Whole
  <2> QED BY <2>1, <2>3 DEF KeptInv
<1>2. CASE Next
  <2>1. Keeping
    BY <1>2, KeepingNext
  <2>2. Original' = Original
    BY <1>2, BudgetNext DEF Original
  <2>3. PICK o \in Ops : Start(o) \/ Step(o) \/ CancelOp(o) \/ Stopped(o) \/ \E q \in Ops : GoesOn(o, q)
    BY <1>2 DEF Next
  <2>4. \A c : c \in Promised => c # Absent /\ Whole(c)
    BY DEF Promised, KeptInv
  <2>5. ASSUME \A q \in Ops : SavedBy(op'[q]) \subseteq SavedBy(op[q])
        PROVE  KeptInv'
    <3>1. \A c : c \in Promised' => c \in Promised
      BY <2>2, <2>5 DEF Promised
    <3> QED BY <2>1, <2>4, <3>1 DEF Keeping, KeptInv
  <2>6. CASE \E q \in Ops : GoesOn(o, q)
    <3>1. PICK q \in Ops : GoesOn(o, q)
      BY <2>6
    <3>2. SavedBy(op'[o]) \subseteq SavedBy(op[o])
      BY <3>1, GoesOnOp, SavedSame DEF Same
    <3>3. SavedBy(op'[q]) \subseteq SavedBy(op[q])
      BY <3>1, GoesOnOp, SavedSame
    <3>4. \A r \in Ops \ {o, q} : op'[r] = op[r]
      BY <3>1, GoesOnOp
    <3>5. \A r \in Ops : SavedBy(op'[r]) \subseteq SavedBy(op[r])
      BY <3>2, <3>3, <3>4
    <3> QED BY <2>5, <3>5
  <2>7. CASE Start(o) \/ Step(o) \/ CancelOp(o) \/ Stopped(o)
    <3>1. OnlyOp(o)
      BY <2>7, SavedStep
    <3>2. CASE SavedBy(op'[o]) \subseteq SavedBy(op[o])
      BY <2>5, <3>1, <3>2 DEF OnlyOp
    <3>3. CASE /\ SaveFile(o)
               /\ files' = [files EXCEPT ![To(o)] = Item(o).content] /\ Touched(To(o))
               /\ SavedBy(op'[o]) \subseteq SavedBy(op[o]) \union {Item(o).content}
      <4>1. \A c : c \in Promised' => c \in Promised \/ c = Item(o).content
        BY <2>2, <3>1, <3>3 DEF Promised, OnlyOp
      <4>2. \A c : c = Item(o).content => Whole(c)'
        BY <3>3, GivenKeeps
      <4> QED BY <2>1, <2>4, <4>1, <4>2 DEF Keeping, KeptInv
    <3> QED BY <2>7, <3>2, <3>3, SavedStep
  <2> QED BY <2>3, <2>6, <2>7
<1> QED BY <1>1, <1>2

\* No operation costs the user a file or a saved text, alone or beside others, however it
\* fails, is cancelled or is given up half-way; except what the named races destroy: a
\* file that came to a destination since the look at it, to a source since its copy, or
\* under a name in the trash that two operations had in hand (operations.ts, transfer.ts,
\* windows.ts, trash.ts, editor.ts).
THEOREM NothingIsLost == Spec => []NothingLost
<1>1. Init => TrashInv /\ KeptInv
  BY TrashInit, KeptInit
<1>2. TypeOK /\ TrashInv /\ KeptInv /\ [Next]_vars => TrashInv' /\ KeptInv'
  BY TrashNext, KeptNext
<1>3. KeptInv => NothingLost
  BY DEF KeptInv, Whole, NothingLost, Kept
<1> QED BY <1>1, <1>2, <1>3, TypeCorrect, PTL DEF Spec

-----------------------------------------------------------------------------
(* The pane: types *)

Kinds == {"navigate", "history", "start", "fallback", "refresh", "toggle", "search", "measure"}
CallType ==
  [id : Nat, kind : Kinds, path : Paths, replace : BOOLEAN, distro : Distros,
   behind : BOOLEAN, age : Nat, hidden : BOOLEAN]
Results == [distro : Distros, path : Paths, age : Nat, behind : BOOLEAN]
Listings == [distro : Distros, path : Paths, hidden : BOOLEAN]
Panels ==
  [status : {"closed", "running", "ready", "error"}, path : Paths \union {None},
   of : Results \union {None}]
PaneType ==
  [key : Distros \union {None}, path : Paths \union {None}, shown : Listings \union {None},
   back : Seq(Paths), forward : Seq(Paths), hidden : BOOLEAN, error : BOOLEAN, found : Paths \union {None},
   token : Nat \union {None}, sizes : Panels, cache : [Paths -> Results \union {None}]]

CallsOK == calls \subseteq CallType /\ IsFiniteSet(calls)
PaneTypeOK ==
  /\ selected \in Distros /\ notices \in Seq(Distros)
  /\ pane \in PaneType /\ CallsOK
  /\ age \in [Paths -> Nat] /\ repaired \in {"no", "asked", "listed", "failed"}

-----------------------------------------------------------------------------
(* The invariants *)

\* A call is known by its id, and a pane with no notice on its way knows the distro.
IdsDiffer == \A c, e \in calls : c.id = e.id => c = e
KeyInv ==
  /\ notices = <<>> => pane.key = selected
  /\ notices # <<>> => notices[Len(notices)] = selected

\* What a call to measure will tell is current, or its caller was behind.
Tells(c) ==
  /\ c.kind = "measure" /\ c.path = pane.path /\ c.age = age[c.path]
  /\ c.distro = pane.key \/ c.behind
\* The token in force is that of a measurement of the directory shown.
TokenInv ==
  pane.token # None =>
    /\ pane.sizes.status = "running" /\ pane.sizes.path = pane.path
    /\ \E c \in calls : c.id = pane.token /\ Tells(c)
SizesInv == SizesAreCurrent /\ TokenInv

\* The listing a repaired pane should show.
Right == [distro |-> selected, path |-> pane.path, hidden |-> pane.hidden]
Repairs(c) == c.path = pane.path /\ c.distro = selected /\ c.hidden = pane.hidden
RepairInv ==
  /\ repaired # "no" =>
       /\ notices = <<>>
       /\ \A c \in calls : c.kind \in {"search", "measure"} \/ (c.kind = "refresh" /\ Repairs(c))
  /\ repaired = "asked" => \A c, e \in calls : c.kind = "refresh" /\ e.kind = "refresh" => c = e
  /\ repaired \in {"listed", "failed"} => \A c \in calls : c.kind # "refresh"
  /\ RefreshRepairs

PaneInv == IdsDiffer /\ KeyInv /\ SizesInv /\ RepairInv

-----------------------------------------------------------------------------
(* Calls *)

\* There is always an id that no call has.
LEMMA IdIsFree ==
  ASSUME CallsOK
  PROVE  Id \in Nat /\ \A c \in calls : c.id # Id
<1> DEFINE n == Cardinality(calls)
           h == [i \in 0..n |-> CHOOSE c \in calls : c.id = i]
<1>1. IsFiniteSet(calls) /\ n \in Nat
  BY FS_CardinalityType DEF CallsOK
<1>2. SUFFICES ASSUME \A i \in 0..n : \E c \in calls : c.id = i
               PROVE  FALSE
  <2>1. PICK i \in 0..n : \A c \in calls : c.id # i
    BY <1>2
  <2> QED BY <1>1, <2>1 DEF Id
<1>3. \A i \in 0..n : h[i] \in calls /\ h[i].id = i
  BY <1>2
<1>4. h \in [0..n -> calls]
  BY <1>3
<1> HIDE DEF h
<1>5. 0 \in Int /\ n \in Int
  BY <1>1
<1> HIDE DEF n
<1>6. IsFiniteSet(0..n) /\ Cardinality(0..n) = n + 1
  <2>1. IsFiniteSet(0..n) /\ Cardinality(0..n) = IF 0 > n THEN 0 ELSE n - 0 + 1
    BY <1>5, FS_Interval
  <2> QED BY <1>1, <2>1
<1>7. Cardinality(calls) < Cardinality(0..n)
  BY <1>1, <1>6 DEF n
<1>8. \E i, j \in 0..n : i # j /\ h[i] = h[j]
  BY <1>1, <1>4, <1>6, <1>7, FS_PigeonHole
<1> QED BY <1>3, <1>8

\* A call issued carries what the pane asked for, under an id no other call has.
LEMMA CallOK ==
  ASSUME PaneTypeOK, NEW kind \in Kinds, NEW p \in Paths
  PROVE  /\ Call(kind, p) \in CallType
         /\ Call(kind, p).id = Id /\ Call(kind, p).kind = kind /\ Call(kind, p).path = p
         /\ Call(kind, p).distro = selected /\ Call(kind, p).behind = (notices # <<>>)
         /\ Call(kind, p).age = age[p]
         /\ Call(kind, p).hidden = pane.hidden
<1>1. Id \in Nat
  BY IdIsFree DEF PaneTypeOK
<1> HIDE DEF Id
<1>2. age[p] \in Nat /\ pane.hidden \in BOOLEAN
  BY DEF PaneTypeOK, PaneType
<1> QED BY <1>1, <1>2 DEF Call, CallType, PaneTypeOK

\* One call more, one less, and one in the place of another.
LEMMA MoreCalls ==
  ASSUME CallsOK, IdsDiffer, NEW c \in CallType, c.id = Id, calls' = calls \union {c}
  PROVE  CallsOK' /\ IdsDiffer'
BY IdIsFree, FS_AddElement DEF CallsOK, IdsDiffer

\* Fewer calls still differ in id.
LEMMA FewerCalls ==
  ASSUME CallsOK, IdsDiffer, NEW c \in calls, calls' = calls \ {c}
  PROVE  CallsOK' /\ IdsDiffer'
BY FS_RemoveElement DEF CallsOK, IdsDiffer

\* A call replaced by one of the same id leaves ids different.
LEMMA OtherCall ==
  ASSUME CallsOK, IdsDiffer, NEW c \in calls, NEW e \in CallType, e.id = c.id,
         calls' = (calls \ {c}) \union {e}
  PROVE  CallsOK' /\ IdsDiffer'
BY FS_RemoveElement, FS_AddElement DEF CallsOK, IdsDiffer

-----------------------------------------------------------------------------
(* What the handlers make of the pane *)

\* A closed panel is a panel.
LEMMA ClosedOK == Closed \in Panels
BY DEF Closed, Panels

\* Another directory arriving clears the token and the sizes shown.
LEMMA ArrivedOK ==
  ASSUME NEW p \in PaneType, NEW c \in CallType
  PROVE  LET q == Arrived(p, c)
         IN  /\ q \in PaneType
             /\ q.key = p.key /\ q.token = None /\ q.sizes = Closed /\ q.cache = p.cache
<1> DEFINE moved == ~c.replace /\ p.path # None /\ p.path # c.path
           shown == [distro |-> c.distro, path |-> c.path, hidden |-> c.hidden]
           back == IF moved THEN Append(p.back, p.path) ELSE p.back
           forward == IF moved THEN <<>> ELSE p.forward
           q == [p EXCEPT !.path = c.path, !.shown = shown, !.back = back, !.forward = forward,
                          !.error = FALSE, !.found = None, !.token = None, !.sizes = Closed]
<1>1. shown \in Listings /\ c.path \in Paths
  BY DEF Listings, CallType
<1>2. /\ p.back \in Seq(Paths) /\ p.forward \in Seq(Paths) /\ p.path \in Paths \union {None}
      /\ <<>> \in Seq(Paths)
  BY DEF PaneType
<1>3. back \in Seq(Paths) /\ forward \in Seq(Paths)
  BY <1>2
<1>4. Arrived(p, c) = q
  BY DEF Arrived
<1> HIDE DEF moved, shown, back, forward
<1>5. q \in PaneType /\ q.key = p.key /\ q.token = None /\ q.sizes = Closed /\ q.cache = p.cache
  BY <1>1, <1>3, ClosedOK DEF PaneType
<1> HIDE DEF q
<1> QED BY <1>4, <1>5

\* Forgetting the sizes of the shown directory forgets no other's.
LEMMA ForgetOK ==
  ASSUME NEW p \in PaneType, p.path \in Paths
  PROVE  LET q == ForgetSizes(p)
         IN  /\ q \in PaneType
             /\ q.key = p.key /\ q.path = p.path /\ q.hidden = p.hidden
             /\ q.token = None /\ q.sizes = Closed
             /\ q.cache[p.path] = None
             /\ \A a \in Paths : a # p.path => q.cache[a] = p.cache[a]
<1> DEFINE cache == [p.cache EXCEPT ![p.path] = None]
           q == [p EXCEPT !.cache = cache, !.token = None, !.sizes = Closed]
<1>1. /\ cache \in [Paths -> Results \union {None}] /\ cache[p.path] = None
      /\ \A a \in Paths : a # p.path => cache[a] = p.cache[a]
  BY DEF PaneType
<1>2. ForgetSizes(p) = q
  BY DEF ForgetSizes
<1> HIDE DEF cache
<1>3. /\ q \in PaneType /\ q.key = p.key /\ q.path = p.path /\ q.hidden = p.hidden
      /\ q.token = None /\ q.sizes = Closed /\ q.cache = cache
  BY <1>1, ClosedOK DEF PaneType
<1> HIDE DEF q
<1> QED BY <1>1, <1>2, <1>3

\* The sizes are not touched.
SameSizes(p, q) ==
  /\ q.key = p.key /\ q.path = p.path /\ q.token = p.token /\ q.sizes = p.sizes
  /\ q.cache = p.cache

\* A listing of the same directory leaves its sizes alone.
LEMMA RelistedOK ==
  ASSUME NEW p \in PaneType, NEW c \in CallType, NEW ok \in BOOLEAN
  PROVE  LET q == Relisted(p, c, ok)
         IN  /\ q \in PaneType /\ SameSizes(p, q) /\ q.hidden = p.hidden /\ q.error = ~ok
             /\ ok => q.shown = [distro |-> c.distro, path |-> c.path, hidden |-> c.hidden]
<1> DEFINE shown == [distro |-> c.distro, path |-> c.path, hidden |-> c.hidden]
           q == [p EXCEPT !.shown = shown, !.error = FALSE]
           e == [p EXCEPT !.error = TRUE]
<1>1. shown \in Listings
  BY DEF Listings, CallType
<1> HIDE DEF shown
<1>2. /\ q \in PaneType /\ SameSizes(p, q) /\ q.hidden = p.hidden /\ q.shown = shown
      /\ q.error = FALSE
  BY <1>1 DEF PaneType, SameSizes
<1>3. e \in PaneType /\ SameSizes(p, e) /\ e.hidden = p.hidden /\ e.error = TRUE
  BY DEF PaneType, SameSizes
<1>4. Relisted(p, c, ok) = IF ok THEN q ELSE e
  BY DEF Relisted, shown
<1> HIDE DEF q, e
<1>5. CASE ok
  BY <1>2, <1>4, <1>5 DEF shown
<1>6. CASE ~ok
  BY <1>3, <1>4, <1>6
<1> QED BY <1>5, <1>6

\* A pane for another distro starts with nothing of the one before.
LEMMA FreshOK ==
  ASSUME NEW p \in PaneType, NEW d \in Distros
  PROVE  /\ Reset(p, d) \in PaneType
         /\ Reset(p, d).key = d /\ Reset(p, d).token = None /\ Reset(p, d).sizes = Closed
         /\ Reset(p, d).path = None
         /\ \A a \in Paths : Reset(p, d).cache[a] = None
<1> DEFINE f == Fresh(d)
           q == [f EXCEPT !.shown = p.shown, !.error = p.error, !.found = p.found]
           cache == [a \in Paths |-> None]
<1>1. cache \in [Paths -> Results \union {None}] /\ \A a \in Paths : cache[a] = None
  OBVIOUS
<1>2. f = [key |-> d, path |-> None, shown |-> None, back |-> <<>>, forward |-> <<>>,
           hidden |-> FALSE, error |-> FALSE, found |-> None, token |-> None, sizes |-> Closed,
           cache |-> cache]
  BY DEF Fresh
<1>3. <<>> \in Seq(Paths)
  OBVIOUS
<1> HIDE DEF cache, f
<1>4. /\ f \in PaneType /\ f.key = d /\ f.token = None /\ f.sizes = Closed /\ f.path = None
      /\ f.cache = cache
  BY <1>1, <1>2, <1>3, ClosedOK DEF PaneType
<1>5. /\ q \in PaneType /\ q.key = f.key /\ q.token = f.token /\ q.sizes = f.sizes
      /\ q.path = f.path /\ q.cache = f.cache
  BY <1>4 DEF PaneType
<1>6. Reset(p, d) = q
  BY DEF Reset, f
<1> HIDE DEF q
<1> QED BY <1>1, <1>4, <1>5, <1>6

-----------------------------------------------------------------------------
(* The sizes, through what does not measure *)

\* Sizes stay current where neither they, nor the files, nor the measurement asked for change.
LEMMA SizesKept ==
  ASSUME SizesInv, SameSizes(pane, pane'), age' = age,
         \A c \in calls : c.kind = "measure" => c \in calls'
  PROVE  SizesInv'
<1>1. SizesAreCurrent'
  BY DEF SizesInv, SizesAreCurrent, Current, SameSizes
<1>2. TokenInv'
  BY DEF SizesInv, TokenInv, Tells, SameSizes
<1> QED BY <1>1, <1>2 DEF SizesInv

\* Without a token and with the panel closed there is nothing to be stale.
LEMMA SizesClosed ==
  ASSUME SizesInv, pane'.key = pane.key, pane'.token = None, pane'.sizes = Closed, age' = age,
         pane'.cache = pane.cache
  PROVE  SizesInv'
<1>1. pane'.sizes.status = "closed"
  BY DEF Closed
<1> QED BY <1>1 DEF SizesInv, SizesAreCurrent, Current, TokenInv

-----------------------------------------------------------------------------
(* Navigation *)

\* Going to a path.
LEMMA NavigateInv ==
  ASSUME PaneTypeOK, PaneInv, NEW p \in Paths, Navigate(p)
  PROVE  PaneTypeOK' /\ PaneInv'
<1> DEFINE c == Call("navigate", p)
<1>1. c \in CallType /\ c.id = Id
  BY CallOK DEF Kinds
<1>2. calls' = calls \union {c} /\ UNCHANGED <<selected, notices, pane, age>> /\ repaired' = "no"
  BY DEF Navigate, Issue
<1> HIDE DEF c
<1>3. CallsOK' /\ IdsDiffer'
  BY <1>1, <1>2, MoreCalls DEF PaneTypeOK, PaneInv
<1>4. SizesInv'
  BY <1>2, SizesKept DEF PaneInv, SameSizes
<1> QED BY <1>2, <1>3, <1>4 DEF PaneTypeOK, PaneInv, KeyInv, RepairInv, RefreshRepairs

\* Going back or forward.
LEMMA HistoryInv ==
  ASSUME PaneTypeOK, PaneInv, GoBackOrForward
  PROVE  PaneTypeOK' /\ PaneInv'
<1>1. /\ UNCHANGED <<selected, notices, age>> /\ repaired' = "no"
      /\ Shift("back", "forward") \/ Shift("forward", "back")
  BY DEF GoBackOrForward
<1>2. /\ pane' \in PaneType /\ SameSizes(pane, pane')
      /\ \E p \in Paths : Issue("history", p)
  <2>1. pane.back \in Seq(Paths) /\ pane.forward \in Seq(Paths) /\ pane.path \in Paths \union {None}
    BY DEF PaneTypeOK, PaneType
  <2>2. CASE Shift("back", "forward")
    <3> DEFINE back == Front(pane.back)
               forward == IF pane.path = None THEN pane.forward ELSE Append(pane.forward, pane.path)
    <3>1. pane.back # <<>> /\ Issue("history", Last(pane.back))
      BY <2>2 DEF Shift
    <3>2. pane' = [pane EXCEPT !.back = back, !.forward = forward]
      BY <2>2 DEF Shift
    <3>3. back \in Seq(Paths) /\ forward \in Seq(Paths) /\ Last(pane.back) \in Paths
      BY <2>1, <3>1 DEF Front, Last
    <3> HIDE DEF back, forward
    <3>4. pane' \in PaneType /\ SameSizes(pane, pane')
      BY <3>2, <3>3 DEF PaneTypeOK, PaneType, SameSizes
    <3> QED BY <3>1, <3>3, <3>4
  <2>3. CASE Shift("forward", "back")
    <3> DEFINE forward == Front(pane.forward)
               back == IF pane.path = None THEN pane.back ELSE Append(pane.back, pane.path)
    <3>1. pane.forward # <<>> /\ Issue("history", Last(pane.forward))
      BY <2>3 DEF Shift
    <3>2. pane' = [pane EXCEPT !.forward = forward, !.back = back]
      BY <2>3 DEF Shift
    <3>3. back \in Seq(Paths) /\ forward \in Seq(Paths) /\ Last(pane.forward) \in Paths
      BY <2>1, <3>1 DEF Front, Last
    <3> HIDE DEF back, forward
    <3>4. pane' \in PaneType /\ SameSizes(pane, pane')
      BY <3>2, <3>3 DEF PaneTypeOK, PaneType, SameSizes
    <3> QED BY <3>1, <3>3, <3>4
  <2> QED BY <1>1, <2>2, <2>3
<1>3. PICK p \in Paths : Issue("history", p)
  BY <1>2
<1> DEFINE c == Call("history", p)
<1>4. c \in CallType /\ c.id = Id
  BY CallOK DEF Kinds
<1>5. calls' = calls \union {c}
  BY <1>3 DEF Issue
<1> HIDE DEF c
<1>6. CallsOK' /\ IdsDiffer'
  BY <1>4, <1>5, MoreCalls DEF PaneTypeOK, PaneInv
<1>7. SizesInv'
  BY <1>1, <1>2, <1>5, SizesKept DEF PaneInv
<1>8. KeyInv'
  BY <1>1, <1>2 DEF PaneInv, KeyInv, SameSizes
<1> QED BY <1>1, <1>2, <1>6, <1>7, <1>8 DEF PaneTypeOK, PaneInv, RepairInv, RefreshRepairs

\* The listing of the path gone to.
LEMMA NavigateAnsweredInv ==
  ASSUME PaneTypeOK, PaneInv, NEW c \in calls, NEW ok \in Ends(c), NavigateAnswered(c, ok)
  PROVE  PaneTypeOK' /\ PaneInv'
<1>1. /\ UNCHANGED <<selected, notices, age, repaired>> /\ c \in CallType
      /\ c.kind \in {"navigate", "history", "start", "fallback"}
  BY DEF NavigateAnswered, PaneTypeOK, CallsOK
<1>2. pane' = IF ok THEN Arrived(pane, c) ELSE pane
  BY DEF NavigateAnswered
<1>3. /\ CallsOK' /\ IdsDiffer'
      /\ \A e \in calls : e.kind = "measure" => e \in calls'
  <2>1. CASE calls' = calls \ {c}
    BY <1>1, <2>1, FewerCalls DEF PaneTypeOK, PaneInv
  <2>2. CASE calls' = (calls \ {c}) \union {[Call("fallback", Home) EXCEPT !.id = c.id]}
    <3> DEFINE f == Call("fallback", Home)
               e == [f EXCEPT !.id = c.id]
    <3>1. f \in CallType
      BY CallOK, PathAssumption DEF Kinds
    <3> HIDE DEF f
    <3>2. e \in CallType /\ e.id = c.id
      BY <1>1, <3>1 DEF CallType
    <3>3. calls' = (calls \ {c}) \union {e}
      BY <2>2 DEF f
    <3> HIDE DEF e
    <3> QED BY <1>1, <3>2, <3>3, OtherCall DEF PaneTypeOK, PaneInv
  <2> QED BY <2>1, <2>2 DEF NavigateAnswered
<1>4. repaired = "no"
  BY <1>1 DEF PaneInv, RepairInv
<1>5. CASE ok
  <2>1. /\ pane' \in PaneType /\ pane'.key = pane.key /\ pane'.token = None
        /\ pane'.sizes = Closed /\ pane'.cache = pane.cache
    BY <1>1, <1>2, <1>5, ArrivedOK DEF PaneTypeOK
  <2>2. SizesInv' /\ KeyInv'
    BY <1>1, <2>1, SizesClosed DEF PaneInv, KeyInv
  <2> QED BY <1>1, <1>3, <1>4, <2>1, <2>2 DEF PaneTypeOK, PaneInv, RepairInv, RefreshRepairs
<1>6. CASE ~ok
  <2>1. pane' = pane
    BY <1>2, <1>6
  <2>2. SizesInv' /\ KeyInv'
    BY <1>1, <1>3, <2>1, SizesKept DEF PaneInv, KeyInv, SameSizes
  <2> QED BY <1>1, <1>3, <1>4, <2>1, <2>2 DEF PaneTypeOK, PaneInv, RepairInv, RefreshRepairs
<1> QED BY <1>5, <1>6

-----------------------------------------------------------------------------
(* The same directory again *)

\* Refreshing the shown directory.
LEMMA RefreshDirInv ==
  ASSUME PaneTypeOK, PaneInv, RefreshDir
  PROVE  PaneTypeOK' /\ PaneInv'
<1> DEFINE c == Call("refresh", pane.path)
<1>1. /\ UNCHANGED <<selected, notices>> /\ pane' = ForgetSizes(pane)
      /\ age' = [age EXCEPT ![pane.path] = @ + 1]
      /\ repaired' = (IF calls = {} /\ notices = <<>> THEN "asked" ELSE "no") /\ calls' = calls \union {c}
      /\ pane.path # None
  BY DEF RefreshDir, Issue
<1>2. pane.path \in Paths
  BY <1>1 DEF PaneTypeOK, PaneType
<1>3. /\ c \in CallType /\ c.id = Id /\ c.kind = "refresh" /\ c.path = pane.path
      /\ c.distro = selected /\ c.hidden = pane.hidden
  BY <1>2, CallOK DEF Kinds
<1> HIDE DEF c
<1>4. CallsOK' /\ IdsDiffer'
  BY <1>1, <1>3, MoreCalls DEF PaneTypeOK, PaneInv
<1>5. /\ pane' \in PaneType /\ pane'.key = pane.key /\ pane'.path = pane.path
      /\ pane'.hidden = pane.hidden /\ pane'.token = None /\ pane'.sizes = Closed
      /\ pane'.cache[pane.path] = None
      /\ \A a \in Paths : a # pane.path => pane'.cache[a] = pane.cache[a]
  BY <1>1, <1>2, ForgetOK DEF PaneTypeOK
<1>6. age' \in [Paths -> Nat] /\ \A a \in Paths : a # pane.path => age'[a] = age[a]
  BY <1>1, <1>2 DEF PaneTypeOK
<1>7. SizesInv'
  <2>1. pane'.sizes.status = "closed"
    BY <1>5 DEF Closed
  <2>2. SizesAreCurrent'
    BY <1>5, <1>6, <2>1 DEF PaneInv, SizesInv, SizesAreCurrent, Current
  <2> QED BY <1>5, <2>2 DEF SizesInv, TokenInv
<1>8. KeyInv'
  BY <1>1, <1>5 DEF PaneInv, KeyInv
<1>9. RepairInv'
  BY <1>1, <1>3, <1>5 DEF RepairInv, Repairs, RefreshRepairs
<1> QED BY <1>1, <1>4, <1>5, <1>6, <1>7, <1>8, <1>9 DEF PaneTypeOK, PaneInv

\* Showing or hiding the hidden files.
LEMMA ToggleHiddenInv ==
  ASSUME PaneTypeOK, PaneInv, ToggleHidden
  PROVE  PaneTypeOK' /\ PaneInv'
<1>1. UNCHANGED <<selected, notices, age>> /\ repaired' = "no"
  BY DEF ToggleHidden
<1>2. pane' \in PaneType /\ SameSizes(pane, pane')
  <2> DEFINE hidden == ~pane.hidden
  <2>1. pane' = [pane EXCEPT !.hidden = hidden]
    BY DEF ToggleHidden
  <2>2. hidden \in BOOLEAN
    BY DEF PaneTypeOK, PaneType
  <2> HIDE DEF hidden
  <2> QED BY <2>1, <2>2 DEF PaneTypeOK, PaneType, SameSizes
<1>3. CallsOK' /\ IdsDiffer' /\ calls \subseteq calls'
  <2>1. CASE calls' = calls
    BY <2>1 DEF PaneTypeOK, CallsOK, PaneInv, IdsDiffer
  <2>2. CASE /\ pane.path # None
             /\ calls' = calls \union {[Call("toggle", pane.path) EXCEPT !.hidden = ~pane.hidden]}
    <3> DEFINE f == Call("toggle", pane.path)
               hidden == ~pane.hidden
               e == [f EXCEPT !.hidden = hidden]
    <3>1. f \in CallType /\ f.id = Id /\ hidden \in BOOLEAN
      BY <2>2, CallOK DEF Kinds, PaneTypeOK, PaneType
    <3>2. calls' = calls \union {e}
      BY <2>2
    <3> HIDE DEF f, hidden
    <3>3. e \in CallType /\ e.id = Id
      BY <3>1 DEF CallType
    <3> HIDE DEF e
    <3> QED BY <3>2, <3>3, MoreCalls DEF PaneTypeOK, PaneInv
  <2> QED BY <2>1, <2>2 DEF ToggleHidden
<1>4. SizesInv' /\ KeyInv'
  BY <1>1, <1>2, <1>3, SizesKept DEF PaneInv, KeyInv, SameSizes
<1> QED BY <1>1, <1>2, <1>3, <1>4 DEF PaneTypeOK, PaneInv, RepairInv, RefreshRepairs

\* The listing of a refresh or a toggle.
LEMMA ReansweredInv ==
  ASSUME PaneTypeOK, PaneInv, NEW c \in calls, NEW ok \in Ends(c), Reanswered(c, ok)
  PROVE  PaneTypeOK' /\ PaneInv'
<1>1. /\ UNCHANGED <<selected, notices, age>> /\ c \in CallType
      /\ c.kind \in {"refresh", "toggle"} /\ calls' = calls \ {c} /\ pane' = Relisted(pane, c, ok)
  BY DEF Reanswered, PaneTypeOK, CallsOK
<1>7. ok \in BOOLEAN
  BY DEF Ends
<1>2. CallsOK' /\ IdsDiffer'
  BY <1>1, FewerCalls DEF PaneTypeOK, PaneInv
<1>3. /\ pane' \in PaneType /\ SameSizes(pane, pane') /\ pane'.hidden = pane.hidden
      /\ pane'.error = ~ok
      /\ ok => pane'.shown = [distro |-> c.distro, path |-> c.path, hidden |-> c.hidden]
  BY <1>1, <1>7, RelistedOK DEF PaneTypeOK
<1>4. SizesInv' /\ KeyInv'
  BY <1>1, <1>3, SizesKept DEF PaneInv, KeyInv, SameSizes
<1>5. CASE repaired = "no"
  <2>1. repaired' = "no"
    BY <1>5 DEF Reanswered
  <2>2. RepairInv'
    BY <2>1 DEF RepairInv, RefreshRepairs
  <2> QED BY <1>1, <1>2, <1>3, <1>4, <2>1, <2>2 DEF PaneTypeOK, PaneInv
<1>6. CASE repaired # "no"
  <2>1. /\ notices = <<>> /\ c.kind = "refresh" /\ Repairs(c) /\ repaired = "asked"
    BY <1>1, <1>6 DEF PaneInv, RepairInv, PaneTypeOK
  <2>2. repaired' = IF ok THEN "listed" ELSE "failed"
    BY <2>1 DEF Reanswered
  <2>3. pane'.path = pane.path /\ Right' = Right
    BY <1>1, <1>3 DEF SameSizes, Right
  <2>4. \A e \in calls' :
          e.kind \in {"search", "measure"} \/ (e.kind = "refresh" /\ Repairs(e)')
    BY <1>1, <1>3, <1>6, <2>3 DEF PaneInv, RepairInv, Repairs
  <2>5. \A e \in calls' : e.kind # "refresh"
    BY <1>1, <2>1 DEF PaneInv, RepairInv
  <2>6. ok => pane'.shown = Right'
    BY <1>3, <2>1, <2>3 DEF Repairs, Right
  <2>7. RefreshRepairs'
    BY <1>3, <2>2, <2>6 DEF RefreshRepairs, Right
  <2>8. RepairInv'
    BY <1>1, <2>1, <2>2, <2>4, <2>5, <2>7 DEF RepairInv
  <2> QED BY <1>1, <1>2, <1>3, <1>4, <2>2, <2>8 DEF PaneTypeOK, PaneInv
<1> QED BY <1>5, <1>6

\* A search.
LEMMA RunSearchInv ==
  ASSUME PaneTypeOK, PaneInv, RunSearch
  PROVE  PaneTypeOK' /\ PaneInv'
<1> DEFINE c == Call("search", pane.path)
<1>1. calls' = calls \union {c} /\ UNCHANGED <<selected, notices, pane, age, repaired>>
  BY DEF RunSearch, Issue
<1>2. c \in CallType /\ c.id = Id /\ c.kind = "search"
  BY CallOK DEF RunSearch, Kinds, PaneTypeOK, PaneType
<1> HIDE DEF c
<1>3. CallsOK' /\ IdsDiffer'
  BY <1>1, <1>2, MoreCalls DEF PaneTypeOK, PaneInv
<1>4. SizesInv' /\ KeyInv'
  BY <1>1, SizesKept DEF PaneInv, KeyInv, SameSizes
<1>5. RepairInv'
  BY <1>1, <1>2 DEF PaneInv, RepairInv, RefreshRepairs, Repairs
<1> QED BY <1>1, <1>3, <1>4, <1>5 DEF PaneTypeOK, PaneInv

\* The results dismissed.
LEMMA ClearSearchInv ==
  ASSUME PaneTypeOK, PaneInv, ClearSearch
  PROVE  PaneTypeOK' /\ PaneInv'
<1>1. UNCHANGED <<selected, notices, calls, age, repaired>> /\ pane' = [pane EXCEPT !.found = None]
  BY DEF ClearSearch
<1>2. /\ pane' \in PaneType /\ SameSizes(pane, pane') /\ pane'.hidden = pane.hidden
      /\ pane'.shown = pane.shown /\ pane'.error = pane.error
  BY <1>1 DEF PaneTypeOK, PaneType, SameSizes
<1>3. SizesInv' /\ KeyInv'
  BY <1>1, <1>2, SizesKept DEF PaneInv, KeyInv, SameSizes
<1>4. RepairInv'
  BY <1>1, <1>2 DEF PaneInv, RepairInv, RefreshRepairs, Repairs, SameSizes
<1> QED BY <1>1, <1>2, <1>3, <1>4 DEF PaneTypeOK, CallsOK, PaneInv, IdsDiffer

\* The result of a search.
LEMMA SearchAnsweredInv ==
  ASSUME PaneTypeOK, PaneInv, NEW c \in calls, NEW ok \in Ends(c), SearchAnswered(c, ok)
  PROVE  PaneTypeOK' /\ PaneInv'
<1>1. /\ UNCHANGED <<selected, notices, age, repaired>> /\ c \in CallType
      /\ c.kind = "search" /\ calls' = calls \ {c}
      /\ pane' = IF ok THEN [pane EXCEPT !.found = c.path] ELSE pane
  BY DEF SearchAnswered, PaneTypeOK, CallsOK
<1>2. CallsOK' /\ IdsDiffer'
  BY <1>1, FewerCalls DEF PaneTypeOK, PaneInv
<1>3. /\ pane' \in PaneType /\ SameSizes(pane, pane') /\ pane'.hidden = pane.hidden
      /\ pane'.shown = pane.shown /\ pane'.error = pane.error
  <2>1. c.path \in Paths
    BY <1>1 DEF CallType
  <2> QED BY <1>1, <2>1 DEF PaneTypeOK, PaneType, SameSizes
<1>4. SizesInv' /\ KeyInv'
  BY <1>1, <1>3, SizesKept DEF PaneInv, KeyInv, SameSizes
<1>5. RepairInv'
  BY <1>1, <1>3 DEF PaneInv, RepairInv, RefreshRepairs, Repairs, SameSizes
<1> QED BY <1>1, <1>2, <1>3, <1>4, <1>5 DEF PaneTypeOK, PaneInv

-----------------------------------------------------------------------------
(* The sizes panel *)

\* Measuring the shown directory: the cache, a running measurement, or a new one.
LEMMA MeasureInv ==
  ASSUME PaneTypeOK, PaneInv, MeasureDirSizes
  PROVE  PaneTypeOK' /\ PaneInv'
<1>1. pane.path \in Paths /\ UNCHANGED <<selected, notices, age, repaired>>
  BY DEF MeasureDirSizes, PaneTypeOK, PaneType
<1>2. CASE pane.cache[pane.path] # None
  <2> DEFINE of == pane.cache[pane.path]
             sizes == [status |-> "ready", path |-> pane.path, of |-> of]
  <2>1. calls' = calls /\ pane' = [pane EXCEPT !.token = None, !.sizes = sizes]
    BY <1>2 DEF MeasureDirSizes
  <2>2. of \in Results \union {None} /\ Current(of, pane.path)
    BY <1>1, <1>2 DEF PaneTypeOK, PaneType, PaneInv, SizesInv, SizesAreCurrent
  <2> HIDE DEF of
  <2>3. sizes \in Panels /\ sizes.status = "ready" /\ sizes.path = pane.path /\ sizes.of = of
    BY <1>1, <2>2 DEF Panels
  <2> HIDE DEF sizes
  <2>4. /\ pane' \in PaneType /\ pane'.key = pane.key /\ pane'.path = pane.path
        /\ pane'.hidden = pane.hidden /\ pane'.shown = pane.shown /\ pane'.error = pane.error
        /\ pane'.cache = pane.cache
        /\ pane'.token = None /\ pane'.sizes = sizes
    BY <2>1, <2>3 DEF PaneTypeOK, PaneType
  <2>5. SizesInv'
    BY <1>1, <2>2, <2>3, <2>4 DEF PaneInv, SizesInv, SizesAreCurrent, Current, TokenInv
  <2>6. KeyInv' /\ RepairInv'
    BY <1>1, <2>1, <2>4 DEF PaneInv, KeyInv, RepairInv, RefreshRepairs, Repairs
  <2> QED BY <1>1, <2>1, <2>4, <2>5, <2>6 DEF PaneTypeOK, CallsOK, PaneInv, IdsDiffer
<1>3. CASE pane.cache[pane.path] = None
  <2> DEFINE c == Call("measure", pane.path)
             sizes == [status |-> "running", path |-> pane.path, of |-> None]
             token == Id
  <2>1. calls' = calls \union {c} /\ pane' = [pane EXCEPT !.token = token, !.sizes = sizes]
    BY <1>3 DEF MeasureDirSizes, Issue
  <2>2. /\ c \in CallType /\ c.id = Id /\ c.kind = "measure" /\ c.path = pane.path
        /\ c.distro = selected /\ c.behind = (notices # <<>>) /\ c.age = age[pane.path]
    BY <1>1, CallOK DEF Kinds
  <2>3. token \in Nat /\ token = c.id
    BY <2>2, IdIsFree DEF PaneTypeOK
  <2>4. sizes \in Panels /\ sizes.status = "running" /\ sizes.path = pane.path
    BY <1>1 DEF Panels
  <2>5. CallsOK' /\ IdsDiffer'
    BY <2>1, <2>2, MoreCalls DEF PaneTypeOK, PaneInv
  <2> HIDE DEF c, sizes, token
  <2>6. /\ pane' \in PaneType /\ pane'.key = pane.key /\ pane'.path = pane.path
        /\ pane'.hidden = pane.hidden /\ pane'.shown = pane.shown /\ pane'.error = pane.error
        /\ pane'.cache = pane.cache
        /\ pane'.token = token /\ pane'.sizes = sizes
    BY <2>1, <2>3, <2>4 DEF PaneTypeOK, PaneType
  <2>7. c.distro = pane.key \/ c.behind
    BY <2>2 DEF PaneInv, KeyInv
  <2>8. SizesInv'
    <3>1. SizesAreCurrent'
      BY <1>1, <2>4, <2>6 DEF PaneInv, SizesInv, SizesAreCurrent, Current
    <3>2. /\ c \in calls' /\ c.id = pane'.token /\ c.kind = "measure" /\ c.path = pane'.path
          /\ c.age = age'[c.path] /\ (c.distro = pane'.key \/ c.behind)
      BY <1>1, <2>1, <2>2, <2>3, <2>6, <2>7
    <3>3. pane'.sizes.status = "running" /\ pane'.sizes.path = pane'.path
      BY <2>4, <2>6
    <3> QED BY <3>1, <3>2, <3>3 DEF SizesInv, TokenInv, Tells
  <2>9. KeyInv' /\ RepairInv'
    BY <1>1, <2>1, <2>2, <2>6 DEF PaneInv, KeyInv, RepairInv, RefreshRepairs, Repairs
  <2> QED BY <1>1, <2>5, <2>6, <2>8, <2>9 DEF PaneTypeOK, PaneInv
<1> QED BY <1>2, <1>3

\* Cancelling a measurement.
LEMMA CancelInv ==
  ASSUME PaneTypeOK, PaneInv, CancelDirSizes
  PROVE  PaneTypeOK' /\ PaneInv'
<1>1. /\ UNCHANGED <<selected, notices, calls, age, repaired>>
      /\ pane' = [pane EXCEPT !.token = None, !.sizes = Closed]
  BY DEF CancelDirSizes
<1>2. /\ pane' \in PaneType /\ pane'.key = pane.key /\ pane'.path = pane.path
      /\ pane'.hidden = pane.hidden /\ pane'.shown = pane.shown /\ pane'.error = pane.error
      /\ pane'.cache = pane.cache
      /\ pane'.token = None /\ pane'.sizes = Closed
  BY <1>1, ClosedOK DEF PaneTypeOK, PaneType
<1>3. SizesInv'
  BY <1>1, <1>2, SizesClosed DEF PaneInv
<1>4. KeyInv' /\ RepairInv'
  BY <1>1, <1>2 DEF PaneInv, KeyInv, RepairInv, RefreshRepairs, Repairs
<1> QED BY <1>1, <1>2, <1>3, <1>4 DEF PaneTypeOK, CallsOK, PaneInv, IdsDiffer

\* A measurement answered, current or overtaken.
LEMMA MeasuredInv ==
  ASSUME PaneTypeOK, PaneInv, NEW c \in calls, NEW ok \in Ends(c), Measured(c, ok)
  PROVE  PaneTypeOK' /\ PaneInv'
<1>1. /\ UNCHANGED <<selected, notices, age, repaired>> /\ c \in CallType
      /\ c.kind = "measure" /\ calls' = calls \ {c} /\ c.id \in Nat
  BY DEF Measured, PaneTypeOK, CallsOK, CallType
<1>2. CallsOK' /\ IdsDiffer'
  BY <1>1, FewerCalls DEF PaneTypeOK, PaneInv
<1>3. CASE ~Wanted(pane, c)
  <2>1. pane' = pane
    BY <1>3 DEF Measured
  <2>2. SizesAreCurrent'
    BY <1>1, <2>1 DEF PaneInv, SizesInv, SizesAreCurrent, Current
  <2>3. TokenInv'
    BY <1>1, <1>3, <2>1 DEF PaneInv, SizesInv, TokenInv, Tells, Wanted
  <2>4. KeyInv' /\ RepairInv'
    BY <1>1, <2>1 DEF PaneInv, KeyInv, RepairInv, RefreshRepairs, Repairs
  <2> QED BY <1>1, <1>2, <2>1, <2>2, <2>3, <2>4 DEF PaneTypeOK, PaneInv, SizesInv
<1>4. CASE Wanted(pane, c)
  <2>1. pane.token = c.id /\ pane.token # None
    BY <1>1, <1>4, PathAssumption DEF Wanted
  <2>2. Tells(c) /\ pane.path \in Paths
    <3>1. Tells(c)
      BY <2>1 DEF PaneInv, SizesInv, TokenInv, IdsDiffer
    <3> QED BY <1>1, <3>1 DEF Tells, CallType
  <2> DEFINE result == [distro |-> c.distro, path |-> c.path, age |-> c.age, behind |-> c.behind]
  <2>3. result \in Results /\ Current(result, pane.path) /\ c.path = pane.path
    BY <1>1, <2>2 DEF Results, CallType, Tells, Current
  <2> HIDE DEF result
  <2>4. \E status \in {"ready", "error"}, of \in {result, None}, cached \in BOOLEAN :
          /\ status = "ready" => of = result
          /\ pane' = [pane EXCEPT !.token = None,
                        !.sizes = [status |-> status, path |-> c.path, of |-> of],
                        !.cache = IF cached THEN [pane.cache EXCEPT ![c.path] = result] ELSE pane.cache]
    <3>1. CASE ok
      <4>1. PICK whole \in BOOLEAN :
              pane' = [pane EXCEPT !.token = None,
                         !.sizes = [status |-> "ready", path |-> c.path, of |-> result],
                         !.cache[c.path] = IF whole THEN result ELSE @]
        BY <1>4, <3>1 DEF Measured, result
      <4>2. [pane.cache EXCEPT ![c.path] = pane.cache[c.path]] = pane.cache
        BY DEF PaneTypeOK, PaneType
      <4>3. pane' = [pane EXCEPT !.token = None,
                       !.sizes = [status |-> "ready", path |-> c.path, of |-> result],
                       !.cache = IF whole THEN [pane.cache EXCEPT ![c.path] = result] ELSE pane.cache]
        <5>1. CASE whole
          BY <4>1, <5>1 DEF PaneTypeOK, PaneType
        <5>2. CASE ~whole
          BY <4>1, <4>2, <5>2 DEF PaneTypeOK, PaneType
        <5> QED BY <5>1, <5>2
      <4> QED BY <4>3
    <3>2. CASE ~ok
      <4>1. pane' = [pane EXCEPT !.token = None,
                       !.sizes = [status |-> "error", path |-> c.path, of |-> None]]
        BY <1>4, <3>2 DEF Measured
      <4>2. pane' = [pane EXCEPT !.token = None,
                       !.sizes = [status |-> "error", path |-> c.path, of |-> None],
                       !.cache = IF FALSE THEN [pane.cache EXCEPT ![c.path] = result] ELSE pane.cache]
        BY <4>1 DEF PaneTypeOK, PaneType
      <4> QED BY <4>2
    <3> QED BY <3>1, <3>2
  <2>5. PICK status \in {"ready", "error"}, of \in {result, None}, cached \in BOOLEAN :
          /\ status = "ready" => of = result
          /\ pane' = [pane EXCEPT !.token = None,
                        !.sizes = [status |-> status, path |-> c.path, of |-> of],
                        !.cache = IF cached THEN [pane.cache EXCEPT ![c.path] = result] ELSE pane.cache]
    BY <2>4
  <2> DEFINE sizes == [status |-> status, path |-> c.path, of |-> of]
             cache == IF cached THEN [pane.cache EXCEPT ![c.path] = result] ELSE pane.cache
  <2>6. sizes \in Panels /\ sizes.path = pane.path /\ sizes.status = status /\ sizes.of = of
    BY <2>2, <2>3 DEF Panels
  <2>7. /\ cache \in [Paths -> Results \union {None}]
        /\ \A a \in Paths : cache[a] = pane.cache[a] \/ (a = pane.path /\ cache[a] = result)
    BY <2>2, <2>3 DEF PaneTypeOK, PaneType
  <2>8. pane' = [pane EXCEPT !.token = None, !.sizes = sizes, !.cache = cache]
    BY <2>5
  <2> HIDE DEF sizes, cache
  <2>9. /\ pane' \in PaneType /\ pane'.key = pane.key /\ pane'.path = pane.path
        /\ pane'.hidden = pane.hidden /\ pane'.shown = pane.shown /\ pane'.error = pane.error
        /\ pane'.cache = cache
        /\ pane'.token = None /\ pane'.sizes = sizes
    BY <2>6, <2>7, <2>8 DEF PaneTypeOK, PaneType
  <2>10. SizesInv'
    <3>1. \A a \in Paths : cache[a] # None => Current(cache[a], a)
      BY <2>3, <2>7 DEF PaneInv, SizesInv, SizesAreCurrent
    <3>2. sizes.path = pane.path /\ (sizes.status = "ready" => Current(sizes.of, pane.path))
      BY <2>3, <2>5, <2>6
    <3>3. SizesAreCurrent'
      BY <1>1, <2>9, <3>1, <3>2 DEF SizesAreCurrent, Current
    <3> QED BY <2>9, <3>3 DEF SizesInv, TokenInv
  <2>11. KeyInv' /\ RepairInv'
    BY <1>1, <2>9 DEF PaneInv, KeyInv, RepairInv, RefreshRepairs, Repairs
  <2> QED BY <1>1, <1>2, <2>9, <2>10, <2>11 DEF PaneTypeOK, PaneInv
<1> QED BY <1>3, <1>4

-----------------------------------------------------------------------------
(* Switching distros *)

\* Another distro.
LEMMA SelectDistroInv ==
  ASSUME PaneTypeOK, PaneInv, NEW d \in Distros, SelectDistro(d)
  PROVE  PaneTypeOK' /\ PaneInv'
<1>1. /\ selected' = d /\ notices' = Append(notices, d) /\ repaired' = "no"
      /\ UNCHANGED <<pane, calls, age>>
  BY DEF SelectDistro
<1>2. notices' \in Seq(Distros) /\ notices' # <<>> /\ notices'[Len(notices')] = d
  BY <1>1 DEF PaneTypeOK
<1>3. KeyInv' /\ RepairInv'
  BY <1>1, <1>2 DEF KeyInv, RepairInv, RefreshRepairs
<1>4. SizesInv'
  BY <1>1, SizesKept DEF PaneInv, SameSizes
<1> QED BY <1>1, <1>2, <1>3, <1>4 DEF PaneTypeOK, CallsOK, PaneInv, IdsDiffer

\* A notice that a file operation changed something.
LEMMA NoticeInv ==
  ASSUME PaneTypeOK, PaneInv, Notice
  PROVE  PaneTypeOK' /\ PaneInv'
<1>1. /\ notices # <<>> /\ notices' = Tail(notices) /\ repaired' = "no"
      /\ UNCHANGED <<selected, age>>
  BY DEF Notice
<1>2. /\ notices' \in Seq(Distros) /\ Head(notices) \in Distros
      /\ notices' = <<>> => Head(notices) = notices[Len(notices)]
      /\ notices' # <<>> => notices'[Len(notices')] = notices[Len(notices)]
  <2> DEFINE t == Tail(notices)
  <2>1. notices \in Seq(Distros) /\ notices # <<>>
    BY <1>1 DEF PaneTypeOK
  <2>2. /\ t \in Seq(Distros) /\ Len(t) = Len(notices) - 1 /\ Len(notices) \in Nat \ {0}
        /\ \A i \in 1..Len(t) : t[i] = notices[i + 1]
        /\ Head(notices) = notices[1] /\ Head(notices) \in Distros
    BY <2>1
  <2> HIDE DEF t
  <2>3. t = <<>> <=> Len(t) = 0
    BY <2>2, EmptySeq
  <2>4. t # <<>> => Len(t) # 0
    BY <2>3
  <2>5. ASSUME t = <<>> PROVE Head(notices) = notices[Len(notices)]
    <3>1. Len(notices) = 1
      BY <2>2, <2>3, <2>5
    <3> QED BY <2>2, <3>1
  <2>6. ASSUME t # <<>> PROVE t[Len(t)] = notices[Len(notices)]
    <3>1. Len(t) \in 1..Len(t) /\ Len(t) + 1 = Len(notices)
      BY <2>2, <2>4, <2>6, LenProperties
    <3> QED BY <2>2, <3>1
  <2>7. notices' = t
    BY <1>1 DEF t
  <2> QED BY <2>2, <2>5, <2>6, <2>7
<1>3. CASE Head(notices) = pane.key
  <2>1. pane' = pane /\ calls' = calls
    BY <1>3 DEF Notice
  <2>2. SizesInv'
    BY <1>1, <2>1, SizesKept DEF PaneInv, SameSizes
  <2>3. KeyInv'
    BY <1>1, <1>2, <1>3, <2>1 DEF PaneInv, KeyInv
  <2> QED BY <1>1, <1>2, <2>1, <2>2, <2>3 DEF PaneTypeOK, CallsOK, PaneInv, IdsDiffer, RepairInv, RefreshRepairs
<1>4. CASE Head(notices) # pane.key
  <2>1. /\ pane' = Reset(pane, Head(notices))
        /\ \E start \in Starts :
             calls' = calls \union {[Call(StartKind, start) EXCEPT !.hidden = FALSE]}
    BY <1>4 DEF Notice
  <2>2. PICK start \in Starts :
          calls' = calls \union {[Call(StartKind, start) EXCEPT !.hidden = FALSE]}
    BY <2>1
  <2> DEFINE f == Call(StartKind, start)
             e == [f EXCEPT !.hidden = FALSE]
  <2>3. f \in CallType /\ f.id = Id
    BY CallOK, PathAssumption DEF StartKind, Kinds
  <2> HIDE DEF f
  <2>4. e \in CallType /\ e.id = Id
    BY <2>3 DEF CallType
  <2>5. calls' = calls \union {e}
    BY <2>2 DEF f
  <2> HIDE DEF e
  <2>6. CallsOK' /\ IdsDiffer'
    BY <2>4, <2>5, MoreCalls DEF PaneTypeOK, PaneInv
  <2>7. /\ pane' \in PaneType /\ pane'.key = Head(notices) /\ pane'.token = None
        /\ pane'.sizes = Closed /\ \A a \in Paths : pane'.cache[a] = None
    BY <1>2, <2>1, FreshOK DEF PaneTypeOK
  <2>8. SizesInv'
    <3>1. pane'.sizes.status = "closed"
      BY <2>7 DEF Closed
    <3> QED BY <2>7, <3>1 DEF SizesInv, SizesAreCurrent, TokenInv
  <2>9. KeyInv'
    BY <1>1, <1>2, <2>7 DEF PaneInv, KeyInv
  <2> QED BY <1>1, <1>2, <2>6, <2>7, <2>8, <2>9 DEF PaneTypeOK, PaneInv, RepairInv, RefreshRepairs
<1> QED BY <1>3, <1>4

-----------------------------------------------------------------------------
(* The pane *)

\* The pane starts empty.
LEMMA PaneStarts == PaneInit => PaneTypeOK /\ PaneInv
<1> SUFFICES ASSUME PaneInit PROVE PaneTypeOK /\ PaneInv
  OBVIOUS
<1> DEFINE cache == [p \in Paths |-> None]
<1>1. cache \in [Paths -> Results \union {None}] /\ \A a \in Paths : cache[a] = None
  OBVIOUS
<1>2. <<>> \in Seq(Paths)
  OBVIOUS
<1> HIDE DEF cache
<1>3. pane = [key |-> None, path |-> None, shown |-> None, back |-> <<>>, forward |-> <<>>,
              hidden |-> FALSE, error |-> FALSE, found |-> None, token |-> None, sizes |-> Closed,
           cache |-> cache]
  BY DEF PaneInit, Fresh, cache
<1>4. pane \in PaneType /\ pane.token = None /\ pane.sizes = Closed /\ pane.cache = cache
  BY <1>1, <1>2, <1>3, ClosedOK DEF PaneType
<1>5. PaneTypeOK
  <2>1. notices \in Seq(Distros) /\ selected \in Distros /\ repaired = "no"
    <3>1. \A d \in Distros : <<d>> \in Seq(Distros)
      OBVIOUS
    <3> QED BY <3>1 DEF PaneInit
  <2>2. age \in [Paths -> Nat] /\ CallsOK
    BY FS_EmptySet DEF PaneInit, CallsOK
  <2> QED BY <1>4, <2>1, <2>2 DEF PaneTypeOK
<1>6. SizesInv
  <2>1. pane.sizes.status = "closed"
    BY <1>4 DEF Closed
  <2> QED BY <1>1, <1>4, <2>1 DEF SizesInv, SizesAreCurrent, TokenInv
<1>7. IdsDiffer /\ KeyInv /\ RepairInv
  BY DEF PaneInit, IdsDiffer, KeyInv, RepairInv, RefreshRepairs
<1> QED BY <1>5, <1>6, <1>7 DEF PaneInv

\* Every step keeps the invariant.
LEMMA PaneSteps == PaneTypeOK /\ PaneInv /\ [PaneNext]_paneVars => PaneTypeOK' /\ PaneInv'
<1> SUFFICES ASSUME PaneTypeOK, PaneInv, [PaneNext]_paneVars PROVE PaneTypeOK' /\ PaneInv'
  OBVIOUS
<1>1. ASSUME NEW p \in Paths, Navigate(p) PROVE PaneTypeOK' /\ PaneInv'
  BY <1>1, NavigateInv
<1>2. CASE GoBackOrForward
  BY <1>2, HistoryInv
<1>3. CASE RefreshDir
  BY <1>3, RefreshDirInv
<1>4. CASE ToggleHidden
  BY <1>4, ToggleHiddenInv
<1>5. CASE RunSearch
  BY <1>5, RunSearchInv
<1>6. CASE MeasureDirSizes
  BY <1>6, MeasureInv
<1>7. CASE CancelDirSizes
  BY <1>7, CancelInv
<1>8. ASSUME NEW d \in Distros, SelectDistro(d) PROVE PaneTypeOK' /\ PaneInv'
  BY <1>8, SelectDistroInv
<1>9. CASE Notice
  BY <1>9, NoticeInv
<1>10. ASSUME NEW c \in calls, Answer(c) PROVE PaneTypeOK' /\ PaneInv'
  <2> PICK ok \in Ends(c) : \/ NavigateAnswered(c, ok) \/ Reanswered(c, ok)
                            \/ SearchAnswered(c, ok) \/ Measured(c, ok)
    BY <1>10 DEF Answer
  <2>1. CASE NavigateAnswered(c, ok)
    BY <2>1, NavigateAnsweredInv
  <2>2. CASE Reanswered(c, ok)
    BY <2>2, ReansweredInv
  <2>3. CASE SearchAnswered(c, ok)
    BY <2>3, SearchAnsweredInv
  <2>4. CASE Measured(c, ok)
    BY <2>4, MeasuredInv
  <2> QED BY <2>1, <2>2, <2>3, <2>4
<1>11. CASE ClearSearch
  BY <1>11, ClearSearchInv
<1>12. CASE UNCHANGED paneVars
  <2>1. UNCHANGED <<selected, notices, pane, calls, age, repaired>>
    BY <1>12 DEF paneVars
  <2>2. SizesInv'
    BY <2>1, SizesKept DEF PaneInv, SameSizes
  <2>3. KeyInv' /\ RepairInv'
    BY <2>1 DEF PaneInv, KeyInv, RepairInv, RefreshRepairs, Repairs
  <2> QED BY <2>1, <2>2, <2>3 DEF PaneTypeOK, CallsOK, PaneInv, IdsDiffer
<1> QED BY <1>1, <1>2, <1>3, <1>4, <1>5, <1>6, <1>7, <1>8, <1>9, <1>10, <1>11, <1>12 DEF PaneNext

\* The invariant holds in every reachable state.
LEMMA PaneHolds == PaneSpec => [](PaneTypeOK /\ PaneInv)
BY PaneStarts, PaneSteps, PTL DEF PaneSpec

\* The pane, its calls and the switches on their way are what the code takes them
\* for: the calls are finitely many, each with the path, the distro and the time
\* main handled it at (usePane.ts, ipc/handlers.ts).
THEOREM PaneTypeCorrect == PaneSpec => []PaneTypeOK
BY PaneHolds, PTL

\* In every execution, whatever the order of answers, switches, refreshes and
\* cancels, the sizes on screen are of the directory shown, and those on screen
\* or kept were measured since its last refresh, in the distro of the pane unless
\* main had moved on: the token in force is that of a measurement of just that
\* directory (usePane.ts, measureDirSizes and forgetSizes).
THEOREM SizesStayCurrent == PaneSpec => []SizesAreCurrent
<1>1. PaneInv => SizesAreCurrent
  BY DEF PaneInv, SizesInv
<1> QED BY <1>1, PaneHolds, PTL

\* In every execution, a refresh asked for when nothing else is under way ends,
\* once answered, with the entries of the current directory in the selected distro,
\* with hidden files as chosen and no error in front, or with its error, whatever
\* answers crossed and failed before, and until the next listing or switch
\* (usePane.ts, refreshDir).
THEOREM RefreshSetsRight == PaneSpec => []RefreshRepairs
<1>1. PaneInv => RefreshRepairs
  BY DEF PaneInv, RepairInv
<1> QED BY <1>1, PaneHolds, PTL
=============================================================================
