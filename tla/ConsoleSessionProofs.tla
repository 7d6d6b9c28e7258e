------------------------ MODULE ConsoleSessionProofs ------------------------
(***************************************************************************)
(* Proofs about one console, for every set of directories and characters   *)
(* and every bound: the directory shown at rest is the shell's, a console  *)
(* that was asked to follow has tried to, and a program starts on the      *)
(* Return of a sync only where the user had recalled its line.             *)
(***************************************************************************)
EXTENDS ConsoleSession, FiniteSetTheorems, SequenceTheorems, TLAPS

-----------------------------------------------------------------------------
(* Types *)

Pressed == Keys \union Chars
Dirs == Paths \union {Home}
Phases == {"hook", "hooked", "prompt", "running", "sudo", "gone"}
Statuses == Dead \union {"running", "ready", "path-sync-pending", "waiting-sudo"}

SessionType ==
  [pty : BOOLEAN, markers : BOOLEAN, status : Statuses, cwd : Dirs \union {None},
   pending : Paths \union {None}, typed : Seq(Chars), everReady : BOOLEAN, disposed : BOOLEAN]
WriteType == [id : Nat, target : Paths, stage : {"asked", "open", "done", "failed"}]
ShellType ==
  [phase : Phases, line : Seq(Chars \union {"x"}), recalled : BOOLEAN, cwd : Dirs,
   read : Paths \union {None, Unusable}]
FileType == [text : Paths \union {Unusable}, writers : SUBSET Nat]
MessageType == [kind : {"prompt", "sudo", "exit"}, cwd : Dirs]
BudgetType ==
  [keys : Nat, navigations : Nat, faults : Nat, sudo : Nat, moves : Nat, ends : Nat]

TypeOK ==
  /\ session \in SessionType
  /\ writes \subseteq WriteType /\ IsFiniteSet(writes)
  /\ input \in Seq(Pressed \union {"sync"})
  /\ output \in Seq(MessageType)
  /\ shell \in ShellType
  /\ file \in FileType \union {None}
  /\ heard \in Heard
  /\ budget \in BudgetType

-----------------------------------------------------------------------------
(* What the operators of the model return *)

\* A character is none of the keys with an effect of their own.
LEMMA CharsApart ==
  ASSUME NEW key \in Chars
  PROVE  key \notin {"enter", "backspace", "interrupt", "recall", "sync"}
  BY KeyAssumption DEF SpecialKeys

\* Backspace shortens the tracked line by one, if there is something to erase.
LEMMA ErasedType ==
  ASSUME NEW S, NEW line \in Seq(S)
  PROVE  /\ Erased(line) \in Seq(S)
         /\ Len(Erased(line)) = IF line = <<>> THEN 0 ELSE Len(line) - 1
<1>1. CASE line = <<>>
  BY <1>1 DEF Erased
<1>2. CASE line # <<>>
  <2> DEFINE n == Len(line) - 1
             front == SubSeq(line, 1, n)
  <2>1. n \in Nat /\ Len(line) = n + 1
    BY <1>2
  <2>2. Erased(line) = front
    BY <1>2 DEF Erased, Front
  <2>3. \A i \in 1..n : line[i] \in S
    BY <2>1
  <2> HIDE DEF n
  <2>4. front \in Seq(S) /\ Len(front) = IF 1 <= n THEN n - 1 + 1 ELSE 0
    BY <2>1, <2>3, SubSeqProperties
  <2> HIDE DEF front
  <2>5. Len(front) = n
    BY <2>1, <2>4
  <2> QED BY <1>2, <2>1, <2>2, <2>4, <2>5
<1> QED BY <1>1, <1>2

\* What no key changes.
Unmoved(s, t) ==
  /\ t.pty = s.pty /\ t.markers = s.markers /\ t.cwd = s.cwd /\ t.pending = s.pending
  /\ t.everReady = s.everReady /\ t.disposed = s.disposed

\* The tracked line replaced.
LEMMA WithTyped ==
  ASSUME NEW s \in SessionType, NEW line \in Seq(Chars)
  PROVE  LET t == [s EXCEPT !.typed = line]
         IN t \in SessionType /\ t.typed = line /\ t.status = s.status /\ Unmoved(s, t)
  BY DEF SessionType, Unmoved

\* The status of a wish replaced.
LEMMA WithStatus ==
  ASSUME NEW s \in SessionType, NEW status \in Statuses
  PROVE  LET t == [s EXCEPT !.status = status]
         IN t \in SessionType /\ t.typed = s.typed /\ t.status = status /\ Unmoved(s, t)
  BY DEF SessionType, Unmoved

\* trackInput looks at the line typed and the status, and at nothing else.
LEMMA TrackInputType ==
  ASSUME NEW s \in SessionType, NEW key \in Pressed
  PROVE  /\ TrackInput(s, key) \in SessionType
         /\ Unmoved(s, TrackInput(s, key))
         /\ key \in Chars => Len(TrackInput(s, key).typed) = Len(s.typed) + 1
         /\ key = "backspace" => TrackInput(s, key).typed = Erased(s.typed)
         /\ key \in {"enter", "interrupt"} => TrackInput(s, key).typed = <<>>
<1>1. CASE key = "enter"
  <2> DEFINE status == IF s.status = "waiting-sudo" \/
                          (~Blank(s.typed) /\ s.status \in {"ready", "path-sync-pending"})
                       THEN "running" ELSE s.status
             s1 == [s EXCEPT !.typed = <<>>]
  <2>1. s1 \in SessionType /\ s1.typed = <<>> /\ s1.status = s.status /\ Unmoved(s, s1)
    <3>1. <<>> \in Seq(Chars)
      OBVIOUS
    <3> QED BY <3>1, WithTyped
  <2>2. status \in Statuses
    BY DEF SessionType, Statuses
  <2>3. TrackInput(s, key) = [s1 EXCEPT !.status = status]
    BY <1>1 DEF TrackInput, SessionType
  <2> HIDE DEF s1, status
  <2>4. LET t == TrackInput(s, key)
        IN t \in SessionType /\ t.typed = <<>> /\ Unmoved(s, t)
    BY <2>1, <2>2, <2>3, WithStatus DEF Unmoved
  <2> QED BY <1>1, <2>4, CharsApart
<1>2. CASE key = "backspace"
  <2>1. TrackInput(s, key) = [s EXCEPT !.typed = Erased(s.typed)]
    BY <1>2 DEF TrackInput
  <2>2. Erased(s.typed) \in Seq(Chars)
    BY ErasedType DEF SessionType
  <2> QED BY <1>2, <2>1, <2>2, CharsApart DEF SessionType, Unmoved
<1>3. CASE key = "interrupt"
  <2>1. TrackInput(s, key) = [s EXCEPT !.typed = <<>>]
    BY <1>3 DEF TrackInput
  <2>2. LET t == TrackInput(s, key)
        IN t \in SessionType /\ t.typed = <<>> /\ Unmoved(s, t)
    <3>1. <<>> \in Seq(Chars)
      OBVIOUS
    <3> QED BY <2>1, <3>1, WithTyped
  <2> QED BY <1>3, <2>2, CharsApart
<1>4. CASE key = "recall"
  <2>1. TrackInput(s, key) = s
    BY <1>4 DEF TrackInput
  <2> QED BY <1>4, <2>1, CharsApart DEF SessionType, Unmoved
<1>5. CASE key \notin SpecialKeys
  <2>1. key \in Chars
    BY <1>5, KeyAssumption DEF Pressed
  <2>2. TrackInput(s, key) = [s EXCEPT !.typed = Append(s.typed, key)]
    BY <1>5 DEF TrackInput, SpecialKeys
  <2> QED BY <1>5, <2>1, <2>2 DEF SessionType, Unmoved, SpecialKeys
<1> QED BY <1>1, <1>2, <1>3, <1>4, <1>5 DEF SpecialKeys

\* Finitely many writes leave an id that none of them has.
LEMMA FreshIdType ==
  ASSUME NEW ws, IsFiniteSet(ws)
  PROVE  FreshId(ws) \in Nat
<1> DEFINE n == Cardinality(ws)
           ids == {w.id : w \in ws}
           candidates == 1..(n + 1)
<1>1. n \in Nat
  BY FS_CardinalityType
<1>2. IsFiniteSet(ids) /\ Cardinality(ids) <= n
  <2> DEFINE f == [w \in ws |-> w.id]
  <2>1. f \in Surjection(ws, ids)
    BY DEF Surjection
  <2> QED BY <2>1, FS_Surjection
<1>3. IsFiniteSet(candidates) /\ Cardinality(candidates) = n + 1
  <2>1. 1 \in Int /\ n + 1 \in Int /\ 1 <= n + 1
    BY <1>1
  <2>2. IsFiniteSet(candidates) /\ Cardinality(candidates) = (n + 1) - 1 + 1
    BY <1>1, <2>1, FS_Interval
  <2> QED BY <1>1, <2>2
<1>4. ~(candidates \subseteq ids)
  <2> SUFFICES ASSUME candidates \subseteq ids PROVE FALSE
    OBVIOUS
  <2>1. Cardinality(candidates) <= Cardinality(ids)
    BY <1>2, FS_Subset
  <2>2. Cardinality(ids) \in Nat
    BY <1>2, FS_CardinalityType
  <2> QED BY <1>1, <1>2, <1>3, <2>1, <2>2
<1>5. \E i \in candidates : \A w \in ws : w.id # i
  BY <1>4
<1>6. FreshId(ws) \in candidates
  BY <1>5 DEF FreshId
<1> QED BY <1>1, <1>6

\* A wish applied is one more write asked for.
LEMMA ApplyType ==
  ASSUME NEW ws, ws \subseteq WriteType, IsFiniteSet(ws), NEW path \in Paths
  PROVE  /\ Apply(ws, path) \subseteq WriteType /\ IsFiniteSet(Apply(ws, path))
         /\ \E w \in Apply(ws, path) : w.stage = "asked"
         /\ ws \subseteq Apply(ws, path)
         /\ \A w \in Apply(ws, path) : w \in ws \/ (w.target = path /\ w.stage = "asked")
<1> DEFINE new == [id |-> FreshId(ws), target |-> path, stage |-> "asked"]
<1>1. new \in WriteType /\ new.stage = "asked" /\ new.target = path
  BY FreshIdType DEF WriteType
<1>2. Apply(ws, path) = ws \union {new}
  BY DEF Apply
<1>3. IsFiniteSet(ws \union {new})
  BY FS_AddElement
<1> HIDE DEF new
<1> QED BY <1>1, <1>2, <1>3

\* A write that gets on, or fails, stays a write to the same target.
LEMMA StageType ==
  ASSUME writes \subseteq WriteType, IsFiniteSet(writes), NEW w \in writes,
         NEW stage \in {"asked", "open", "done", "failed"}
  PROVE  /\ Stage(w, stage) \subseteq WriteType /\ IsFiniteSet(Stage(w, stage))
         /\ \E v \in Stage(w, stage) : v.target = w.target /\ v.stage = stage
         /\ \A v \in Stage(w, stage) : v \in writes \/ (v.target = w.target /\ v.stage = stage)
<1> DEFINE new == [w EXCEPT !.stage = stage]
<1>1. new \in WriteType /\ new.stage = stage /\ new.target = w.target
  BY DEF WriteType
<1>2. Stage(w, stage) = (writes \ {w}) \union {new}
  BY DEF Stage
<1>3. IsFiniteSet(writes \ {w})
  BY FS_RemoveElement
<1>4. IsFiniteSet((writes \ {w}) \union {new})
  BY <1>3, FS_AddElement
<1> HIDE DEF new
<1> QED BY <1>1, <1>2, <1>4

\* applyCwd after its await: at most the directory that waits changes, and the Return
\* goes out on an empty line only.
LEMMA StagedType ==
  ASSUME NEW s \in SessionType, NEW target \in Paths
  PROVE  LET after == Staged(s, target)
         IN /\ after.session \in SessionType
            /\ after.session.markers = s.markers /\ after.session.cwd = s.cwd
            /\ after.session.typed = s.typed /\ Live(after.session) = Live(s)
            /\ after.session.pending \in {s.pending, target}
            /\ \/ after.key = <<>> /\ (Live(s) => after.session.pending = target)
               \/ after.key = <<"sync">> /\ Live(s) /\ s.typed = <<>>
<1>1. CASE ~Live(s) \/ s.typed = <<>>
  BY <1>1 DEF Staged
<1>2. CASE Live(s) /\ s.typed # <<>>
  <2>1. Staged(s, target) = [session |-> [s EXCEPT !.pending = target], key |-> <<>>]
    BY <1>2 DEF Staged
  <2> QED BY <1>2, <2>1 DEF SessionType, Live
<1> QED BY <1>1, <1>2

\* A wish that failed keeps what was typed.
LEMMA NotStagedType ==
  ASSUME NEW s \in SessionType
  PROVE  /\ NotStaged(s) \in SessionType /\ Unmoved(s, NotStaged(s))
         /\ NotStaged(s).typed = s.typed
  BY WithStatus DEF NotStaged, Statuses, Unmoved

\* A prompt marker: the directory is the reported one, and what waited either waits on
\* or is applied.
LEMMA PromptType ==
  ASSUME NEW s \in SessionType, NEW path \in Dirs
  PROVE  LET t == AtPrompt(Cwd(s, path))
         IN /\ t \in SessionType /\ t.cwd = path
            /\ t.markers = s.markers /\ t.typed = s.typed /\ Live(t) = Live(s)
            /\ t.pending = IF s.pending # None /\ s.typed = <<>> THEN None ELSE s.pending
<1> DEFINE here == [s EXCEPT !.cwd = path]
           seen == [here EXCEPT !.everReady = TRUE]
           status == IF seen.pending # None THEN "path-sync-pending" ELSE "ready"
<1>1. /\ here \in SessionType /\ here.cwd = path /\ here.markers = s.markers
      /\ here.typed = s.typed /\ here.pending = s.pending
      /\ here.pty = s.pty /\ here.disposed = s.disposed
  BY DEF SessionType
<1> HIDE DEF here
<1>2. /\ seen \in SessionType /\ seen.cwd = path /\ seen.markers = s.markers
      /\ seen.typed = s.typed /\ seen.pending = s.pending
      /\ seen.pty = s.pty /\ seen.disposed = s.disposed
  BY <1>1 DEF SessionType
<1>3. AtPrompt(Cwd(s, path)) =
        IF seen.pending # None /\ seen.typed = <<>> THEN [seen EXCEPT !.pending = None]
        ELSE [seen EXCEPT !.status = status]
  BY <1>1, <1>2 DEF AtPrompt, Cwd, here
<1> HIDE DEF seen
<1>4. CASE seen.pending # None /\ seen.typed = <<>>
  BY <1>2, <1>3, <1>4 DEF SessionType, Live
<1>5. CASE ~(seen.pending # None /\ seen.typed = <<>>)
  <2>1. status \in Statuses
    BY DEF Statuses
  <2> HIDE DEF status
  <2> QED BY <1>2, <1>3, <1>5, <2>1, WithStatus DEF Live, Unmoved
<1> QED BY <1>4, <1>5

\* The shell's line replaced.
LEMMA WithLine ==
  ASSUME NEW sh \in ShellType, NEW line \in Seq(Chars \union {"x"})
  PROVE  LET t == [sh EXCEPT !.line = line]
         IN /\ t \in ShellType /\ t.line = line /\ t.phase = sh.phase
            /\ t.recalled = sh.recalled /\ t.cwd = sh.cwd /\ t.read = sh.read
  BY DEF ShellType

\* The shell's phase replaced.
LEMMA WithPhase ==
  ASSUME NEW sh \in ShellType, NEW phase \in Phases
  PROVE  LET t == [sh EXCEPT !.phase = phase]
         IN /\ t \in ShellType /\ t.line = sh.line /\ t.phase = phase
            /\ t.recalled = sh.recalled /\ t.cwd = sh.cwd /\ t.read = sh.read
  BY DEF ShellType

\* Whether its line comes from the history.
LEMMA WithRecalled ==
  ASSUME NEW sh \in ShellType, NEW recalled \in BOOLEAN
  PROVE  LET t == [sh EXCEPT !.recalled = recalled]
         IN /\ t \in ShellType /\ t.line = sh.line /\ t.phase = sh.phase
            /\ t.recalled = recalled /\ t.cwd = sh.cwd /\ t.read = sh.read
  BY DEF ShellType

\* What the shell's line becomes; it takes a program, or a fresh prompt, to leave it.
LEMMA EditType ==
  ASSUME NEW sh \in ShellType, sh.phase = "prompt", NEW key \in Pressed \union {"sync"}
  PROVE  LET t == Edit(sh, key)
         IN /\ t \in ShellType /\ t.cwd = sh.cwd /\ t.read = sh.read
            /\ t.phase \in {"prompt", "hook", "running"}
            /\ t.phase # "prompt" => t.line = <<>> /\ ~t.recalled
            /\ t.phase = "running" => key \in {"enter", "sync"} /\ ~Blank(sh.line)
            /\ key \in {"enter", "sync"} => t.phase # "prompt"
            /\ key \in Chars => Len(t.line) = Len(sh.line) + 1 /\ t.recalled = sh.recalled
            /\ key = "backspace" => t.line = Erased(sh.line) /\ t.recalled = sh.recalled
            /\ key = "recall" => t.recalled
            /\ key = "interrupt" => t.phase = "hook"
<1> DEFINE S == Chars \union {"x"}
           empty == [sh EXCEPT !.line = <<>>]
           clean == [empty EXCEPT !.recalled = FALSE]
           new == Edit(sh, key)
<1>1. sh.line \in Seq(S) /\ <<>> \in Seq(S) /\ <<"x">> \in Seq(S)
  BY DEF ShellType
<1>2. {"hook", "running", "prompt"} \subseteq Phases
  BY DEF Phases
<1>3. empty \in ShellType /\ empty.line = <<>> /\ empty.cwd = sh.cwd /\ empty.read = sh.read
  BY <1>1, WithLine
<1> HIDE DEF empty
<1>33. /\ clean \in ShellType /\ clean.line = <<>> /\ ~clean.recalled
       /\ clean.cwd = sh.cwd /\ clean.read = sh.read
  BY <1>3, WithRecalled
<1> HIDE DEF clean
<1>4. CASE key \in {"enter", "sync"}
  <2> DEFINE phase == IF Blank(sh.line) THEN "hook" ELSE "running"
  <2>1. new = [clean EXCEPT !.phase = phase]
    BY <1>4 DEF Edit, Submit, clean, empty
  <2>2. phase \in {"hook", "running"} /\ (phase = "running" => ~Blank(sh.line))
    OBVIOUS
  <2> HIDE DEF phase, new
  <2>3. /\ new \in ShellType /\ new.line = <<>> /\ new.phase = phase /\ ~new.recalled
        /\ new.cwd = sh.cwd /\ new.read = sh.read
    BY <1>2, <1>33, <2>1, <2>2, WithPhase
  <2> QED BY <1>4, <2>2, <2>3, CharsApart DEF new
<1>5. CASE key = "backspace"
  <2>1. new = [sh EXCEPT !.line = Erased(sh.line)]
    BY <1>5 DEF Edit
  <2>2. Erased(sh.line) \in Seq(S)
    BY <1>1, ErasedType
  <2> HIDE DEF new
  <2>3. /\ new \in ShellType /\ new.line = Erased(sh.line) /\ new.phase = "prompt"
        /\ new.recalled = sh.recalled /\ new.cwd = sh.cwd /\ new.read = sh.read
    BY <2>1, <2>2, WithLine
  <2> QED BY <1>5, <2>3, CharsApart DEF new
<1>6. CASE key = "interrupt"
  <2>1. new = [clean EXCEPT !.phase = "hook"]
    BY <1>6 DEF Edit, clean, empty
  <2> HIDE DEF new
  <2>2. /\ new \in ShellType /\ new.line = <<>> /\ new.phase = "hook" /\ ~new.recalled
        /\ new.cwd = sh.cwd /\ new.read = sh.read
    BY <1>2, <1>33, <2>1, WithPhase
  <2> QED BY <1>6, <2>2, CharsApart DEF new
<1>7. CASE key = "recall"
  <2> DEFINE drawn == [sh EXCEPT !.line = <<"x">>]
  <2>1. new = [drawn EXCEPT !.recalled = TRUE]
    BY <1>7 DEF Edit
  <2>2. /\ drawn \in ShellType /\ drawn.phase = "prompt" /\ drawn.cwd = sh.cwd
        /\ drawn.read = sh.read
    BY <1>1, WithLine
  <2> HIDE DEF new, drawn
  <2>3. new \in ShellType /\ new.phase = "prompt" /\ new.recalled /\ new.cwd = sh.cwd /\ new.read = sh.read
    BY <2>1, <2>2, WithRecalled
  <2> QED BY <1>7, <2>3, CharsApart DEF new
<1>8. CASE key \notin SpecialKeys \union {"sync"}
  <2>1. key \in Chars
    BY <1>8, KeyAssumption DEF Pressed
  <2>2. new = [sh EXCEPT !.line = Append(sh.line, key)]
    BY <1>8 DEF Edit, SpecialKeys
  <2>3. Append(sh.line, key) \in Seq(S) /\ Len(Append(sh.line, key)) = Len(sh.line) + 1
    BY <1>1, <2>1
  <2> HIDE DEF new
  <2>4. /\ new \in ShellType /\ new.line = Append(sh.line, key) /\ new.phase = "prompt"
        /\ new.recalled = sh.recalled /\ new.cwd = sh.cwd /\ new.read = sh.read
    BY <2>2, <2>3, WithLine
  <2> QED BY <1>8, <2>1, <2>3, <2>4 DEF new, SpecialKeys
<1> QED BY <1>4, <1>5, <1>6, <1>7, <1>8 DEF SpecialKeys

-----------------------------------------------------------------------------
(* Type correctness *)

\* The initial states are well typed.
LEMMA InitTypes == Init => TypeOK
<1> SUFFICES ASSUME Init PROVE TypeOK
  OBVIOUS
<1>1. session \in SessionType
  <2>1. PICK markers \in MarkerSupport : session = Started(markers)
    BY DEF Init
  <2>2. markers \in BOOLEAN /\ <<>> \in Seq(Chars)
    BY MarkerAssumption
  <2>3. (IF markers THEN "running" ELSE "ready") \in Statuses
    BY DEF Statuses
  <2> QED BY <2>1, <2>2, <2>3 DEF Started, SessionType
<1>2. writes \subseteq WriteType /\ IsFiniteSet(writes)
  BY FS_EmptySet DEF Init
<1>3. input \in Seq(Pressed \union {"sync"}) /\ output \in Seq(MessageType) /\ heard \in Heard
  BY DEF Init, Heard
<1>4. shell \in ShellType
  <2>1. <<>> \in Seq(Chars \union {"x"})
    OBVIOUS
  <2> QED BY <2>1 DEF Init, ShellType, Phases, Dirs
<1>5. budget \in BudgetType
  BY LimitAssumption DEF Init, BudgetType
<1> QED BY <1>1, <1>2, <1>3, <1>4, <1>5 DEF Init, TypeOK

\* Spending from the bounds keeps them bounds.
LEMMA SpendType ==
  ASSUME NEW left \in BudgetType
  PROVE  /\ left.keys > 0 => [left EXCEPT !.keys = @ - 1] \in BudgetType
         /\ left.navigations > 0 => [left EXCEPT !.navigations = @ - 1] \in BudgetType
         /\ [left EXCEPT !.faults = IF @ > 0 THEN @ - 1 ELSE 0] \in BudgetType
         /\ left.sudo > 0 => [left EXCEPT !.sudo = @ - 1] \in BudgetType
         /\ left.moves > 0 => [left EXCEPT !.moves = @ - 1] \in BudgetType
         /\ left.ends > 0 => [left EXCEPT !.ends = @ - 1] \in BudgetType
<1>1. /\ left.keys \in Nat /\ left.navigations \in Nat /\ left.faults \in Nat
      /\ left.sudo \in Nat /\ left.moves \in Nat /\ left.ends \in Nat
  BY DEF BudgetType
<1>2. left.keys > 0 => [left EXCEPT !.keys = @ - 1] \in BudgetType
  BY <1>1 DEF BudgetType
<1>3. left.navigations > 0 => [left EXCEPT !.navigations = @ - 1] \in BudgetType
  BY <1>1 DEF BudgetType
<1>4. [left EXCEPT !.faults = IF @ > 0 THEN @ - 1 ELSE 0] \in BudgetType
  BY <1>1 DEF BudgetType
<1>5. left.sudo > 0 => [left EXCEPT !.sudo = @ - 1] \in BudgetType
  BY <1>1 DEF BudgetType
<1>6. left.ends > 0 => [left EXCEPT !.ends = @ - 1] \in BudgetType
  BY <1>1 DEF BudgetType
<1>7. left.moves > 0 => [left EXCEPT !.moves = @ - 1] \in BudgetType
  BY <1>1 DEF BudgetType
<1> QED BY <1>2, <1>3, <1>4, <1>5, <1>6, <1>7

\* What a shell reports: the directory it is in.
LEMMA SayType ==
  ASSUME TypeOK, shell' \in ShellType, NEW kind \in {"prompt", "sudo", "exit"}, Say(kind)
  PROVE  /\ output' \in Seq(MessageType)
         /\ Len(output') = Len(output) + 1
         /\ \A i \in 1..Len(output) : output'[i] = output[i]
         /\ output'[Len(output) + 1].kind = kind
         /\ output'[Len(output) + 1].cwd = shell'.cwd
<1> DEFINE message == [kind |-> kind, cwd |-> shell'.cwd]
<1>1. message \in MessageType /\ message.kind = kind /\ message.cwd = shell'.cwd
  BY DEF MessageType, ShellType
<1>2. output' = Append(output, message)
  BY DEF Say
<1> HIDE DEF message
<1> QED BY <1>1, <1>2 DEF TypeOK

\* What a write makes of the sync file: opened for it, written, or given up, it is a file;
\* opened or written it is there.
LEMMA OpenedType ==
  ASSUME TypeOK, NEW w \in writes
  PROVE  [text |-> Unusable, writers |-> {w.id} \union IF file = None THEN {} ELSE file.writers]
           \in FileType
<1>1. w.id \in Nat
  BY DEF TypeOK, WriteType
<1>2. (IF file = None THEN {} ELSE file.writers) \subseteq Nat
  BY DEF TypeOK, FileType
<1> QED BY <1>1, <1>2 DEF FileType

\* Written, it stays there, unless the hook has removed it.
LEMMA WrittenType ==
  ASSUME TypeOK, NEW w \in writes, WriteLands(w)
  PROVE  file' \in FileType \union {None} /\ (file # None => file' # None)
<1>1. CASE file # None /\ w.id \in file.writers
  <2>1. PICK text \in Mixes(file.text, w.target) :
          file' = [text |-> text, writers |-> file.writers \ {w.id}]
    BY <1>1 DEF WriteLands
  <2>2. text \in Paths \union {Unusable}
    BY DEF Mixes, TypeOK, WriteType
  <2>3. file.writers \ {w.id} \subseteq Nat
    BY <1>1 DEF TypeOK, FileType
  <2>4. file' \in FileType
    BY <2>1, <2>2, <2>3 DEF FileType
  <2> QED BY <2>4, PathAssumption DEF FileType
<1>2. CASE ~(file # None /\ w.id \in file.writers)
  BY <1>2 DEF WriteLands, TypeOK
<1> QED BY <1>1, <1>2

\* Given up, it is left as it is.
LEMMA GivenUpType ==
  ASSUME TypeOK, NEW w \in writes, WriteFails(w)
  PROVE  file' \in FileType \union {None} /\ (file # None => file' # None)
<1>1. CASE file = None
  BY <1>1 DEF WriteFails
<1>2. CASE file # None
  <2>1. file' = [file EXCEPT !.writers = file.writers \ {w.id}]
    BY <1>2 DEF WriteFails
  <2>2. file \in FileType
    BY <1>2 DEF TypeOK
  <2>3. file' \in FileType
    BY <2>1, <2>2 DEF FileType
  <2> QED BY <2>3, PathAssumption DEF FileType
<1> QED BY <1>1, <1>2

\* What was read from the sync file is what the hook is about to go to.
ReadInv ==
  /\ shell.phase = "hooked" => shell.read # None
  /\ shell.read # None => shell.phase \in {"hooked", "gone"}

\* A command that ends leaves the shell in some directory, about to prompt.
LEMMA EndedType ==
  ASSUME TypeOK, NEW there \in Dirs, shell' = [shell EXCEPT !.phase = "hook", !.cwd = there]
  PROVE  /\ shell' \in ShellType /\ shell'.phase = "hook" /\ shell'.line = shell.line
         /\ shell'.recalled = shell.recalled /\ shell'.read = shell.read
<1> DEFINE s1 == [shell EXCEPT !.phase = "hook"]
<1>1. /\ s1 \in ShellType /\ s1.phase = "hook" /\ s1.line = shell.line
      /\ s1.recalled = shell.recalled /\ s1.read = shell.read
  BY WithPhase DEF Phases, TypeOK
<1>2. shell' = [s1 EXCEPT !.cwd = there]
  OBVIOUS
<1> HIDE DEF s1
<1> QED BY <1>1, <1>2 DEF ShellType

\* That of the step itself.
LEMMA CommandEndsType ==
  ASSUME TypeOK, CommandEnds
  PROVE  /\ shell' \in ShellType /\ shell'.phase = "hook" /\ shell'.line = shell.line
         /\ shell'.recalled = shell.recalled /\ shell'.read = shell.read
<1>1. PICK there \in Dirs : shell' = [shell EXCEPT !.phase = "hook", !.cwd = there]
  BY DEF CommandEnds, Dirs
<1> QED BY <1>1, EndedType

\* Every step keeps the types.
LEMMA NextKeepsTypes == TypeOK /\ ReadInv /\ [Next]_vars => TypeOK'
<1> SUFFICES ASSUME TypeOK, ReadInv, [Next]_vars PROVE TypeOK'
  OBVIOUS
<1> USE DEF TypeOK
<1>1. ASSUME NEW key \in Keys \union Chars, Press(key) PROVE TypeOK'
  <2>1. session' \in SessionType
    BY <1>1, TrackInputType DEF Press, Pressed
  <2>2. input' \in Seq(Pressed \union {"sync"})
    BY <1>1 DEF Press, Pressed
  <2>3. budget' \in BudgetType
    BY <1>1, SpendType DEF Press
  <2> QED BY <1>1, <2>1, <2>2, <2>3 DEF Press
<1>2. ASSUME NEW path \in Paths, SetCwd(path) PROVE TypeOK'
  <2>1. session' \in SessionType
    <3> DEFINE s1 == [session EXCEPT !.status = "path-sync-pending"]
    <3>1. s1 \in SessionType
      BY WithStatus DEF Statuses
    <3>2. session' = s1 \/ session' = [s1 EXCEPT !.pending = path]
      BY <1>2 DEF SetCwd, SessionType
    <3> HIDE DEF s1
    <3> QED BY <3>1, <3>2 DEF SessionType
  <2>2. writes' \subseteq WriteType /\ IsFiniteSet(writes')
    BY <1>2, ApplyType DEF SetCwd
  <2>3. budget' \in BudgetType
    BY <1>2, SpendType DEF SetCwd
  <2> QED BY <1>2, <2>1, <2>2, <2>3 DEF SetCwd, Heard
<1>17. ASSUME NEW w \in writes, WriteOpens(w) PROVE TypeOK'
  <2>1. writes' \subseteq WriteType /\ IsFiniteSet(writes')
    BY <1>17, StageType DEF WriteOpens
  <2>2. file' \in FileType
    BY <1>17, OpenedType DEF WriteOpens
  <2> QED BY <1>17, <2>1, <2>2 DEF WriteOpens
<1>3. ASSUME NEW w \in writes, WriteLands(w) PROVE TypeOK'
  <2>1. writes' \subseteq WriteType /\ IsFiniteSet(writes')
    BY <1>3, StageType DEF WriteLands
  <2>2. file' \in FileType \union {None}
    BY <1>3, WrittenType DEF WriteLands
  <2> QED BY <1>3, <2>1, <2>2 DEF WriteLands
<1>4. ASSUME NEW w \in writes, WriteFails(w) PROVE TypeOK'
  <2>3. file' \in FileType \union {None}
    BY <1>4, GivenUpType DEF WriteFails
  <2>1. writes' \subseteq WriteType /\ IsFiniteSet(writes')
    BY <1>4, StageType DEF WriteFails
  <2>2. budget' \in BudgetType
    BY <1>4, SpendType DEF WriteFails
  <2> QED BY <1>4, <2>1, <2>2, <2>3 DEF WriteFails
<1>5. ASSUME NEW w \in writes, ApplyReturns(w) PROVE TypeOK'
  <2>1. writes' \subseteq WriteType /\ IsFiniteSet(writes')
    BY <1>5, FS_RemoveElement DEF ApplyReturns
  <2>2. w.target \in Paths
    BY DEF WriteType
  <2>3. session' \in SessionType /\ input' \in Seq(Pressed \union {"sync"})
    <3>1. CASE w.stage = "failed"
      BY <1>5, <3>1, NotStagedType DEF ApplyReturns
    <3>2. CASE w.stage # "failed"
      <4> DEFINE after == Staged(session, w.target)
      <4>1. session' = after.session /\ input' = input \o after.key
        BY <1>5, <3>2 DEF ApplyReturns
      <4>2. after.session \in SessionType /\ after.key \in {<<>>, <<"sync">>}
        BY <2>2, StagedType
      <4>3. <<>> \in Seq(Pressed \union {"sync"})
        OBVIOUS
      <4>4. <<"sync">> \in Seq(Pressed \union {"sync"})
        OBVIOUS
      <4> HIDE DEF after
      <4> QED BY <4>1, <4>2, <4>3, <4>4, ConcatProperties
    <3> QED BY <3>1, <3>2
  <2> QED BY <1>5, <2>1, <2>3 DEF ApplyReturns
<1>6. CASE Receive
  <2> DEFINE said == Head(output)
  <2>1. said \in MessageType /\ output' \in Seq(MessageType)
    BY <1>6 DEF Receive
  <2>2. /\ session' \in SessionType
        /\ writes' \subseteq WriteType /\ IsFiniteSet(writes')
    <3>1. CASE PromptMarker(said.cwd)
      <4>1. said.cwd \in Dirs
        BY <2>1 DEF MessageType
      <4>2. session' \in SessionType
        BY <3>1, <4>1, PromptType DEF PromptMarker
      <4>3. session.pending # None => session.pending \in Paths
        BY DEF SessionType
      <4> QED BY <3>1, <4>2, <4>3, ApplyType DEF PromptMarker
    <3>2. CASE SudoPrompt
      <4> DEFINE status == IF session.status = "running" THEN "waiting-sudo" ELSE session.status
      <4>1. status \in Statuses /\ session' = [session EXCEPT !.status = status]
        BY <3>2 DEF SudoPrompt, Statuses, SessionType
      <4> HIDE DEF status
      <4> QED BY <3>2, <4>1, WithStatus DEF SudoPrompt
    <3>3. CASE HandleExit
      <4> DEFINE s1 == [session EXCEPT !.pty = FALSE]
                 status == IF session.everReady THEN "disconnected" ELSE "distro-stopped"
      <4>1. s1 \in SessionType
        BY DEF SessionType
      <4>2. session' = session \/ session' = [s1 EXCEPT !.status = status]
        BY <3>3 DEF HandleExit, SessionType
      <4>3. status \in Statuses
        BY DEF Statuses, Dead
      <4> HIDE DEF s1, status
      <4> QED BY <3>3, <4>1, <4>2, <4>3, WithStatus DEF HandleExit
    <3> QED BY <1>6, <3>1, <3>2, <3>3 DEF Receive
  <2> QED BY <1>6, <2>1, <2>2 DEF Receive
<1>7. CASE Dispose
  <2>1. session' \in SessionType
    BY <1>7 DEF Dispose, SessionType
  <2>2. shell' \in ShellType
    BY <1>7, WithPhase DEF Dispose, Phases
  <2>3. budget' \in BudgetType
    BY <1>7, SpendType DEF Dispose
  <2>4. input' \in Seq(Pressed \union {"sync"})
    BY <1>7 DEF Dispose
  <2> QED BY <1>7, <2>1, <2>2, <2>3, <2>4 DEF Dispose
<1>8. CASE ReadKey
  <2>1. Head(input) \in Pressed \union {"sync"} /\ input' \in Seq(Pressed \union {"sync"})
    BY <1>8 DEF ReadKey
  <2>2. shell' \in ShellType
    BY <1>8, <2>1, EditType DEF ReadKey
  <2> QED BY <1>8, <2>1, <2>2 DEF ReadKey
<1>9. CASE ProgramReads
  <2>1. input' \in Seq(Pressed \union {"sync"})
    BY <1>9 DEF ProgramReads
  <2>2. PICK next \in {"hook", "running", "sudo"} : shell' = [shell EXCEPT !.phase = next]
    BY <1>9 DEF ProgramReads
  <2>3. shell' \in ShellType
    BY <2>2, WithPhase DEF Phases
  <2> QED BY <1>9, <2>1, <2>3 DEF ProgramReads
<1>10. CASE CommandEnds
  <2>1. PICK there \in Dirs :
          /\ there # shell.cwd => budget.moves > 0
          /\ shell' = [shell EXCEPT !.phase = "hook", !.cwd = there]
          /\ budget' = [budget EXCEPT !.moves = IF there = shell.cwd THEN @ ELSE @ - 1]
    BY <1>10 DEF CommandEnds, Dirs
  <2>2. shell' \in ShellType
    BY <2>1, EndedType
  <2>3. budget' \in BudgetType
    <3>1. CASE there = shell.cwd
      BY <2>1, <3>1 DEF BudgetType
    <3>2. CASE there # shell.cwd
      BY <2>1, <3>2, SpendType
    <3> QED BY <3>1, <3>2
  <2> QED BY <1>10, <2>2, <2>3 DEF CommandEnds
<1>11. CASE AskPassword
  <2>1. shell' \in ShellType
    BY <1>11, WithPhase DEF AskPassword, Phases
  <2>2. output' \in Seq(MessageType)
    BY <1>11, <2>1, SayType DEF AskPassword
  <2>3. budget' \in BudgetType
    BY <1>11, SpendType DEF AskPassword
  <2> QED BY <1>11, <2>1, <2>2, <2>3 DEF AskPassword
<1>12. CASE HookReads
  <2>2. file.text \in Paths \union {Unusable}
    BY <1>12 DEF HookReads, FileType
  <2>1. shell' \in ShellType
    BY <1>12, <2>2 DEF HookReads, ShellType, Phases
  <2> QED BY <1>12, <2>1 DEF HookReads
<1>13. CASE HookPrompts
  <2>1. shell' \in ShellType
    <3> DEFINE s1 == [shell EXCEPT !.phase = "prompt"]
    <3>1. s1 \in ShellType
      BY WithPhase DEF Phases
    <3>2. PICK there \in {shell.cwd, shell.read} \ {Unusable} :
            shell' = [shell EXCEPT !.phase = "prompt", !.cwd = there, !.read = None]
      BY <1>13 DEF HookPrompts
    <3>4. there \in Dirs
      BY <1>13 DEF HookPrompts, ShellType, ReadInv, Dirs
    <3>3. shell' = [s1 EXCEPT !.cwd = there, !.read = None]
      BY <3>2
    <3> HIDE DEF s1
    <3> QED BY <3>1, <3>3, <3>4 DEF ShellType
  <2>2. output' \in Seq(MessageType)
    BY <1>13, <2>1, SayType DEF HookPrompts
  <2> QED BY <1>13, <2>1, <2>2 DEF HookPrompts, Heard
<1>14. CASE Prompts
  <2>1. shell' \in ShellType
    BY <1>14, WithPhase DEF Prompts, Phases
  <2>2. output' \in Seq(MessageType)
    BY <1>14, <2>1, SayType DEF Prompts
  <2> QED BY <1>14, <2>1, <2>2 DEF Prompts
<1>15. CASE ShellExits
  <2>1. shell' \in ShellType
    BY <1>15, WithPhase DEF ShellExits, Phases
  <2>2. output' \in Seq(MessageType)
    BY <1>15, <2>1, SayType DEF ShellExits
  <2>3. budget' \in BudgetType
    BY <1>15, SpendType DEF ShellExits
  <2>4. input' \in Seq(Pressed \union {"sync"})
    BY <1>15 DEF ShellExits
  <2> QED BY <1>15, <2>1, <2>2, <2>3, <2>4 DEF ShellExits
<1>16. CASE UNCHANGED vars
  BY <1>16 DEF vars
<1> QED
  BY <1>1, <1>2, <1>3, <1>4, <1>5, <1>6, <1>7, <1>8, <1>9, <1>10, <1>11, <1>12, <1>13,
     <1>14, <1>15, <1>16, <1>17 DEF Next

\* A step that leaves the shell alone, or moves it to a phase that reads nothing.
LEMMA NextKeepsRead == TypeOK /\ ReadInv /\ [Next]_vars => ReadInv'
<1> SUFFICES ASSUME TypeOK, ReadInv, [Next]_vars PROVE ReadInv'
  OBVIOUS
<1>1. ASSUME NEW phase \in Phases \ {"hooked"}, shell' = [shell EXCEPT !.phase = phase],
             shell.phase \notin {"hooked", "gone"} \/ phase = "gone"
      PROVE  ReadInv'
  BY <1>1, WithPhase DEF ReadInv, TypeOK
<1>2. CASE shell' = shell
  BY <1>2 DEF ReadInv
<1>3. CASE Dispose \/ ShellExits
  BY <1>1, <1>3 DEF Dispose, ShellExits, Phases
<1>4. CASE ReadKey
  <2>1. Head(input) \in Pressed \union {"sync"}
    BY <1>4 DEF ReadKey, TypeOK
  <2>2. /\ shell.phase = "prompt" /\ shell'.read = shell.read
        /\ shell'.phase \in {"prompt", "hook", "running"}
    BY <1>4, <2>1, EditType DEF ReadKey, TypeOK
  <2> QED BY <2>2 DEF ReadInv
<1>5. CASE ProgramReads
  <2>1. PICK next \in {"hook", "running", "sudo"} : shell' = [shell EXCEPT !.phase = next]
    BY <1>5 DEF ProgramReads
  <2> QED BY <1>1, <1>5, <2>1 DEF ProgramReads, Phases
<1>6. CASE AskPassword \/ Prompts
  BY <1>1, <1>6 DEF AskPassword, Prompts, Phases
<1>9. CASE CommandEnds
  BY <1>9, CommandEndsType DEF CommandEnds, ReadInv
<1>7. CASE HookReads
  <2>1. file.text \in Paths \union {Unusable}
    BY <1>7 DEF HookReads, TypeOK, FileType
  <2>2. shell'.phase = "hooked" /\ shell'.read = file.text
    BY <1>7 DEF HookReads, TypeOK, ShellType
  <2> QED BY <2>1, <2>2, PathAssumption DEF ReadInv
<1>8. CASE HookPrompts
  BY <1>8 DEF HookPrompts, ReadInv, TypeOK, ShellType
<1> QED
  BY <1>2, <1>3, <1>4, <1>5, <1>6, <1>7, <1>8, <1>9
  DEF Next, vars, Press, SetCwd, WriteOpens, WriteLands, WriteFails, ApplyReturns, Receive

\* The shell has read nothing at the start.
LEMMA InitReads == Init => ReadInv
  BY DEF Init, ReadInv

\* Whatever is typed, asked for, written or printed, the console, the shell and what is
\* between them keep their types.
THEOREM TypeCorrect == Spec => [](TypeOK /\ ReadInv)
<1>1. Init => TypeOK /\ ReadInv
  BY InitTypes, InitReads
<1>2. TypeOK /\ ReadInv /\ [Next]_vars => (TypeOK /\ ReadInv)'
  BY NextKeepsTypes, NextKeepsRead
<1> QED BY <1>1, <1>2, PTL DEF Spec

-----------------------------------------------------------------------------
(* The directory shown *)

\* Once it has prompted, the directory shown is the shell's but for the prompts not
\* received yet, of which the last one tells it.
Told == {i \in 1..Len(output) : output[i].kind = "prompt"}
ShownInv ==
  (session.markers /\ shell.phase \notin {"hook", "hooked", "gone"}) =>
    /\ \A i \in Told : (\A j \in Told : j <= i) => output[i].cwd = shell.cwd
    /\ Told = {} => session.cwd = shell.cwd

\* A step of the session, or of its user: nothing is received and the shell is where
\* it was, or about to prompt.
LEMMA ShownApart ==
  ASSUME ShownInv, output' = output, session'.markers = session.markers,
         session'.cwd = session.cwd,
         \/ shell'.phase \in {"hook", "hooked", "gone"}
         \/ shell.phase \notin {"hook", "hooked", "gone"} /\ shell'.cwd = shell.cwd
  PROVE  ShownInv'
<1>1. Told' = Told
  BY DEF Told
<1> QED BY <1>1 DEF ShownInv

\* The shell says that it asks for a password.
LEMMA ShownSudo ==
  ASSUME TypeOK, ShownInv, shell' \in ShellType, Say("sudo"), session' = session,
         shell'.cwd = shell.cwd, shell.phase \notin {"hook", "hooked", "gone"}
  PROVE  ShownInv'
<1>1. Told' = Told
  <2>1. Len(output) \in Nat
    BY DEF TypeOK
  <2> QED BY <2>1, SayType DEF Told
<1>2. \A i \in Told : output'[i] = output[i]
  BY SayType DEF Told
<1> QED BY <1>1, <1>2 DEF ShownInv

\* A prompt is the last thing said, and tells where the shell is.
LEMMA ShownPrompt ==
  ASSUME TypeOK, shell' \in ShellType, Say("prompt")
  PROVE  ShownInv'
<1>1. Len(output) \in Nat
  BY DEF TypeOK
<1>2. Len(output') = Len(output) + 1 /\ output'[Len(output) + 1].kind = "prompt"
      /\ output'[Len(output) + 1].cwd = shell'.cwd
  BY SayType
<1>3. Len(output) + 1 \in Told' /\ \A i \in Told' : i \in Int /\ i <= Len(output) + 1
  BY <1>1, <1>2 DEF Told
<1>4. ASSUME NEW i \in Told', \A j \in Told' : j <= i PROVE output'[i].cwd = shell'.cwd
  <2>1. i = Len(output) + 1
    BY <1>1, <1>3, <1>4
  <2> QED BY <1>2, <2>1
<1> QED BY <1>3, <1>4 DEF ShownInv

\* What is received is taken from the front: a prompt that was not the last leaves the
\* last one behind, and the last one is what the session now shows.
LEMMA ShownReceive ==
  ASSUME TypeOK, ShownInv, Receive
  PROVE  ShownInv'
<1> DEFINE said == Head(output)
<1>1. /\ said \in MessageType /\ said = output[1] /\ Len(output) \in Nat /\ Len(output) > 0
      /\ Len(output') = Len(output) - 1 /\ \A i \in 1..Len(output') : output'[i] = output[i + 1]
  BY HeadTailProperties DEF Receive, TypeOK
<1>2. \A i : i \in Told' <=> i \in 1..Len(output') /\ i + 1 \in Told
  BY <1>1 DEF Told
<1>3. \A i \in Told : i \in Int /\ i >= 1 /\ (i = 1 \/ i - 1 \in Told')
  BY <1>1 DEF Told
<1>4. 1 \in Told <=> said.kind = "prompt"
  BY <1>1 DEF Told
<1>5. shell' = shell
  BY DEF Receive
<1>6. CASE said.kind = "prompt" /\ PromptMarker(said.cwd)
  <2>1. session'.cwd = said.cwd /\ session'.markers = session.markers /\ said.cwd # None
    <3>1. said.cwd \in Dirs
      BY <1>1 DEF MessageType
    <3> QED BY <1>6, <3>1, PromptType, PathAssumption DEF PromptMarker, TypeOK, Dirs
  <2> SUFFICES ASSUME session'.markers, shell'.phase \notin {"hook", "hooked", "gone"}
               PROVE  /\ \A i \in Told' : (\A j \in Told' : j <= i) => output'[i].cwd = shell'.cwd
                      /\ Told' = {} => session'.cwd = shell'.cwd
    BY <2>1 DEF ShownInv
  <2>2. ASSUME NEW i \in Told', \A j \in Told' : j <= i PROVE output'[i].cwd = shell'.cwd
    <3>1. i + 1 \in Told /\ output'[i] = output[i + 1]
      BY <1>1, <1>2
    <3>2. \A j \in Told : j <= i + 1
      BY <1>2, <1>3, <2>2
    <3> QED BY <1>5, <2>1, <3>1, <3>2 DEF ShownInv
  <2>3. ASSUME Told' = {} PROVE session'.cwd = shell'.cwd
    <3>1. 1 \in Told /\ \A j \in Told : j <= 1
      BY <1>3, <1>4, <1>6, <2>3
    <3> QED BY <1>1, <1>5, <2>1, <3>1 DEF ShownInv
  <2> QED BY <2>2, <2>3
<1>7. CASE said.kind # "prompt"
  <2>1. session'.cwd = session.cwd /\ session'.markers = session.markers
    <3>1. SudoPrompt \/ HandleExit
      BY <1>7 DEF Receive
    <3> QED BY <3>1 DEF SudoPrompt, HandleExit, TypeOK, SessionType
  <2>2. Told' = {} <=> Told = {}
    BY <1>2, <1>3, <1>4, <1>7
  <2>3. ASSUME session.markers, shell.phase \notin {"hook", "hooked", "gone"},
               NEW i \in Told', \A j \in Told' : j <= i PROVE output'[i].cwd = shell.cwd
    <3>1. i + 1 \in Told /\ output'[i] = output[i + 1]
      BY <1>1, <1>2
    <3>2. \A j \in Told : j <= i + 1
      BY <1>2, <1>3, <2>3
    <3> QED BY <2>3, <3>1, <3>2 DEF ShownInv
  <2> QED BY <1>5, <2>1, <2>2, <2>3 DEF ShownInv
<1> QED BY <1>6, <1>7 DEF Receive

\* Every step keeps the shown directory the shell's, or its report on its way.
LEMMA NextKeepsShown == TypeOK /\ ReadInv /\ TypeOK' /\ ShownInv /\ [Next]_vars => ShownInv'
<1> SUFFICES ASSUME TypeOK, ReadInv, TypeOK', ShownInv, [Next]_vars PROVE ShownInv'
  OBVIOUS
<1>1. ASSUME NEW key \in Keys \union Chars, Press(key) PROVE ShownInv'
  BY <1>1, TrackInputType, ShownApart DEF Press, Pressed, TypeOK, Unmoved
<1>2. ASSUME NEW path \in Paths, SetCwd(path) PROVE ShownInv'
  <2>1. session'.markers = session.markers /\ session'.cwd = session.cwd
    BY <1>2 DEF SetCwd, TypeOK, SessionType
  <2> QED BY <1>2, <2>1, ShownApart DEF SetCwd
<1>3. ASSUME NEW w \in writes, WriteOpens(w) \/ WriteLands(w) \/ WriteFails(w) PROVE ShownInv'
  BY <1>3, ShownApart DEF WriteOpens, WriteLands, WriteFails
<1>4. ASSUME NEW w \in writes, ApplyReturns(w) PROVE ShownInv'
  <2>1. w.target \in Paths
    BY DEF TypeOK, WriteType
  <2>2. session'.markers = session.markers /\ session'.cwd = session.cwd
    BY <1>4, <2>1, StagedType, NotStagedType DEF ApplyReturns, TypeOK, Unmoved
  <2> QED BY <1>4, <2>2, ShownApart DEF ApplyReturns
<1>5. CASE Receive
  BY <1>5, ShownReceive
<1>6. CASE Dispose
  BY <1>6, WithPhase DEF Dispose, TypeOK, Phases, ShownInv
<1>7. CASE ReadKey
  <2>1. Head(input) \in Pressed \union {"sync"}
    BY <1>7 DEF ReadKey, TypeOK
  <2>2. shell'.cwd = shell.cwd /\ shell.phase = "prompt"
    BY <1>7, <2>1, EditType DEF ReadKey, TypeOK
  <2> QED BY <1>7, <2>2, ShownApart DEF ReadKey
<1>8. CASE ProgramReads
  <2>1. shell'.cwd = shell.cwd
    BY <1>8, WithPhase DEF ProgramReads, TypeOK, Phases
  <2> QED BY <1>8, <2>1, ShownApart DEF ProgramReads
<1>9. CASE CommandEnds
  BY <1>9, CommandEndsType, ShownApart DEF CommandEnds
<1>10. CASE AskPassword
  BY <1>10, WithPhase, ShownSudo DEF AskPassword, TypeOK, Phases
<1>11. CASE HookReads
  <2>1. shell'.phase = "hooked" /\ shell'.cwd = shell.cwd
    BY <1>11 DEF HookReads, TypeOK, ShellType
  <2> QED BY <1>11, <2>1, ShownApart DEF HookReads
<1>12. CASE HookPrompts
  BY <1>12, ShownPrompt DEF HookPrompts, TypeOK
<1>13. CASE Prompts
  BY <1>13, ShownPrompt DEF Prompts, TypeOK, ShownInv
<1>14. CASE ShellExits
  BY <1>14, WithPhase DEF ShellExits, TypeOK, Phases, ShownInv
<1>15. CASE UNCHANGED vars
  BY <1>15, ShownApart DEF vars
<1> QED
  BY <1>1, <1>2, <1>3, <1>4, <1>5, <1>6, <1>7, <1>8, <1>9, <1>10, <1>11, <1>12, <1>13,
     <1>14, <1>15 DEF Next

\* At rest the directory shown is the shell's: nothing is on its way, so the last prompt
\* received told it.
THEOREM ShowsWhere == Spec => []ShowsWhereItIs
<1>1. Init => ShownInv
  BY DEF Init, ShownInv, Told, Started
<1>2. ShownInv => ShowsWhereItIs
  BY DEF ShownInv, Told, ShowsWhereItIs, Idle
<1>3. TypeOK /\ ReadInv /\ TypeOK' /\ ShownInv /\ [Next]_vars => ShownInv'
  BY NextKeepsShown
<1> QED BY <1>1, <1>2, <1>3, TypeCorrect, PTL DEF Spec

-----------------------------------------------------------------------------
(* Following the Explorer *)

\* Without markers nothing is asked for.
Unmarked ==
  ~session.markers => heard = "tried" /\ writes = {} /\ file = None /\ session.pending = None

\* A failed write is counted, or the shell has gone.
Failures ==
  /\ budget.faults <= MaxWriteFaults
  /\ (\E w \in writes : w.stage = "failed") => ~AllStaged \/ shell.phase = "gone"

\* Until the hook has read a request, one is on its way to it; and a file that is not read
\* yet has somebody who will press Return for it.
Underway ==
  \/ session.pending # None \/ (\E w \in writes : w.stage = "asked")
  \/ file # None \/ shell.read # None
Returns(keys) == \E i \in 1..Len(keys) : keys[i] = "sync"
Pushed == session.pending # None \/ writes # {} \/ Returns(input)

\* A key at the end of the input adds a sync only if it is one.
LEMMA ReturnsAppend ==
  ASSUME NEW S, NEW keys \in Seq(S), NEW key \in S
  PROVE  Returns(Append(keys, key)) <=> Returns(keys) \/ key = "sync"
<1> DEFINE longer == Append(keys, key)
<1>1. /\ Len(keys) \in Nat /\ Len(longer) = Len(keys) + 1
      /\ \A i \in 1..Len(keys) : longer[i] = keys[i]
      /\ longer[Len(keys) + 1] = key
  OBVIOUS
<1> HIDE DEF longer
<1>2. \A i \in 1..Len(longer) : i \in 1..Len(keys) \/ i = Len(keys) + 1
  BY <1>1
<1>3. Returns(longer) => Returns(keys) \/ key = "sync"
  BY <1>1, <1>2 DEF Returns
<1>4. Len(keys) + 1 \in 1..Len(longer) /\ 1..Len(keys) \subseteq 1..Len(longer)
  BY <1>1
<1>5. Returns(keys) \/ key = "sync" => Returns(longer)
  BY <1>1, <1>4 DEF Returns
<1> QED BY <1>3, <1>5 DEF longer

\* A key taken off the input was the sync, or leaves it there.
LEMMA ReturnsTail ==
  ASSUME NEW S, NEW keys \in Seq(S), keys # <<>>, Returns(keys)
  PROVE  Head(keys) = "sync" \/ Returns(Tail(keys))
<1>1. /\ Len(keys) \in Nat /\ Len(Tail(keys)) = Len(keys) - 1 /\ Head(keys) = keys[1]
      /\ \A i \in 1..Len(Tail(keys)) : Tail(keys)[i] = keys[i + 1]
  BY HeadTailProperties
<1>2. PICK i \in 1..Len(keys) : keys[i] = "sync"
  BY DEF Returns
<1>3. CASE i = 1
  BY <1>1, <1>2, <1>3
<1>4. CASE i # 1
  <2>1. i - 1 \in 1..Len(Tail(keys)) /\ keys[(i - 1) + 1] = "sync"
    BY <1>1, <1>2, <1>4
  <2>2. Tail(keys)[i - 1] = "sync"
    BY <1>1, <2>1
  <2> QED BY <2>1, <2>2 DEF Returns
<1> QED BY <1>3, <1>4

\* The faults left only fall: a run that counts none now counted none before.
LEMMA FaultsFall ==
  ASSUME TypeOK, Failures, [Next]_vars
  PROVE  /\ budget'.faults <= MaxWriteFaults /\ (AllStaged' => AllStaged)
         /\ shell.phase = "gone" => shell'.phase = "gone"
<1>1. budget.faults \in Nat /\ MaxWriteFaults \in Nat
  BY LimitAssumption DEF TypeOK, BudgetType
<1>2. budget'.faults \in Int /\ budget'.faults <= budget.faults
  <2>1. CASE UNCHANGED budget
    BY <1>1, <2>1
  <2>2. CASE \E w \in writes : WriteFails(w)
    BY <1>1, <2>2 DEF WriteFails, TypeOK, BudgetType
  <2>3. CASE Dispose \/ AskPassword \/ ShellExits
    BY <1>1, <2>3 DEF Dispose, AskPassword, ShellExits, TypeOK, BudgetType
  <2>6. ASSUME CommandEnds PROVE budget'.faults = budget.faults
    <3>1. PICK there \in Paths \union {Home} :
            budget' = [budget EXCEPT !.moves = IF there = shell.cwd THEN @ ELSE @ - 1]
      BY <2>6 DEF CommandEnds
    <3> QED BY <3>1 DEF TypeOK, BudgetType
  <2>4. ASSUME NEW key \in Keys \union Chars, Press(key) PROVE budget'.faults = budget.faults
    BY <2>4 DEF Press, TypeOK, BudgetType
  <2>5. ASSUME NEW path \in Paths, SetCwd(path) PROVE budget'.faults = budget.faults
    BY <2>5 DEF SetCwd, TypeOK, BudgetType
  <2>7. ASSUME NEW w \in writes, WriteOpens(w) \/ WriteLands(w) \/ ApplyReturns(w)
        PROVE  UNCHANGED budget
    BY <2>7 DEF WriteOpens, WriteLands, ApplyReturns
  <2>8. Receive \/ ReadKey \/ ProgramReads \/ HookReads \/ HookPrompts \/ Prompts
          => UNCHANGED budget
    BY DEF Receive, ReadKey, ProgramReads, HookReads, HookPrompts, Prompts
  <2> QED
    BY <1>1, <2>1, <2>2, <2>3, <2>4, <2>5, <2>6, <2>7, <2>8 DEF Next, vars
<1>3. shell.phase = "gone" => shell'.phase = "gone"
  <2>1. CASE UNCHANGED shell
    BY <2>1
  <2>2. CASE Dispose
    BY <2>2, WithPhase DEF Dispose, TypeOK, Phases
  <2>3. CASE shell.phase # "gone"
    BY <2>3
  <2>4. ShellMoves \/ CommandEnds \/ AskPassword \/ ShellExits => shell.phase # "gone"
    BY DEF ShellMoves, ReadKey, ProgramReads, CommandEnds, AskPassword, HookReads, HookPrompts,
           Prompts, ShellExits
  <2> QED
    BY <2>1, <2>2, <2>3, <2>4
    DEF Next, vars, Press, SetCwd, WriteOpens, WriteLands, WriteFails, ApplyReturns, Receive,
        ShellMoves
<1> QED BY <1>1, <1>2, <1>3 DEF Failures, AllStaged

\* A report names a directory.
LEMMA SaidDir ==
  ASSUME TypeOK, Receive
  PROVE  Head(output).cwd \in Dirs
<1>1. Head(output) \in MessageType
  BY DEF Receive, TypeOK
<1> QED BY <1>1 DEF MessageType

\* A session keeps its markers, and one without them never has a request: setCwd drops it.
LEMMA NextKeepsUnmarked == TypeOK /\ Unmarked /\ [Next]_vars => Unmarked'
<1> SUFFICES ASSUME TypeOK, Unmarked, [Next]_vars PROVE Unmarked'
  OBVIOUS
<1>1. ASSUME NEW key \in Keys \union Chars, Press(key) PROVE Unmarked'
  BY <1>1, TrackInputType DEF Press, Pressed, TypeOK, Unmoved, Unmarked
<1>2. ASSUME NEW path \in Paths, SetCwd(path) PROVE Unmarked'
  <2>1. session'.markers
    BY <1>2 DEF SetCwd, TypeOK, SessionType
  <2> QED BY <2>1 DEF Unmarked
<1>3. CASE \E w \in writes : WriteOpens(w) \/ WriteLands(w) \/ WriteFails(w)
  BY <1>3 DEF WriteOpens, WriteLands, WriteFails, Unmarked
<1>4. ASSUME NEW w \in writes, ApplyReturns(w) PROVE Unmarked'
  <2>1. w.target \in Paths
    BY DEF TypeOK, WriteType
  <2>2. session'.markers = session.markers
    BY <1>4, <2>1, StagedType, NotStagedType DEF ApplyReturns, TypeOK, Unmoved
  <2> QED BY <2>2 DEF Unmarked
<1>5. CASE Receive
  <2>1. CASE PromptMarker(Head(output).cwd)
    <3>1. /\ session'.markers = session.markers
          /\ session'.pending = IF session.pending # None /\ session.typed = <<>> THEN None
                                ELSE session.pending
      BY <1>5, <2>1, SaidDir, PromptType DEF PromptMarker, TypeOK
    <3> QED BY <1>5, <2>1, <3>1 DEF Receive, PromptMarker, Unmarked
  <2>2. CASE SudoPrompt \/ HandleExit
    <3>1. session'.markers = session.markers /\ session'.pending = session.pending
          /\ writes' = writes
      BY <2>2 DEF SudoPrompt, HandleExit, TypeOK, SessionType
    <3> QED BY <1>5, <3>1 DEF Receive, Unmarked
  <2> QED BY <1>5, <2>1, <2>2 DEF Receive
<1>6. CASE Dispose
  <2>1. session'.markers = session.markers /\ session'.pending = session.pending
    BY <1>6 DEF Dispose, TypeOK, SessionType
  <2> QED BY <1>6, <2>1 DEF Dispose, Unmarked
<1>7. CASE HookPrompts
  BY <1>7 DEF HookPrompts, Unmarked
<1>8. CASE UNCHANGED <<session, writes, heard, file>>
  BY <1>8 DEF Unmarked
<1> QED
  BY <1>1, <1>2, <1>3, <1>4, <1>5, <1>6, <1>7, <1>8
  DEF Next, vars, ReadKey, ProgramReads, CommandEnds, AskPassword, HookReads, Prompts, ShellExits

\* The catch of applyCwd runs for a write that failed, and that was counted.
LEMMA NextKeepsFailures == TypeOK /\ Failures /\ [Next]_vars => Failures'
<1> SUFFICES ASSUME TypeOK, Failures, [Next]_vars PROVE Failures'
  OBVIOUS
<1>1. /\ budget'.faults <= MaxWriteFaults /\ (AllStaged' => AllStaged)
      /\ shell.phase = "gone" => shell'.phase = "gone"
  BY FaultsFall
<1>2. CASE \A w \in writes' : w.stage = "failed" => \E v \in writes : v.stage = "failed"
  BY <1>1, <1>2 DEF Failures
<1>3. ASSUME NEW w \in writes, WriteFails(w) PROVE Failures'
  <2>1. budget.faults \in Nat /\ MaxWriteFaults \in Nat /\ budget.faults <= MaxWriteFaults
    BY LimitAssumption DEF TypeOK, BudgetType, Failures
  <2>2. budget.faults > 0 => budget'.faults < MaxWriteFaults
    BY <1>3, <2>1 DEF WriteFails, TypeOK, BudgetType
  <2> QED BY <1>1, <1>3, <2>1, <2>2 DEF WriteFails, Failures, AllStaged
<1>4. ASSUME NEW w \in writes, WriteOpens(w) \/ WriteLands(w) PROVE Failures'
  <2>1. \A v \in writes' : v \in writes \/ v.stage \in {"open", "done"}
    BY <1>4, StageType DEF WriteOpens, WriteLands, TypeOK
  <2> QED BY <1>2, <2>1
<1>5. ASSUME NEW path \in Paths, SetCwd(path) PROVE Failures'
  <2>1. \A v \in writes' : v \in writes \/ v.stage = "asked"
    BY <1>5, ApplyType DEF SetCwd, TypeOK
  <2> QED BY <1>2, <2>1
<1>6. CASE Receive
  <2>1. session.pending # None => session.pending \in Paths
    BY DEF TypeOK, SessionType
  <2>2. \A v \in writes' : v \in writes \/ v.stage = "asked"
    <3>1. CASE SudoPrompt \/ HandleExit
      BY <3>1 DEF SudoPrompt, HandleExit
    <3>2. CASE PromptMarker(Head(output).cwd)
      BY <2>1, <3>2, ApplyType DEF PromptMarker, TypeOK
    <3> QED BY <1>6, <3>1, <3>2 DEF Receive
  <2> QED BY <1>2, <2>2
<1>7. CASE writes' \subseteq writes
  BY <1>2, <1>7
<1> QED
  BY <1>3, <1>4, <1>5, <1>6, <1>7
  DEF Next, vars, Press, ApplyReturns, Dispose, ReadKey, ProgramReads, CommandEnds,
      AskPassword, HookReads, HookPrompts, Prompts, ShellExits

\* What the rest of FollowsInv says, of a step: the console lives, the shell has not gone
\* and no write has failed, before and after.
Steady == AllStaged /\ Live(session) /\ shell.phase # "gone"
Heeded == heard = "no" => Underway
ReturnComes == shell.phase = "prompt" /\ file # None => Pushed

\* Nothing of what is on its way is lost.
LEMMA HeededKept ==
  ASSUME Heeded, heard' = heard,
         session.pending # None => session'.pending # None \/ \E w \in writes' : w.stage = "asked",
         \A w \in writes : w.stage = "asked" => w \in writes',
         file # None => file' # None, shell.read # None => shell'.read # None
  PROVE  Heeded'
  BY DEF Heeded, Underway

\* What is still to come after a sync stays to come if nothing it depends on is lost.
LEMMA ReturnKept ==
  ASSUME ReturnComes, shell'.phase = "prompt" => shell.phase = "prompt", file' = file,
         session.pending # None => session'.pending # None \/ writes' # {},
         writes # {} => writes' # {}, Returns(input) => Returns(input')
  PROVE  ReturnComes'
  BY DEF ReturnComes, Pushed

\* A request waits in the session or is on its way to the file.
LEMMA SetCwdHeeded ==
  ASSUME TypeOK, NEW path \in Paths, SetCwd(path)
  PROVE  session'.pending = path \/ \E w \in writes' : w.stage = "asked"
<1>1. CASE session.status = "ready" /\ session.typed = <<>>
  <2>1. writes' = Apply(writes, path)
    BY <1>1 DEF SetCwd
  <2> QED BY <2>1, ApplyType DEF TypeOK
<1>2. CASE ~(session.status = "ready" /\ session.typed = <<>>)
  <2>1. session' = [session EXCEPT !.status = "path-sync-pending", !.pending = path]
    BY <1>2 DEF SetCwd
  <2> QED BY <2>1 DEF TypeOK, SessionType
<1> QED BY <1>1, <1>2

\* What waited for a prompt is applied at it, or waits on.
LEMMA ReceiveHeeds ==
  ASSUME TypeOK, Receive
  PROVE  /\ session.pending # None => session'.pending # None \/ \E w \in writes' : w.stage = "asked"
         /\ writes \subseteq writes'
<1>1. CASE PromptMarker(Head(output).cwd)
  <2>1. session.pending # None => session.pending \in Paths
    BY DEF TypeOK, SessionType
  <2>2. session'.pending = IF session.pending # None /\ session.typed = <<>> THEN None
                           ELSE session.pending
    BY <1>1, SaidDir, PromptType DEF PromptMarker, TypeOK
  <2> QED BY <1>1, <2>1, <2>2, ApplyType DEF PromptMarker, TypeOK
<1>2. CASE SudoPrompt \/ HandleExit
  BY <1>2 DEF SudoPrompt, HandleExit, TypeOK, SessionType
<1> QED BY <1>1, <1>2 DEF Receive

\* A session that ends takes its shell along.
LEMMA Ended ==
  ASSUME TypeOK, Dispose \/ ShellExits
  PROVE  shell'.phase = "gone"
<1>1. shell' = [shell EXCEPT !.phase = "gone"]
  BY DEF Dispose, ShellExits
<1> QED BY <1>1, WithPhase DEF TypeOK, Phases

\* The session always lived that lives now.
LEMMA LivesOn ==
  ASSUME TypeOK, [Next]_vars, Live(session')
  PROVE  Live(session)
<1>1. ASSUME NEW key \in Keys \union Chars, Press(key) PROVE Live(session)
  BY <1>1 DEF Press
<1>2. ASSUME NEW path \in Paths, SetCwd(path) PROVE Live(session)
  BY <1>2 DEF SetCwd
<1>3. ASSUME NEW w \in writes, ApplyReturns(w) PROVE Live(session)
  <2>1. w.target \in Paths
    BY DEF TypeOK, WriteType
  <2>2. CASE w.stage = "failed"
    BY <1>3, <2>2, NotStagedType DEF ApplyReturns, TypeOK, Live, Unmoved
  <2>3. CASE w.stage # "failed"
    BY <1>3, <2>1, <2>3, StagedType DEF ApplyReturns, TypeOK
  <2> QED BY <2>2, <2>3
<1>4. CASE Receive
  <2>1. Head(output).cwd \in Dirs
    BY <1>4, SaidDir
  <2>2. CASE PromptMarker(Head(output).cwd)
    BY <2>1, <2>2, PromptType DEF PromptMarker, TypeOK
  <2>3. CASE SudoPrompt
    BY <2>3 DEF SudoPrompt, TypeOK, SessionType, Live
  <2>4. CASE HandleExit
    BY <2>4 DEF HandleExit, TypeOK, SessionType, Live
  <2> QED BY <1>4, <2>2, <2>3, <2>4 DEF Receive
<1>5. CASE Dispose
  BY <1>5 DEF Dispose, TypeOK, SessionType, Live
<1>6. CASE UNCHANGED session
  BY <1>6
<1> QED
  BY <1>1, <1>2, <1>3, <1>4, <1>5, <1>6
  DEF Next, vars, WriteOpens, WriteLands, WriteFails, ReadKey, ProgramReads, CommandEnds,
      AskPassword, HookReads, HookPrompts, Prompts, ShellExits

\* Every step keeps the last request heard of or under way.
LEMMA NextKeepsHeeded ==
  ASSUME TypeOK, ReadInv, Failures, Steady, Heeded, [Next]_vars, Steady'
  PROVE  Heeded'
<1>1. ASSUME NEW key \in Keys \union Chars, Press(key) PROVE Heeded'
  BY <1>1, TrackInputType, HeededKept DEF Press, Pressed, TypeOK, Unmoved
<1>2. ASSUME NEW path \in Paths, SetCwd(path) PROVE Heeded'
  <2>1. session'.pending = path \/ \E w \in writes' : w.stage = "asked"
    BY <1>2, SetCwdHeeded
  <2>2. path # None
    BY PathAssumption
  <2> QED BY <2>1, <2>2 DEF Heeded, Underway
<1>15. ASSUME NEW w \in writes, WriteOpens(w) PROVE Heeded'
  <2>1. file' # None
    BY <1>15, OpenedType, PathAssumption DEF WriteOpens, FileType
  <2> QED BY <2>1 DEF Heeded, Underway
<1>3. ASSUME NEW w \in writes, WriteLands(w) PROVE Heeded'
  <2>1. file # None => file' # None
    BY <1>3, WrittenType
  <2>2. \A v \in writes : v.stage = "asked" => v \in writes'
    BY <1>3 DEF WriteLands, Stage
  <2> QED BY <1>3, <2>1, <2>2, HeededKept DEF WriteLands
<1>4. ASSUME NEW w \in writes, WriteFails(w) PROVE FALSE
  <2>1. budget.faults \in Nat /\ budget.faults <= MaxWriteFaults /\ budget.faults > 0
    BY <1>4 DEF WriteFails, TypeOK, BudgetType, Failures, Steady
  <2>2. budget'.faults = budget.faults - 1
    BY <1>4, <2>1 DEF WriteFails, TypeOK, BudgetType
  <2> QED BY <2>1, <2>2, LimitAssumption DEF AllStaged, Steady
<1>5. ASSUME NEW w \in writes, ApplyReturns(w) PROVE Heeded'
  <2>1. w.target \in Paths /\ w.stage # "failed"
    BY DEF TypeOK, WriteType, Failures, Steady
  <2>2. session'.pending \in {session.pending, w.target}
    BY <1>5, <2>1, StagedType DEF ApplyReturns, TypeOK
  <2>3. session.pending # None => session'.pending # None
    BY <2>1, <2>2, PathAssumption
  <2> QED BY <1>5, <2>3, HeededKept DEF ApplyReturns
<1>6. CASE Receive
  BY <1>6, ReceiveHeeds, HeededKept DEF Receive
<1>7. ~Dispose /\ ~ShellExits
  BY Ended DEF Steady
<1>8. ASSUME UNCHANGED <<session, writes, heard, file>>, shell.read # None => shell'.read # None
      PROVE  Heeded'
  BY <1>8, HeededKept
<1>9. CASE ReadKey
  <2>1. Head(input) \in Pressed \union {"sync"}
    BY <1>9 DEF ReadKey, TypeOK
  <2>2. shell'.read = shell.read
    BY <1>9, <2>1, EditType DEF ReadKey, TypeOK
  <2> QED BY <1>8, <1>9, <2>2 DEF ReadKey
<1>10. CASE ProgramReads
  <2>1. shell'.read = shell.read
    BY <1>10, WithPhase DEF ProgramReads, TypeOK, Phases
  <2> QED BY <1>8, <1>10, <2>1 DEF ProgramReads
<1>16. CASE CommandEnds
  <2>1. shell'.read = shell.read
    BY <1>16, CommandEndsType
  <2> QED BY <1>8, <1>16, <2>1 DEF CommandEnds
<1>11. CASE AskPassword \/ Prompts
  <2>1. PICK phase \in {"sudo", "prompt"} : shell' = [shell EXCEPT !.phase = phase]
    BY <1>11 DEF AskPassword, Prompts
  <2>2. shell'.read = shell.read
    BY <2>1, WithPhase DEF TypeOK, Phases
  <2> QED BY <1>8, <1>11, <2>2 DEF AskPassword, Prompts
<1>12. CASE HookReads
  <2>1. file.text \in Paths \union {Unusable}
    BY <1>12 DEF HookReads, TypeOK, FileType
  <2>2. shell'.read = file.text
    BY <1>12 DEF HookReads, TypeOK, ShellType
  <2> QED BY <1>8, <1>12, <2>1, <2>2, PathAssumption DEF HookReads
<1>13. CASE HookPrompts
  <2>1. heard' # "no"
    BY <1>13 DEF HookPrompts
  <2> QED BY <2>1 DEF Heeded
<1>14. CASE UNCHANGED vars
  BY <1>8, <1>14 DEF vars
<1> QED
  BY <1>1, <1>2, <1>3, <1>4, <1>5, <1>6, <1>7, <1>9, <1>10, <1>11, <1>12, <1>13, <1>14, <1>15,
     <1>16
  DEF Next

\* Every step keeps the sync on its way to the shell while a write waits for it.
LEMMA NextKeepsReturns ==
  ASSUME TypeOK, TypeOK', ReadInv, Unmarked, Failures, Steady, ReturnComes, [Next]_vars, Steady'
  PROVE  ReturnComes'
<1>1. ASSUME NEW key \in Keys \union Chars, Press(key) PROVE ReturnComes'
  <2>1. Returns(input) => Returns(input')
    BY <1>1, ReturnsAppend DEF Press, Pressed, TypeOK
  <2> QED BY <1>1, <2>1, TrackInputType, ReturnKept DEF Press, Pressed, TypeOK, Unmoved
<1>2. ASSUME NEW path \in Paths, SetCwd(path) PROVE ReturnComes'
  <2>1. session'.pending = path \/ \E w \in writes' : w.stage = "asked"
    BY <1>2, SetCwdHeeded
  <2> QED BY <2>1, PathAssumption DEF ReturnComes, Pushed
<1>3. ASSUME NEW w \in writes, WriteOpens(w) \/ WriteLands(w) \/ WriteFails(w) PROVE ReturnComes'
  <2>1. writes' # {}
    BY <1>3, StageType DEF WriteOpens, WriteLands, WriteFails, TypeOK
  <2> QED BY <2>1 DEF ReturnComes, Pushed
<1>4. ASSUME NEW w \in writes, ApplyReturns(w) PROVE ReturnComes'
  <2> DEFINE after == Staged(session, w.target)
  <2>1. w.target \in Paths /\ w.stage # "failed" /\ Live(session)
    BY DEF TypeOK, WriteType, Failures, Steady
  <2>2. session' = after.session /\ input' = input \o after.key
    BY <1>4, <2>1 DEF ApplyReturns
  <2>3. after.session.pending = w.target \/ after.key = <<"sync">>
    BY <2>1, StagedType DEF TypeOK
  <2> HIDE DEF after
  <2>4. CASE after.key = <<"sync">>
    <3>1. input' = Append(input, "sync")
      BY <2>2, <2>4 DEF TypeOK
    <3> QED BY <3>1, ReturnsAppend DEF TypeOK, ReturnComes, Pushed
  <2>5. CASE after.session.pending = w.target
    BY <2>1, <2>2, <2>5, PathAssumption DEF ReturnComes, Pushed
  <2> QED BY <2>3, <2>4, <2>5
<1>5. CASE Receive
  BY <1>5, ReceiveHeeds, ReturnKept DEF Receive
<1>6. ~Dispose /\ ~ShellExits
  BY Ended DEF Steady
<1>7. CASE ReadKey
  <2>1. Head(input) \in Pressed \union {"sync"}
    BY <1>7 DEF ReadKey, TypeOK
  <2>2. /\ shell.phase = "prompt"
        /\ shell'.phase = "prompt" => Head(input) # "sync"
    BY <1>7, <2>1, EditType DEF ReadKey, TypeOK
  <2>3. Head(input) # "sync" /\ Returns(input) => Returns(input')
    BY <1>7, ReturnsTail DEF ReadKey, TypeOK
  <2> QED BY <1>7, <2>2, <2>3 DEF ReadKey, ReturnComes, Pushed
<1>8. CASE ProgramReads
  <2>1. PICK next \in {"hook", "running", "sudo"} : shell' = [shell EXCEPT !.phase = next]
    BY <1>8 DEF ProgramReads
  <2>2. shell'.phase # "prompt"
    BY <2>1, WithPhase DEF TypeOK, Phases
  <2> QED BY <2>2 DEF ReturnComes
<1>9. CASE CommandEnds \/ AskPassword
  <2>1. shell'.phase # "prompt"
    <3>1. CASE AskPassword
      BY <3>1, WithPhase DEF AskPassword, TypeOK, Phases
    <3>2. CASE CommandEnds
      BY <3>2, CommandEndsType
    <3> QED BY <1>9, <3>1, <3>2
  <2> QED BY <2>1 DEF ReturnComes
<1>10. CASE HookReads
  BY <1>10 DEF HookReads, TypeOK, ShellType, ReturnComes
<1>11. CASE HookPrompts
  BY <1>11 DEF HookPrompts, ReturnComes
<1>12. CASE Prompts
  <2>1. file = None
    BY <1>12 DEF Prompts, Unmarked
  <2> QED BY <1>12, <2>1 DEF Prompts, ReturnComes
<1>13. CASE UNCHANGED vars
  BY <1>13 DEF vars, ReturnComes, Pushed
<1> QED
  BY <1>1, <1>2, <1>3, <1>4, <1>5, <1>6, <1>7, <1>8, <1>9, <1>10, <1>11, <1>12, <1>13 DEF Next

FollowsInv ==
  /\ Unmarked /\ Failures
  /\ Steady => Heeded /\ ReturnComes

\* Every step keeps the request followed.
LEMMA NextKeepsFollows == TypeOK /\ ReadInv /\ TypeOK' /\ FollowsInv /\ [Next]_vars => FollowsInv'
<1> SUFFICES ASSUME TypeOK, ReadInv, TypeOK', FollowsInv, [Next]_vars PROVE FollowsInv'
  OBVIOUS
<1>1. Unmarked' /\ Failures'
  BY NextKeepsUnmarked, NextKeepsFailures DEF FollowsInv
<1>2. Steady' => Steady
  BY FaultsFall, LivesOn DEF Steady, FollowsInv
<1>3. Steady' => Heeded' /\ ReturnComes'
  BY <1>2, NextKeepsHeeded, NextKeepsReturns DEF FollowsInv
<1> QED BY <1>1, <1>3 DEF FollowsInv

\* At rest, with no sync waiting, the hook of a console that was asked to follow has tried a
\* directory asked for since the last request, or met its file half written, in whatever
\* order requests, keys, writes and prompts came.
THEOREM Followed == Spec => []Follows
<1>1. Init => FollowsInv
  <2> SUFFICES ASSUME Init PROVE FollowsInv
    OBVIOUS
  <2>1. session.pending = None
    BY DEF Init, Started
  <2>2. Unmarked
    BY <2>1 DEF Init, Unmarked
  <2>3. Failures
    BY LimitAssumption DEF Init, Failures
  <2>4. Heeded /\ ReturnComes
    BY DEF Init, Heeded, ReturnComes
  <2> QED BY <2>2, <2>3, <2>4 DEF FollowsInv
<1>2. TypeOK /\ ReadInv /\ FollowsInv => Follows
  <2> SUFFICES ASSUME TypeOK, ReadInv, FollowsInv, Idle, session.pending = None, heard = "no", AllStaged
               PROVE  FALSE
    BY DEF Follows
  <2>1. Underway /\ (file # None => Pushed)
    BY DEF FollowsInv, Steady, Idle, Heeded, ReturnComes
  <2>2. ~Pushed
    BY DEF Pushed, Idle, Returns
  <2>3. shell.read = None
    BY DEF ReadInv, Idle
  <2> QED BY <2>1, <2>2, <2>3 DEF Underway, Idle
<1>3. TypeOK /\ ReadInv /\ TypeOK' /\ FollowsInv /\ [Next]_vars => FollowsInv'
  BY NextKeepsFollows
<1> QED BY <1>1, <1>2, <1>3, TypeCorrect, PTL DEF Spec

-----------------------------------------------------------------------------
(* The Return a sync writes *)

\* A bound on the length of the shell's line before each of the keys on their way, and
\* after the last one, until a line is recalled: the Return of a sync meets an empty line,
\* and what the session counts as typed is never shorter than what the shell will have.
Bounds(lens) ==
  /\ lens \in [0..Len(input) -> Nat]
  /\ shell.recalled \/ Len(shell.line) <= lens[0]
  /\ lens[Len(input)] <= Len(session.typed)
  /\ \A i \in 1..Len(input) :
       /\ input[i] = "sync" => lens[i - 1] = 0
       /\ input[i] = "backspace" => lens[i] >= lens[i - 1] - 1
       /\ input[i] \in Chars => lens[i] >= lens[i - 1] + 1
ReturnInv ==
  /\ shell.phase \notin {"prompt", "gone"} => shell.line = <<>> /\ ~shell.recalled
  /\ shell.phase # "gone" => \E lens : Bounds(lens)

\* A key goes out: what the session counts follows it.
LEMMA BoundsAppend ==
  ASSUME TypeOK, TypeOK', NEW lens, Bounds(lens), shell' = shell,
         NEW key \in Pressed \union {"sync"}, input' = Append(input, key),
         key = "sync" => session.typed = <<>>,
         key = "backspace" => Len(session'.typed) >= Len(session.typed) - 1,
         key \in Chars => Len(session'.typed) >= Len(session.typed) + 1
  PROVE  \E longer : Bounds(longer)'
<1> DEFINE n == Len(input)
           last == Len(session'.typed)
<1>1. /\ n \in Nat /\ Len(input') = n + 1 /\ input'[n + 1] = key
      /\ \A i \in 1..n : input'[i] = input[i]
  BY DEF TypeOK
<1>2. last \in Nat /\ Len(session.typed) \in Nat /\ (key = "sync" => Len(session.typed) = 0)
  BY DEF TypeOK, SessionType
<1>3. /\ lens \in [0..n -> Nat] /\ lens[n] <= Len(session.typed)
      /\ shell.recalled \/ Len(shell.line) <= lens[0]
      /\ \A i \in 1..n : /\ input[i] = "sync" => lens[i - 1] = 0
                         /\ input[i] = "backspace" => lens[i] >= lens[i - 1] - 1
                         /\ input[i] \in Chars => lens[i] >= lens[i - 1] + 1
  BY DEF Bounds
<1> HIDE DEF n, last
<1>4. \A i \in 0..n : i \in 0..(n + 1) /\ i # n + 1
  BY <1>1
<1>5. PICK longer : /\ longer \in [0..(n + 1) -> Nat] /\ longer[n + 1] = last
                    /\ \A i \in 0..n : longer[i] = lens[i]
  <2> DEFINE l == [i \in 0..(n + 1) |-> IF i = n + 1 THEN last ELSE lens[i]]
  <2>1. l \in [0..(n + 1) -> Nat] /\ l[n + 1] = last /\ \A i \in 0..n : l[i] = lens[i]
    BY <1>1, <1>2, <1>3, <1>4
  <2> QED BY <2>1
<1>6. ASSUME NEW i \in 1..(n + 1)
      PROVE  /\ input'[i] = "sync" => longer[i - 1] = 0
             /\ input'[i] = "backspace" => longer[i] >= longer[i - 1] - 1
             /\ input'[i] \in Chars => longer[i] >= longer[i - 1] + 1
  <2>1. CASE i \in 1..n
    <3>1. i \in 0..n /\ i - 1 \in 0..n
      BY <1>1, <2>1
    <3>2. longer[i] = lens[i] /\ longer[i - 1] = lens[i - 1] /\ input'[i] = input[i]
      BY <1>1, <1>5, <2>1, <3>1
    <3> QED BY <1>3, <2>1, <3>2
  <2>2. CASE i = n + 1
    <3>1. longer[i - 1] = lens[n] /\ longer[i] = last /\ input'[i] = key /\ lens[n] \in Nat
      BY <1>1, <1>3, <1>5, <2>2
    <3>2. key = "sync" => lens[n] = 0
      BY <1>2, <1>3, <3>1
    <3>3. key = "backspace" => last >= lens[n] - 1
      BY <1>2, <1>3, <3>1 DEF last
    <3>4. key \in Chars => last >= lens[n] + 1
      BY <1>2, <1>3, <3>1 DEF last
    <3> QED BY <3>1, <3>2, <3>3, <3>4
  <2> QED BY <1>1, <2>1, <2>2
<1>7. shell'.recalled \/ Len(shell'.line) <= longer[0]
  BY <1>1, <1>3, <1>5
<1>8. longer \in [0..Len(input') -> Nat] /\ longer[Len(input')] <= Len(session'.typed)
  BY <1>1, <1>2, <1>5 DEF last
<1>9. \A i \in 1..Len(input') :
        /\ input'[i] = "sync" => longer[i - 1] = 0
        /\ input'[i] = "backspace" => longer[i] >= longer[i - 1] - 1
        /\ input'[i] \in Chars => longer[i] >= longer[i - 1] + 1
  BY <1>1, <1>6
<1>10. Bounds(longer)'
  BY <1>7, <1>8, <1>9, Zenon DEF Bounds
<1> QED BY <1>10

\* A key is taken: the bounds move up.
LEMMA BoundsTail ==
  ASSUME TypeOK, NEW lens, Bounds(lens), session' = session, input # <<>>, input' = Tail(input),
         shell'.recalled \/ Len(shell'.line) <= lens[1]
  PROVE  \E shorter : Bounds(shorter)'
<1> DEFINE n == Len(input)
<1>1. /\ n \in Nat /\ n > 0 /\ Len(input') = n - 1
      /\ \A i \in 1..(n - 1) : input'[i] = input[i + 1]
  BY HeadTailProperties DEF TypeOK
<1>2. lens \in [0..n -> Nat] /\ lens[n] <= Len(session.typed)
      /\ \A i \in 1..n : /\ input[i] = "sync" => lens[i - 1] = 0
                         /\ input[i] = "backspace" => lens[i] >= lens[i - 1] - 1
                         /\ input[i] \in Chars => lens[i] >= lens[i - 1] + 1
  BY DEF Bounds
<1> HIDE DEF n
<1>3. \A i \in 0..(n - 1) : i + 1 \in 0..n
  BY <1>1
<1>4. PICK shorter : shorter \in [0..(n - 1) -> Nat] /\ \A i \in 0..(n - 1) : shorter[i] = lens[i + 1]
  <2> DEFINE l == [i \in 0..(n - 1) |-> lens[i + 1]]
  <2>1. l \in [0..(n - 1) -> Nat] /\ \A i \in 0..(n - 1) : l[i] = lens[i + 1]
    BY <1>2, <1>3
  <2> QED BY <2>1
<1>5. 0 \in 0..(n - 1) /\ n - 1 \in 0..(n - 1) /\ 0 + 1 = 1 /\ (n - 1) + 1 = n
  BY <1>1
<1>6. shorter[0] = lens[1] /\ shorter[n - 1] = lens[n]
  BY <1>4, <1>5
<1>7. ASSUME NEW i \in 1..(n - 1)
      PROVE  /\ input'[i] = "sync" => shorter[i - 1] = 0
             /\ input'[i] = "backspace" => shorter[i] >= shorter[i - 1] - 1
             /\ input'[i] \in Chars => shorter[i] >= shorter[i - 1] + 1
  <2>1. i + 1 \in 1..n /\ i \in 0..(n - 1) /\ i - 1 \in 0..(n - 1) /\ (i - 1) + 1 = i
        /\ (i + 1) - 1 = i
    BY <1>1
  <2>2. shorter[i] = lens[i + 1] /\ shorter[i - 1] = lens[i] /\ input'[i] = input[i + 1]
    BY <1>1, <1>4, <2>1
  <2>3. /\ input[i + 1] = "sync" => lens[i] = 0
        /\ input[i + 1] = "backspace" => lens[i + 1] >= lens[i] - 1
        /\ input[i + 1] \in Chars => lens[i + 1] >= lens[i] + 1
    BY <1>2, <2>1
  <2> QED BY <2>2, <2>3
<1>8. /\ shorter \in [0..Len(input') -> Nat]
      /\ shorter[Len(input')] <= Len(session'.typed)
      /\ shell'.recalled \/ Len(shell'.line) <= shorter[0]
  BY <1>1, <1>2, <1>4, <1>6
<1>9. \A i \in 1..Len(input') :
        /\ input'[i] = "sync" => shorter[i - 1] = 0
        /\ input'[i] = "backspace" => shorter[i] >= shorter[i - 1] - 1
        /\ input'[i] \in Chars => shorter[i] >= shorter[i - 1] + 1
  BY <1>1, <1>7
<1>10. Bounds(shorter)'
  BY <1>8, <1>9, Zenon DEF Bounds
<1> QED BY <1>10

\* Bounds on line and input are kept where both are.
LEMMA BoundsKept ==
  ASSUME NEW lens, Bounds(lens), input' = input, shell'.line = shell.line,
         shell'.recalled = shell.recalled,
         session'.typed = session.typed
  PROVE  Bounds(lens)'
  BY DEF Bounds

\* Every step keeps the line the shell holds, unless it was recalled, within what the session
\* counts.
LEMMA NextKeepsReturn ==
  ASSUME TypeOK, TypeOK', ReturnInv, [Next]_vars
  PROVE  ReturnInv'
<1>1. CASE shell'.phase = "gone"
  BY <1>1 DEF ReturnInv
<1> SUFFICES ASSUME shell'.phase # "gone" PROVE ReturnInv'
  BY <1>1
<1>2. shell.phase # "gone"
  <2>1. CASE UNCHANGED shell
    BY <2>1
  <2>2. ShellMoves \/ CommandEnds \/ AskPassword \/ ShellExits => shell.phase # "gone"
    BY DEF ShellMoves, ReadKey, ProgramReads, CommandEnds, AskPassword, HookReads, HookPrompts,
           Prompts, ShellExits
  <2>3. ~Dispose
    BY Ended
  <2> QED
    BY <2>1, <2>2, <2>3
    DEF Next, vars, Press, SetCwd, WriteOpens, WriteLands, WriteFails, ApplyReturns, Receive,
        ShellMoves
<1>3. PICK lens : Bounds(lens)
  BY <1>2 DEF ReturnInv
<1>4. ASSUME input' = input, shell'.line = shell.line, shell'.recalled = shell.recalled,
             session'.typed = session.typed,
             shell'.phase \notin {"prompt", "gone"} => shell.line = <<>> /\ ~shell.recalled
      PROVE  ReturnInv'
  BY <1>3, <1>4, BoundsKept DEF ReturnInv
<1>5. ASSUME NEW key \in Keys \union Chars, Press(key) PROVE ReturnInv'
  <2>1. key \in Pressed /\ key # "sync"
    BY KeyAssumption DEF Pressed, SpecialKeys
  <2>2. /\ key \in Chars => Len(session'.typed) >= Len(session.typed) + 1
        /\ key = "backspace" => Len(session'.typed) >= Len(session.typed) - 1
    <3>1. session.typed \in Seq(Chars) /\ session \in SessionType
      BY DEF TypeOK, SessionType
    <3>2. /\ key \in Chars => Len(session'.typed) = Len(session.typed) + 1
          /\ key = "backspace" => session'.typed = Erased(session.typed)
      BY <1>5, <2>1, <3>1, TrackInputType DEF Press
    <3>3. Len(session.typed) \in Nat /\ (session.typed = <<>> => Len(session.typed) = 0)
          /\ Len(Erased(session.typed)) = IF session.typed = <<>> THEN 0 ELSE Len(session.typed) - 1
      BY <3>1, ErasedType
    <3> QED BY <3>2, <3>3
  <2> QED BY <1>3, <1>5, <2>1, <2>2, BoundsAppend DEF Press, ReturnInv
<1>6. ASSUME NEW path \in Paths, SetCwd(path) PROVE ReturnInv'
  <2>1. session'.typed = session.typed
    BY <1>6 DEF SetCwd, TypeOK, SessionType
  <2> QED BY <1>4, <1>6, <2>1 DEF SetCwd, ReturnInv
<1>7. ASSUME NEW w \in writes, WriteOpens(w) \/ WriteLands(w) \/ WriteFails(w) PROVE ReturnInv'
  BY <1>4, <1>7 DEF WriteOpens, WriteLands, WriteFails, ReturnInv
<1>8. ASSUME NEW w \in writes, ApplyReturns(w) PROVE ReturnInv'
  <2>1. w.target \in Paths
    BY DEF TypeOK, WriteType
  <2>2. CASE w.stage = "failed"
    <3>1. session'.typed = session.typed /\ input' = input
      BY <1>8, <2>2, NotStagedType DEF ApplyReturns, TypeOK
    <3> QED BY <1>4, <1>8, <3>1 DEF ApplyReturns, ReturnInv
  <2>3. CASE w.stage # "failed"
    <3> DEFINE after == Staged(session, w.target)
    <3>1. session' = after.session /\ input' = input \o after.key
      BY <1>8, <2>3 DEF ApplyReturns
    <3>2. /\ after.session.typed = session.typed
          /\ after.key = <<>> \/ (after.key = <<"sync">> /\ session.typed = <<>>)
      BY <2>1, StagedType DEF TypeOK
    <3> HIDE DEF after
    <3>3. CASE after.key = <<>>
      <4>1. input' = input
        BY <3>1, <3>3 DEF TypeOK
      <4> QED BY <1>4, <1>8, <3>1, <3>2, <4>1 DEF ApplyReturns, ReturnInv
    <3>4. CASE after.key = <<"sync">>
      <4>1. input' = Append(input, "sync")
        BY <3>1, <3>4 DEF TypeOK
      <4>2. session.typed = <<>>
        BY <3>2, <3>4
      <4>3. "sync" \notin Chars
        BY CharsApart
      <4>4. \E longer : Bounds(longer)'
        BY <1>3, <1>8, <4>1, <4>2, <4>3, BoundsAppend DEF ApplyReturns
      <4> QED BY <1>8, <4>4 DEF ApplyReturns, ReturnInv
    <3> QED BY <3>2, <3>3, <3>4
  <2> QED BY <2>2, <2>3
<1>9. CASE Receive
  <2>1. session'.typed = session.typed
    <3>1. CASE PromptMarker(Head(output).cwd)
      BY <1>9, <3>1, SaidDir, PromptType DEF PromptMarker, TypeOK
    <3>2. CASE SudoPrompt \/ HandleExit
      BY <3>2 DEF SudoPrompt, HandleExit, TypeOK, SessionType
    <3> QED BY <1>9, <3>1, <3>2 DEF Receive
  <2> QED BY <1>4, <1>9, <2>1 DEF Receive, ReturnInv
<1>10. ~Dispose /\ ~ShellExits
  BY Ended
<1>11. CASE ReadKey
  <2> DEFINE key == Head(input)
  <2>1. /\ key \in Pressed \union {"sync"} /\ key = input[1] /\ 1 \in 1..Len(input)
        /\ input # <<>> /\ input' = Tail(input) /\ session' = session
        /\ shell' = Edit(shell, key) /\ shell.phase = "prompt"
    BY <1>11 DEF ReadKey, TypeOK
  <2> HIDE DEF key
  <2>2. /\ shell'.phase # "prompt" => shell'.line = <<>> /\ ~shell'.recalled
        /\ key \in {"enter", "sync"} => shell'.phase # "prompt"
        /\ key \in Chars => Len(shell'.line) = Len(shell.line) + 1 /\ shell'.recalled = shell.recalled
        /\ key = "backspace" => shell'.line = Erased(shell.line) /\ shell'.recalled = shell.recalled
        /\ key = "recall" => shell'.recalled
        /\ key = "interrupt" => shell'.phase = "hook"
    BY <2>1, EditType DEF TypeOK
  <2>3. lens[0] \in Nat /\ lens[1] \in Nat /\ (shell.recalled \/ Len(shell.line) <= lens[0])
        /\ (key = "backspace" => lens[1] >= lens[0] - 1)
        /\ (key \in Chars => lens[1] >= lens[0] + 1)
    <3>1. Len(input) \in Nat /\ 0 \in 0..Len(input) /\ 1 \in 0..Len(input) /\ 1 - 1 = 0
      BY <2>1 DEF TypeOK
    <3>2. lens[0] \in Nat /\ lens[1] \in Nat
      BY <1>3, <3>1 DEF Bounds
    <3> QED BY <1>3, <2>1, <3>1, <3>2 DEF Bounds
  <2>4. shell'.recalled \/ Len(shell'.line) <= lens[1]
    <3>1. shell.line \in Seq(Chars \union {"x"}) /\ Len(shell.line) \in Nat
      BY DEF TypeOK, ShellType
    <3>2. CASE key \in Chars
      BY <2>2, <2>3, <3>1, <3>2
    <3>3. CASE key = "backspace"
      <4>1. Len(Erased(shell.line)) = IF shell.line = <<>> THEN 0 ELSE Len(shell.line) - 1
        BY <3>1, ErasedType
      <4> QED BY <2>2, <2>3, <3>1, <3>3, <4>1
    <3>4. CASE key \in {"enter", "sync", "interrupt"}
      <4>1. Len(shell'.line) = 0
        BY <2>2, <3>4
      <4> QED BY <2>3, <4>1
    <3>5. CASE key = "recall"
      BY <2>2, <3>5
    <3> QED BY <2>1, <3>2, <3>3, <3>4, <3>5, KeyAssumption DEF Pressed, SpecialKeys
  <2>5. \E shorter : Bounds(shorter)'
    BY <1>3, <2>1, <2>4, BoundsTail
  <2> QED BY <2>2, <2>5 DEF ReturnInv
<1>12. CASE ProgramReads
  <2>1. PICK next \in {"hook", "running", "sudo"} : shell' = [shell EXCEPT !.phase = next]
    BY <1>12 DEF ProgramReads
  <2>2. shell'.line = <<>> /\ ~shell'.recalled
    <3>1. shell.line = <<>> /\ ~shell.recalled
      BY <1>12 DEF ProgramReads, ReturnInv
    <3> QED BY <2>1, <3>1, WithPhase DEF TypeOK, Phases
  <2>3. Len(shell'.line) <= lens[1]
    <3>1. 1 \in 0..Len(input)
      BY <1>12 DEF ProgramReads, TypeOK
    <3>2. lens[1] \in Nat
      BY <1>3, <3>1 DEF Bounds
    <3> QED BY <2>2, <3>2
  <2>4. \E shorter : Bounds(shorter)'
    BY <1>3, <1>12, <2>3, BoundsTail DEF ProgramReads
  <2> QED BY <2>2, <2>4 DEF ReturnInv
<1>13. CASE CommandEnds \/ AskPassword \/ Prompts
  <2>2. shell'.line = shell.line /\ shell'.recalled = shell.recalled
    <3>1. CASE CommandEnds
      BY <3>1, CommandEndsType
    <3>2. CASE AskPassword \/ Prompts
      <4>1. PICK phase \in {"sudo", "prompt"} : shell' = [shell EXCEPT !.phase = phase]
        BY <3>2 DEF AskPassword, Prompts
      <4> QED BY <4>1, WithPhase DEF TypeOK, Phases
    <3> QED BY <1>13, <3>1, <3>2
  <2>3. shell.line = <<>> /\ ~shell.recalled
    BY <1>13 DEF CommandEnds, AskPassword, Prompts, ReturnInv
  <2> QED BY <1>4, <1>13, <2>2, <2>3 DEF CommandEnds, AskPassword, Prompts
<1>14. CASE HookReads \/ HookPrompts
  <2>1. shell'.line = shell.line /\ shell'.recalled = shell.recalled
    BY <1>14 DEF HookReads, HookPrompts, TypeOK, ShellType
  <2>2. shell.line = <<>> /\ ~shell.recalled
    BY <1>14 DEF HookReads, HookPrompts, ReturnInv
  <2> QED BY <1>4, <1>14, <2>1, <2>2 DEF HookReads, HookPrompts
<1>15. CASE UNCHANGED vars
  BY <1>4, <1>15 DEF vars, ReturnInv
<1> QED
  BY <1>5, <1>6, <1>7, <1>8, <1>9, <1>10, <1>11, <1>12, <1>13, <1>14, <1>15 DEF Next

\* Nothing is typed at the start.
LEMMA InitReturns == Init => ReturnInv
<1> SUFFICES ASSUME Init PROVE ReturnInv
  OBVIOUS
<1> DEFINE lens == [i \in 0..0 |-> 0]
<1>1. /\ Len(input) = 0 /\ Len(shell.line) = 0 /\ Len(session.typed) = 0
      /\ shell.line = <<>> /\ ~shell.recalled
  BY DEF Init, Started
<1>2. lens \in [0..0 -> Nat] /\ lens[0] = 0
  OBVIOUS
<1> HIDE DEF lens
<1>3. Bounds(lens)
  BY <1>1, <1>2 DEF Bounds
<1> QED BY <1>1, <1>3 DEF ReturnInv

\* A program starts on the Return the user pressed, never on the one a sync writes, whatever
\* was typed, run or deferred meanwhile, but on a line the user had recalled from the shell's
\* history, with keys the session does not track.
THEOREM RunsOnly == Spec => RunsOnlyWhatWasSubmitted
<1>1. TypeOK /\ TypeOK' /\ ReturnInv /\ [Next]_vars => ReturnInv'
  BY NextKeepsReturn
<1>2. TypeOK /\ ReturnInv /\ [Next]_vars =>
        [shell.phase = "prompt" /\ shell'.phase = "running" =>
           Consumes("enter") \/ shell.recalled]_vars
  <2> SUFFICES ASSUME TypeOK, ReturnInv, [Next]_vars, shell.phase = "prompt",
                      shell'.phase = "running", ~shell.recalled
               PROVE  Consumes("enter")
    OBVIOUS
  <2>1. ReadKey
    <3>1. ~UNCHANGED shell
      OBVIOUS
    <3>2. ~Dispose /\ ~ShellExits
      BY Ended
    <3>3. ProgramReads \/ CommandEnds \/ AskPassword \/ HookReads \/ HookPrompts \/ Prompts
            => shell.phase # "prompt"
      BY DEF ProgramReads, CommandEnds, AskPassword, HookReads, HookPrompts, Prompts
    <3> QED
      BY <3>1, <3>2, <3>3
      DEF Next, vars, Press, SetCwd, WriteOpens, WriteLands, WriteFails, ApplyReturns, Receive
  <2>2. Head(input) \in Pressed \union {"sync"} /\ Head(input) = input[1] /\ 1 \in 1..Len(input)
    BY <2>1 DEF ReadKey, TypeOK
  <2>3. Head(input) \in {"enter", "sync"} /\ ~Blank(shell.line)
    BY <2>1, <2>2, EditType DEF ReadKey, TypeOK
  <2>4. ASSUME Head(input) = "sync" PROVE FALSE
    <3>1. PICK lens : Bounds(lens)
      BY DEF ReturnInv
    <3>2. lens[1 - 1] = 0 /\ Len(shell.line) <= lens[0] /\ 1 - 1 = 0
      BY <2>2, <2>4, <3>1 DEF Bounds
    <3>3. Len(shell.line) = 0
      BY <3>2 DEF TypeOK, ShellType
    <3> QED BY <2>3, <3>3 DEF Blank
  <2> QED BY <2>1, <2>3, <2>4 DEF Consumes, ReadKey
<1> QED BY <1>1, <1>2, InitReturns, TypeCorrect, PTL DEF Spec, RunsOnlyWhatWasSubmitted
=============================================================================
