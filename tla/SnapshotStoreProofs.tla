------------------------- MODULE SnapshotStoreProofs -------------------------
(***************************************************************************)
(* For every set of distros, every bound and every set of collectors: the  *)
(* store is well typed, the sections on screen were read from the selected *)
(* distro, at most one liveness probe is in flight, what is computed gets  *)
(* published, and a failure leaves what was read.                          *)
(*                                                                         *)
(* The actions compose store methods, so the proofs go method by method:   *)
(* each keeps StoreOK and says which of the fields ownership depends on    *)
(* (FrameKept) it leaves alone; then each operator on the memory keeps     *)
(* MemoryOK; an action is then a composition of operators that keep it.    *)
(***************************************************************************)
EXTENDS SnapshotStore, SequenceTheorems, TLAPS

\* The fields a method that only reports leaves alone.
FrameKept(old, new) ==
  /\ new.sections = old.sections /\ new.selected = old.selected
  /\ new.epoch = old.epoch /\ new.tier = old.tier

OwnsSections(st) ==
  st.sections # None => \A c \in InDistro : st.sections.data[c] \in {None, st.selected}

\* A distro and the sections object captured together: while that object is the
\* current one, the distro is the selected one.
Captures(st, d, e) ==
  e <= st.epoch /\ (e = st.epoch /\ st.selected # None => d = st.selected)

\* What every store method preserves: sections stay owned, tiers are left alone,
\* and a selection is replaced only together with its sections object.
KeepsOwner(old, new) ==
  /\ StoreOK(new)
  /\ OwnsSections(old) => OwnsSections(new)
  /\ new.tier = old.tier
  /\ \/ new.epoch = old.epoch /\ new.selected \in {old.selected, None}
     \/ new.epoch > old.epoch

Capturing == {"begun", "gate", "collect"}

\* The inductive strengthening of SectionsFromSelected: replies still to come
\* and tiers still to issue calls hold a captured pair.
Owned(m) ==
  /\ OwnsSections(m.st)
  /\ \A c \in m.calls : c.cmd \in InDistro => Captures(m.st, c.distro, c.epoch)
  /\ \A t \in Tiers :
       m.st.tier[t].pc \in Capturing =>
         Captures(m.st, m.st.tier[t].distro, m.st.tier[t].epoch)

MemoryType == [st : StoreType, calls : SUBSET CallType, probes : [Tiers -> MaybeDistro]]
MemoryOK(m) == m \in MemoryType /\ StoreOK(m.st) /\ Owned(m)

USE TrackedAssumption, DistroAssumption

-----------------------------------------------------------------------------
(* Methods that recompute, commit and emit *)

\* The warnings computed are warnings the snapshot may carry.
LEMMA ComputeWarningsType ==
  ASSUME NEW st \in StoreType
  PROVE  ComputeWarnings(st) \in WarningsType
<1> DEFINE n == Len(st.failures)
           failed == {st.failures[i] : i \in {j \in 1..n : j > n - MaxWarned}}
<1>1. st.failures \in Seq(Commands) /\ st.mcpError \in BOOLEAN
  BY DEF StoreType
<1>2. failed \subseteq Commands
  BY <1>1
<1>3. QED
  BY <1>1, <1>2 DEF ComputeWarnings, WarningsType, Selected

\* Recomputing the warnings keeps the store well formed and its sections alone.
LEMMA RecomputeOK ==
  ASSUME NEW st, StoreOK(st)
  PROVE  StoreOK(Recompute(st)) /\ FrameKept(st, Recompute(st))
<1>1. ComputeWarnings(st) \in WarningsType
  BY ComputeWarningsType DEF StoreOK
<1>2. QED
  BY <1>1 DEF Recompute, StoreType, StoreOK, FrameKept

\* So does committing a snapshot.
LEMMA CommitOK ==
  ASSUME NEW st, StoreOK(st)
  PROVE  StoreOK(Commit(st)) /\ FrameKept(st, Commit(st))
<1>1. Answering(st) \in {"yes", "no", "unknown"}
  BY DEF Answering
<1>2. Build(st) \in SnapshotType
  BY <1>1 DEF Build, SnapshotType, StoreType, StoreOK
<1>3. QED
  BY <1>2 DEF Commit, StoreType, StoreOK, FrameKept

\* So does publishing it.
LEMMA EmitOK ==
  ASSUME NEW st, StoreOK(st)
  PROVE  StoreOK(Emit(st)) /\ FrameKept(st, Emit(st))
<1>1. StoreOK(Commit(st)) /\ FrameKept(st, Commit(st))
  BY CommitOK
<1>2. st.disposed \in BOOLEAN
  BY DEF StoreType, StoreOK
<1>3. QED
  BY <1>1, <1>2 DEF Emit, StoreType, StoreOK, FrameKept

-----------------------------------------------------------------------------
(* The runner-failure list *)

\* Removing a command from the tracked failures shortens the list by one.
LEMMA WithoutType ==
  ASSUME NEW s \in Seq(Commands), NEW cmd
  PROVE  /\ Without(s, cmd) \in Seq(Commands)
         /\ Len(Without(s, cmd)) <= Len(s)
<1>1. CASE ~\E i \in 1..Len(s) : s[i] = cmd
  BY <1>1 DEF Without
<1>2. CASE \E i \in 1..Len(s) : s[i] = cmd
  <2> DEFINE i == CHOOSE j \in 1..Len(s) : s[j] = cmd
  <2>1. i \in 1..Len(s)
    BY <1>2
  <2>2. /\ SubSeq(s, 1, i - 1) \in Seq(Commands)
        /\ Len(SubSeq(s, 1, i - 1)) = i - 1
    <3>1. \A k \in 1..(i - 1) : s[k] \in Commands
      BY <2>1
    <3>2. 1 \in Int /\ i - 1 \in Int
      BY <2>1
    <3> HIDE DEF i
    <3>3. QED
      BY <2>1, <3>1, <3>2, SubSeqProperties
  <2>3. /\ SubSeq(s, i + 1, Len(s)) \in Seq(Commands)
        /\ Len(SubSeq(s, i + 1, Len(s))) = Len(s) - i
    <3>1. \A k \in (i + 1)..Len(s) : s[k] \in Commands
      BY <2>1
    <3>2. i + 1 \in Int /\ Len(s) \in Int
      BY <2>1
    <3> HIDE DEF i
    <3>3. QED
      BY <2>1, <3>1, <3>2, SubSeqProperties
  <2>4. Without(s, cmd) = SubSeq(s, 1, i - 1) \o SubSeq(s, i + 1, Len(s))
    BY <1>2 DEF Without, RemoveAt
  <2> DEFINE a == SubSeq(s, 1, i - 1)
             b == SubSeq(s, i + 1, Len(s))
  <2> HIDE DEF i
  <2>5. i \in Int /\ i >= 1 /\ Len(s) \in Nat
    BY <2>1
  <2>6. a \o b \in Seq(Commands) /\ Len(a \o b) = Len(a) + Len(b)
    <3> HIDE DEF a, b
    <3>1. a \in Seq(Commands) /\ b \in Seq(Commands)
      BY <2>2, <2>3 DEF a, b
    <3>2. QED
      BY <3>1, ConcatProperties
  <2>7. Len(a) = i - 1 /\ Len(b) = Len(s) - i /\ Without(s, cmd) = a \o b
    BY <2>2, <2>3, <2>4
  <2> HIDE DEF a, b
  <2>8. QED
    BY <2>5, <2>6, <2>7
<1>3. QED
  BY <1>1, <1>2

\* Tracking one more failed command keeps the list within its cap and the sections
\* alone, whether or not the command was tracked already.
LEMMA NoteRunnerFailureOK ==
  ASSUME NEW st, StoreOK(st), NEW cmd \in Commands
  PROVE  StoreOK(NoteRunnerFailure(st, cmd)) /\ FrameKept(st, NoteRunnerFailure(st, cmd))
<1> DEFINE s == Without(st.failures, cmd)
           all == Append(s, cmd)
           kept == IF Len(all) > MaxTracked THEN Tail(all) ELSE all
           noted == [st EXCEPT !.failures = kept]
<1>1. st.failures \in Seq(Commands) /\ Len(st.failures) <= MaxTracked
  BY DEF StoreType, StoreOK
<1>2. s \in Seq(Commands) /\ Len(s) <= MaxTracked
  BY <1>1, WithoutType
<1>3. all \in Seq(Commands) /\ Len(all) = Len(s) + 1 /\ all # <<>>
  BY <1>2
<1>4. kept \in Seq(Commands) /\ Len(kept) <= MaxTracked
  <2> HIDE DEF s, all
  <2>1. Tail(all) \in Seq(Commands) /\ Len(Tail(all)) = Len(all) - 1
    BY <1>3, HeadTailProperties
  <2>2. QED
    BY <1>2, <1>3, <2>1
<1>5. StoreOK(noted) /\ FrameKept(st, noted)
  <2> HIDE DEF kept
  <2>1. QED
    BY <1>4 DEF StoreType, StoreOK, FrameKept
<1> HIDE DEF noted
<1>6. StoreOK(Recompute(noted)) /\ FrameKept(noted, Recompute(noted))
  BY <1>5, RecomputeOK
<1>7. StoreOK(Commit(Recompute(noted))) /\ FrameKept(Recompute(noted), Commit(Recompute(noted)))
  BY <1>6, CommitOK
<1>8. NoteRunnerFailure(st, cmd) = Commit(Recompute(noted))
  BY DEF NoteRunnerFailure, noted
<1>9. QED
  BY <1>5, <1>6, <1>7, <1>8 DEF FrameKept

\* Dropping a command that worked again does the same.
LEMMA ClearRunnerFailureOK ==
  ASSUME NEW st, StoreOK(st), NEW cmd \in Commands
  PROVE  StoreOK(ClearRunnerFailure(st, cmd)) /\ FrameKept(st, ClearRunnerFailure(st, cmd))
<1> DEFINE cleared == [st EXCEPT !.failures = Without(st.failures, cmd)]
<1>1. st.failures \in Seq(Commands) /\ Len(st.failures) <= MaxTracked
  BY DEF StoreType, StoreOK
<1>2. Without(st.failures, cmd) \in Seq(Commands) /\ Len(Without(st.failures, cmd)) <= MaxTracked
  BY <1>1, WithoutType
<1>3. StoreOK(cleared) /\ FrameKept(st, cleared)
  BY <1>2 DEF StoreType, StoreOK, FrameKept
<1> HIDE DEF cleared
<1>4. StoreOK(Recompute(cleared)) /\ FrameKept(cleared, Recompute(cleared))
  BY <1>3, RecomputeOK
<1>5. ClearRunnerFailure(st, cmd) \in {Recompute(cleared), st}
  BY DEF ClearRunnerFailure, cleared
<1>6. QED
  BY <1>3, <1>4, <1>5 DEF FrameKept

-----------------------------------------------------------------------------
(* Methods that change the selection or fill its sections *)

\* A method that leaves the framed fields alone keeps ownership.
LEMMA FrameKeepsOwner ==
  ASSUME NEW old, NEW new, StoreOK(new), FrameKept(old, new)
  PROVE  KeepsOwner(old, new)
BY DEF FrameKept, KeepsOwner, OwnsSections

\* Two methods that keep ownership keep it in sequence.
LEMMA KeepsOwnerTransitive ==
  ASSUME NEW a, NEW b, NEW c, StoreOK(a), KeepsOwner(a, b), KeepsOwner(b, c)
  PROVE  KeepsOwner(a, c)
<1>1. a.epoch \in Nat /\ b.epoch \in Nat /\ c.epoch \in Nat
  BY DEF KeepsOwner, StoreOK, StoreType
<1>2. QED
  BY <1>1 DEF KeepsOwner

\* Selecting a distro keeps ownership: its sections start empty, under a new epoch.
LEMMA SelectInternalOK ==
  ASSUME NEW st, StoreOK(st), NEW d \in Distros
  PROVE  KeepsOwner(st, SelectInternal(st, d))
<1>1. SectionsFor(st, d) \in SectionsType
  BY DEF SectionsFor, SectionsType, StoreOK, StoreType, MaybeDistro
<1>2. FreshProbe \in ProbeType
  BY ProbeAssumption DEF FreshProbe, ProbeType, MaybeDistro
<1>3. <<>> \in Seq(Commands) /\ Len(<<>>) <= MaxTracked
  OBVIOUS
<1>4. SectionsFor(st, d) # None
  BY <1>1, NullAssumption
<1>5. StoreOK(SelectInternal(st, d))
  <2> DEFINE sections == SectionsFor(st, d)
  <2>1. /\ st.epoch + 1 \in Nat /\ d \in MaybeDistro /\ d # None
        /\ sections \in SectionsType \union {None}
    BY <1>1 DEF StoreOK, StoreType, MaybeDistro
  <2> DEFINE probe == FreshProbe
             new == [st EXCEPT !.selected = d, !.sections = sections, !.epoch = st.epoch + 1,
                               !.failures = <<>>, !.probe = probe]
  <2>2. SelectInternal(st, d) = new
    BY DEF SelectInternal
  <2>3. sections # None /\ probe \in ProbeType
    BY <1>2, <1>4
  <2> HIDE DEF sections, probe
  <2>4. new \in StoreType
    BY <1>3, <2>1, <2>3 DEF StoreOK, StoreType
  <2>5. new.selected = d /\ new.sections = sections /\ new.failures = <<>>
    BY DEF StoreOK, StoreType
  <2> HIDE DEF new
  <2>6. QED
    BY <1>3, <2>1, <2>2, <2>3, <2>4, <2>5 DEF StoreOK
<1>6. OwnsSections(SelectInternal(st, d))
  BY DEF SelectInternal, OwnsSections, SectionsFor, StoreOK, StoreType
<1>7. QED
  BY <1>5, <1>6 DEF KeepsOwner, SelectInternal, StoreOK, StoreType

\* Applying a list keeps ownership, whichever distro it selects or loses.
LEMMA ApplyDistroListOK ==
  ASSUME NEW st, StoreOK(st), NEW list \in [Distros -> DistroState], NEW first \in Distros
  PROVE  KeepsOwner(st, ApplyDistroList(st, list, first))
<1> DEFINE now == [st EXCEPT !.distros = list]
           kept == Selected(st) /\ list[st.selected] # "Absent"
           held == [now EXCEPT !.sections.state = list[st.selected]]
           gone == [now EXCEPT !.selected = None, !.sections = None]
           next == IF list[DefaultDistro] # "Absent" THEN DefaultDistro ELSE first
<1>1. StoreOK(now) /\ FrameKept(st, now)
  BY DEF StoreOK, StoreType, FrameKept
<1>2. ASSUME kept PROVE KeepsOwner(st, held)
  <2>1. st.selected \in Distros /\ st.sections \in SectionsType
    BY <1>2 DEF StoreOK, StoreType, MaybeDistro, Selected
  <2> DEFINE sections == [st.sections EXCEPT !.state = list[st.selected]]
  <2>2. sections \in SectionsType /\ sections.data = st.sections.data
    BY <2>1 DEF SectionsType
  <2>3. held = [now EXCEPT !.sections = sections]
    BY <1>1 DEF FrameKept
  <2>4. sections # None
    BY <2>2, NullAssumption
  <2> HIDE DEF held, now
  <2>5. StoreOK(held)
    <3> HIDE DEF sections
    <3>1. QED
      BY <1>1, <1>2, <2>2, <2>3, <2>4 DEF StoreOK, StoreType, Selected, FrameKept
  <2>6. /\ held.sections = sections /\ held.selected = st.selected
        /\ held.epoch = st.epoch /\ held.tier = st.tier
    <3> HIDE DEF sections
    <3>1. QED
      BY <1>1, <2>3 DEF StoreOK, StoreType, FrameKept
  <2>7. st.sections # None
    BY <2>1, NullAssumption
  <2> HIDE DEF sections
  <2>8. QED
    BY <2>2, <2>5, <2>6, <2>7 DEF KeepsOwner, OwnsSections
<1>3. KeepsOwner(st, gone)
  <2>1. StoreOK(gone)
    BY DEF StoreOK, StoreType, MaybeDistro
  <2>2. gone.sections = None /\ gone.selected = None /\ gone.epoch = st.epoch /\ gone.tier = st.tier
    BY DEF StoreOK, StoreType
  <2> HIDE DEF gone
  <2>3. QED
    BY <2>1, <2>2 DEF KeepsOwner, OwnsSections
<1>4. KeepsOwner(st, SelectInternal(now, next))
  <2>1. next \in Distros
    OBVIOUS
  <2> HIDE DEF now, next
  <2>2. KeepsOwner(st, now)
    BY <1>1, FrameKeepsOwner
  <2>3. KeepsOwner(now, SelectInternal(now, next))
    BY <1>1, <2>1, SelectInternalOK
  <2>4. QED
    BY <2>2, <2>3, KeepsOwnerTransitive
<1>5. \/ kept /\ ApplyDistroList(st, list, first) = held
      \/ ApplyDistroList(st, list, first) = gone
      \/ ApplyDistroList(st, list, first) = SelectInternal(now, next)
  BY DEF ApplyDistroList
<1> HIDE DEF held, gone, now, next, kept
<1>6. QED
  BY <1>2, <1>3, <1>4, <1>5

\* Filling in a result keeps ownership if the result was captured with the current
\* sections object.
LEMMA ApplyResultOK ==
  ASSUME NEW st, StoreOK(st), NEW c \in CallType, NEW reported,
         c.distro \in Distros => reported \in DistroState,
         c.cmd \in InDistro => Captures(st, c.distro, c.epoch)
  PROVE  KeepsOwner(st, ApplyResult(st, c, reported))
<1>1. CASE c.cmd \notin InDistro \/ st.sections = None \/ c.epoch # st.epoch
  BY <1>1, FrameKeepsOwner DEF ApplyResult, FrameKept
<1>2. CASE c.cmd \in InDistro /\ st.sections # None /\ c.epoch = st.epoch
  <2> DEFINE x == Fill(st.sections, c, reported)
             new == ApplyResult(st, c, reported)
  <2>1. st.sections \in SectionsType /\ c.distro = st.selected /\ c.distro \in MaybeDistro
    BY <1>2 DEF Captures, StoreOK, StoreType, CallType
  <2>6. reported \in DistroState
    BY <1>2, <2>1 DEF StoreOK, MaybeDistro
  <2>2. /\ x \in SectionsType
        /\ \A k \in InDistro : x.data[k] \in {st.sections.data[k], st.selected}
    <3> DEFINE filled == [st.sections EXCEPT !.data[c.cmd] = c.distro]
    <3>1. /\ filled \in SectionsType
          /\ \A k \in InDistro : filled.data[k] \in {st.sections.data[k], st.selected}
      BY <1>2, <2>1 DEF SectionsType
    <3>2. \/ x = [filled EXCEPT !.ports = "succeeded"]
          \/ x = filled
          \/ x = [filled EXCEPT !.state = IF reported = "Absent" THEN "Unknown" ELSE reported]
      BY <1>2 DEF Fill, InDistro
    <3> HIDE DEF filled, x
    <3>3. QED
      BY <2>6, <3>1, <3>2 DEF SectionsType
  <2>4. new = [st EXCEPT !.sections = x]
    BY <1>2 DEF ApplyResult
  <2>5. x # None
    BY <2>2, NullAssumption
  <2> HIDE DEF x, new
  <2>7. StoreOK(new) /\ new.sections = x /\ new.selected = st.selected
        /\ new.epoch = st.epoch /\ new.tier = st.tier
    BY <1>2, <2>2, <2>4, <2>5 DEF StoreOK, StoreType
  <2>8. OwnsSections(st) => OwnsSections(new)
    BY <1>2, <2>2, <2>7 DEF OwnsSections
  <2>9. QED
    BY <2>7, <2>8 DEF KeepsOwner, new
<1>3. QED
  BY <1>1, <1>2

\* Marking a section failed never makes another distro its owner.
LEMMA MarkFailedOK ==
  ASSUME NEW st, StoreOK(st), NEW c \in CallType
  PROVE  KeepsOwner(st, MarkFailed(st, c))
<1>1. CASE MarkFailed(st, c) = st
  BY <1>1, FrameKeepsOwner DEF FrameKept
<1>2. CASE MarkFailed(st, c) # st
  <2> DEFINE x == [st.sections EXCEPT !.ports = "failed"]
             new == MarkFailed(st, c)
  <2>1. st.sections # None /\ st.sections \in SectionsType
    BY <1>2 DEF MarkFailed, StoreOK, StoreType
  <2>2. new = [st EXCEPT !.sections = x]
    BY <1>2 DEF MarkFailed
  <2>3. x \in SectionsType /\ x.data = st.sections.data
    BY <2>1 DEF SectionsType
  <2>4. x # None
    BY <2>3, NullAssumption
  <2> HIDE DEF x, new
  <2>5. StoreOK(new) /\ new.sections = x /\ new.selected = st.selected
        /\ new.epoch = st.epoch /\ new.tier = st.tier
    BY <2>1, <2>2, <2>3, <2>4 DEF StoreOK, StoreType
  <2>6. QED
    BY <2>1, <2>3, <2>5 DEF KeepsOwner, OwnsSections, new
<1>3. QED
  BY <1>1, <1>2

\* An answered probe changes the verdict and the backoff, never the sections.
LEMMA ProbeAnsweredOK ==
  ASSUME NEW st, StoreOK(st)
  PROVE  StoreOK(ProbeAnswered(st)) /\ FrameKept(st, ProbeAnswered(st))
<1> DEFINE p == [failures |-> 0, until |-> 0, trusted |-> Trust, everAlive |-> TRUE]
           alive == [st EXCEPT !.probe = p]
<1>1. p \in ProbeType
  BY ProbeAssumption DEF ProbeType
<1> HIDE DEF p
<1>2. StoreOK(alive) /\ FrameKept(st, alive)
  BY <1>1 DEF StoreOK, StoreType, FrameKept
<1>3. ProbeAnswered(st) \in {Recompute(alive), alive}
  BY DEF ProbeAnswered, p
<1> HIDE DEF alive
<1>4. QED
  BY <1>2, <1>3, RecomputeOK DEF FrameKept

\* The backoff never exceeds its cap, however many probes went unanswered.
LEMMA BackoffBounded ==
  ASSUME NEW n \in 1..MaxProbeFailures
  PROVE  Backoff(n) \in 0..BackoffMax
<1>1. BackoffBase \in Nat /\ BackoffMax \in Nat /\ MaxProbeFailures \in Nat
  BY ProbeAssumption
<1>2. n - 1 \in 0..MaxProbeFailures
  BY <1>1
<1>3. 2 ^ (n - 1) \in Nat
  BY <1>2, PowerAssumption
<1> DEFINE p == 2 ^ (n - 1)
<1> HIDE DEF p
<1>4. p \in Nat
  BY <1>3 DEF p
<1>5. BackoffBase * p \in Nat
  BY <1>1, <1>4
<1> DEFINE doubled == BackoffBase * p
<1>6. Backoff(n) = IF doubled < BackoffMax THEN doubled ELSE BackoffMax
  BY DEF Backoff, p
<1> HIDE DEF doubled
<1>7. QED
  BY <1>1, <1>5, <1>6 DEF doubled

\* Nor does an unanswered one.
LEMMA ProbeUnansweredOK ==
  ASSUME NEW st, StoreOK(st)
  PROVE  StoreOK(ProbeUnanswered(st)) /\ FrameKept(st, ProbeUnanswered(st))
<1> DEFINE n == IF st.probe.failures < MaxProbeFailures THEN st.probe.failures + 1
                ELSE MaxProbeFailures
           p == [failures |-> n, until |-> Backoff(n), trusted |-> 0,
                 everAlive |-> st.probe.everAlive]
           silent == [st EXCEPT !.probe = p]
<1>1. /\ st.probe.failures \in 0..MaxProbeFailures /\ st.probe.everAlive \in BOOLEAN
      /\ MaxProbeFailures \in Nat \ {0} /\ Trust \in Nat
  BY ProbeAssumption DEF StoreOK, StoreType, ProbeType
<1>2. n \in 1..MaxProbeFailures
  BY <1>1
<1> HIDE DEF n
<1>3. Backoff(n) \in 0..BackoffMax
  BY <1>2, BackoffBounded
<1>4. p \in ProbeType
  BY <1>1, <1>2, <1>3 DEF ProbeType
<1> HIDE DEF p
<1>5. StoreOK(silent) /\ FrameKept(st, silent)
  BY <1>4 DEF StoreOK, StoreType, FrameKept
<1>6. ProbeUnanswered(st) = Recompute(silent)
  BY DEF ProbeUnanswered, n, p
<1> HIDE DEF silent
<1>7. QED
  BY <1>5, <1>6, RecomputeOK DEF FrameKept

-----------------------------------------------------------------------------
(* Operators on the memory: the store, the calls and the probes in flight *)

USE DEF Capturing

\* The commands of a tier are among the commands the bounds allow for.
LEMMA CommandTypes ==
  /\ InDistro \subseteq Commands
  /\ \A t \in Tiers : DistroCommands(t) \subseteq Commands /\ HostCommands(t) \subseteq Commands
  /\ \A t \in Tiers : HostCommands(t) \intersect InDistro = {}
BY DEF InDistro, Commands, DistroCommands, HostCommands, Tiers

\* A store method leaves the memory well formed.
LEMMA OnStoreOK ==
  ASSUME NEW m, MemoryOK(m), NEW st, KeepsOwner(m.st, st)
  PROVE  MemoryOK(OnStore(m, st)) /\ OnStore(m, st).st = st
<1>1. /\ OnStore(m, st) \in MemoryType
      /\ OnStore(m, st).st = st /\ OnStore(m, st).calls = m.calls
  BY DEF OnStore, MemoryOK, MemoryType, KeepsOwner, StoreOK
<1>2. m.st.epoch \in Nat /\ st.epoch \in Nat /\ \A c \in m.calls : c.epoch \in Nat
  BY DEF MemoryOK, MemoryType, KeepsOwner, StoreOK, StoreType, CallType
<1>3. \A t \in Tiers : m.st.tier[t].epoch \in Nat
  BY DEF MemoryOK, StoreOK, StoreType, TierType
<1>4. \A d, e : e \in Nat /\ Captures(m.st, d, e) => Captures(st, d, e)
  BY <1>2 DEF Captures, KeepsOwner
<1>5. OwnsSections(st)
  BY DEF MemoryOK, Owned, KeepsOwner
<1>6. st.tier = m.st.tier
  BY DEF KeepsOwner
<1>7. Owned(OnStore(m, st))
  BY <1>1, <1>2, <1>3, <1>4, <1>5, <1>6 DEF Owned, MemoryOK
<1>8. QED
  BY <1>1, <1>7 DEF MemoryOK, KeepsOwner

\* So does a change of one tier's record, as long as what it captured is still
\* the selection.
LEMMA SetTierOK ==
  ASSUME NEW m, MemoryOK(m), NEW t \in Tiers, NEW r \in TierType,
         r.pc \in Capturing => Captures(m.st, r.distro, r.epoch)
  PROVE  /\ MemoryOK(OnStore(m, [m.st EXCEPT !.tier[t] = r]))
         /\ OnStore(m, [m.st EXCEPT !.tier[t] = r]).st.tier[t] = r
         /\ OnStore(m, [m.st EXCEPT !.tier[t] = r]).calls = m.calls
<1> DEFINE st == [m.st EXCEPT !.tier[t] = r]
           new == OnStore(m, st)
<1>1. m.st \in StoreType /\ m.st.tier \in [Tiers -> TierType]
  BY DEF MemoryOK, StoreOK, StoreType
<1>2. /\ st \in StoreType /\ st.tier = [m.st.tier EXCEPT ![t] = r]
      /\ st.sections = m.st.sections /\ st.selected = m.st.selected
      /\ st.epoch = m.st.epoch /\ st.failures = m.st.failures
  BY <1>1 DEF StoreType
<1>3. StoreOK(st)
  BY <1>2 DEF MemoryOK, StoreOK
<1> HIDE DEF st
<1>4. new \in MemoryType /\ new.st = st /\ new.calls = m.calls
  BY <1>3 DEF OnStore, MemoryOK, MemoryType, StoreOK
<1>5. \A d, e : Captures(m.st, d, e) <=> Captures(st, d, e)
  BY <1>2 DEF Captures
<1>6. OwnsSections(st)
  BY <1>2 DEF OwnsSections, MemoryOK, Owned
<1>7. \A u \in Tiers : st.tier[u] = IF u = t THEN r ELSE m.st.tier[u]
  BY <1>1, <1>2
<1> HIDE DEF new
<1>8. Owned(new)
  BY <1>4, <1>5, <1>6, <1>7 DEF Owned, MemoryOK
<1>9. QED
  BY <1>3, <1>4, <1>7, <1>8 DEF MemoryOK, new, st

\* Issuing the calls of a tier hands each the pair its tier captured.
LEMMA IssueOK ==
  ASSUME NEW m, MemoryOK(m), wsl \in [Distros -> DistroState], NEW t \in Tiers,
         NEW cmds \in SUBSET Commands,
         cmds \intersect InDistro # {} => m.st.tier[t].pc \in Capturing
  PROVE  MemoryOK(Issue(m, t, cmds)) /\ Issue(m, t, cmds).st = m.st
<1> DEFINE d == m.st.tier[t].distro
           e == m.st.tier[t].epoch
           issued == {Call(t, cmd, d, e) : cmd \in cmds}
           new == Issue(m, t, cmds)
<1>1. d \in MaybeDistro /\ e \in Nat
  BY DEF MemoryOK, StoreOK, StoreType, TierType
<1>2. ASSUME NEW cmd \in cmds
      PROVE  /\ Call(t, cmd, d, e) \in CallType
             /\ Call(t, cmd, d, e).cmd = cmd /\ Call(t, cmd, d, e).distro = d
             /\ Call(t, cmd, d, e).epoch = e
  BY <1>1, <1>2 DEF Call, CallType, Tiers
<1>3. new.st = m.st /\ new.calls = m.calls \union issued /\ new \in MemoryType
  <2>1. issued \subseteq CallType
    BY <1>2
  <2> HIDE DEF issued
  <2>2. new = [m EXCEPT !.calls = m.calls \union issued]
    BY DEF Issue, issued
  <2> HIDE DEF new
  <2>3. QED
    BY <2>1, <2>2 DEF MemoryOK, MemoryType
<1>4. \A c \in issued : c.cmd \in InDistro => Captures(m.st, c.distro, c.epoch)
  <2>1. SUFFICES ASSUME NEW cmd \in cmds, cmd \in InDistro
                 PROVE  Captures(m.st, d, e)
    BY <1>2
  <2>2. m.st.tier[t].pc \in Capturing
    BY <2>1
  <2>3. QED
    BY <2>2 DEF MemoryOK, Owned
<1> HIDE DEF issued, new
<1>5. Owned(new)
  BY <1>3, <1>4 DEF MemoryOK, Owned
<1>6. QED
  BY <1>3, <1>5 DEF MemoryOK, new

\* Recompute followed by emit keeps ownership.
LEMMA EmitRecomputeOK ==
  ASSUME NEW st, StoreOK(st)
  PROVE  KeepsOwner(st, Emit(Recompute(st))) /\ StoreOK(Emit(Recompute(st)))
<1>1. StoreOK(Recompute(st)) /\ FrameKept(st, Recompute(st))
  BY RecomputeOK
<1>2. StoreOK(Emit(Recompute(st))) /\ FrameKept(Recompute(st), Emit(Recompute(st)))
  BY <1>1, EmitOK
<1>3. FrameKept(st, Emit(Recompute(st)))
  BY <1>1, <1>2 DEF FrameKept
<1>4. QED
  BY <1>2, <1>3, FrameKeepsOwner

\* Of two replacements of the store in one step the second remains.
LEMMA OnStoreTwice ==
  ASSUME NEW m \in MemoryType, NEW a, NEW b
  PROVE  OnStore(OnStore(m, a), b) = OnStore(m, b)
BY DEF OnStore, MemoryType

\* The record of an idle tier is a tier record.
LEMMA IdleTierType == IdleTier \in TierType /\ IdleTier.pc = "idle"
BY DEF IdleTier, TierType, MaybeDistro

\* The end of a tier keeps the memory well formed.
LEMMA FinishTierOK ==
  ASSUME NEW m, MemoryOK(m), NEW t \in Tiers
  PROVE  MemoryOK(FinishTier(m, t))
<1> DEFINE st == Emit(Recompute(m.st))
           told == OnStore(m, st)
<1>1. KeepsOwner(m.st, st)
  BY EmitRecomputeOK DEF MemoryOK
<1> HIDE DEF st
<1>2. MemoryOK(told) /\ told.st = st
  BY <1>1, OnStoreOK
<1>3. FinishTier(m, t) = OnStore(told, [told.st EXCEPT !.tier[t] = IdleTier])
  BY <1>2, OnStoreTwice DEF FinishTier, st, MemoryOK
<1> HIDE DEF told
<1>4. QED
  BY <1>2, <1>3, SetTierOK, IdleTierType

\* So does ending it only once its calls are back.
LEMMA FinishIfDoneOK ==
  ASSUME NEW m, MemoryOK(m), NEW t \in Tiers
  PROVE  MemoryOK(FinishIfDone(m, t))
BY FinishTierOK DEF FinishIfDone

\* A tier of a well formed memory has a well typed record.
LEMMA TierRecord ==
  ASSUME NEW m, MemoryOK(m), NEW t \in Tiers
  PROVE  m.st.tier[t] \in TierType
BY DEF MemoryOK, StoreOK, StoreType

\* So does the step after the gate, with either verdict.
LEMMA ProceedOK ==
  ASSUME NEW m, MemoryOK(m), wsl \in [Distros -> DistroState], NEW t \in Tiers,
         NEW alive \in BOOLEAN, m.st.tier[t].pc \in Capturing
  PROVE  MemoryOK(Proceed(m, t, alive))
<1> DEFINE r == [m.st.tier[t] EXCEPT !.pc = "collect", !.on = None]
           collecting == OnStore(m, [m.st EXCEPT !.tier[t] = r])
           issued == Issue(collecting, t, DistroCommands(t))
<1>1. /\ r \in TierType /\ r.pc = "collect" /\ r.distro = m.st.tier[t].distro
      /\ r.epoch = m.st.tier[t].epoch
  BY TierRecord DEF TierType
<1>2. Captures(m.st, r.distro, r.epoch)
  BY <1>1 DEF MemoryOK, Owned
<1> HIDE DEF r
<1>3. MemoryOK(collecting) /\ collecting.st.tier[t] = r
  BY <1>1, <1>2, SetTierOK
<1>4. Proceed(m, t, alive) = FinishIfDone(IF alive THEN issued ELSE collecting, t)
  BY DEF Proceed, r
<1> HIDE DEF collecting
<1>5. MemoryOK(issued)
  BY <1>1, <1>3, IssueOK, CommandTypes
<1> HIDE DEF issued
<1>6. QED
  BY <1>3, <1>4, <1>5, FinishIfDoneOK

\* Changing probeInFlight, or one probe, touches nothing ownership depends on.
LEMMA SetProbingOK ==
  ASSUME NEW st, StoreOK(st), NEW p \in Tiers \union {None}
  PROVE  /\ StoreOK([st EXCEPT !.probing = p]) /\ FrameKept(st, [st EXCEPT !.probing = p])
         /\ KeepsOwner(st, [st EXCEPT !.probing = p])
<1>1. StoreOK([st EXCEPT !.probing = p]) /\ FrameKept(st, [st EXCEPT !.probing = p])
  BY DEF StoreOK, StoreType, FrameKept
<1>2. QED
  BY <1>1, FrameKeepsOwner

\* Changing what a tier probes keeps the memory well formed and the store alone.
LEMMA SetProbeOK ==
  ASSUME NEW m, MemoryOK(m), NEW t \in Tiers, NEW d \in MaybeDistro
  PROVE  MemoryOK([m EXCEPT !.probes[t] = d]) /\ [m EXCEPT !.probes[t] = d].st = m.st
<1> DEFINE new == [m EXCEPT !.probes[t] = d]
<1>1. new \in MemoryType /\ new.st = m.st /\ new.calls = m.calls
  BY DEF MemoryOK, MemoryType
<1> HIDE DEF new
<1>2. Owned(new)
  BY <1>1 DEF MemoryOK, Owned
<1>3. QED
  BY <1>1, <1>2 DEF MemoryOK, new

\* So does sending a probe.
LEMMA SendProbeOK ==
  ASSUME NEW m, MemoryOK(m), NEW t \in Tiers, m.st.tier[t].pc \in Capturing
  PROVE  MemoryOK(SendProbe(m, t))
<1> DEFINE p == [m.st EXCEPT !.probing = t]
           asked == OnStore(m, p)
           r == [asked.st.tier[t] EXCEPT !.pc = "gate", !.on = t]
           waits == OnStore(asked, [asked.st EXCEPT !.tier[t] = r])
           d == m.st.tier[t].distro
<1>1. KeepsOwner(m.st, p) /\ p.tier = m.st.tier
  BY SetProbingOK DEF MemoryOK, FrameKept
<1>2. MemoryOK(asked) /\ asked.st = p
  BY <1>1, OnStoreOK
<1>3. SendProbe(m, t) = [waits EXCEPT !.probes[t] = d]
  BY DEF SendProbe
<1>4. d \in MaybeDistro
  BY TierRecord DEF TierType
<1> HIDE DEF p, asked, d
<1>5. asked.st.tier[t] \in TierType /\ asked.st.tier[t].pc \in Capturing
  BY <1>1, <1>2, TierRecord
<1>6. /\ r \in TierType /\ r.distro = asked.st.tier[t].distro
      /\ r.epoch = asked.st.tier[t].epoch
  BY <1>5 DEF TierType
<1>7. Captures(asked.st, r.distro, r.epoch)
  BY <1>2, <1>5, <1>6 DEF MemoryOK, Owned
<1> HIDE DEF r
<1>8. MemoryOK(waits)
  BY <1>2, <1>6, <1>7, SetTierOK
<1> HIDE DEF waits
<1>9. QED
  BY <1>3, <1>4, <1>8, SetProbeOK

\* So does the gate, whether it lets through, waits, or sends a probe.
LEMMA GateOK ==
  ASSUME NEW m, MemoryOK(m), wsl \in [Distros -> DistroState], NEW t \in Tiers,
         m.st.tier[t].pc \in Capturing
  PROVE  MemoryOK(Gate(m, t))
<1> DEFINE r == [m.st.tier[t] EXCEPT !.pc = "gate", !.on = m.st.probing]
           joins == OnStore(m, [m.st EXCEPT !.tier[t] = r])
<1>1. m.st.probing \in Tiers \union {None}
  BY DEF MemoryOK, StoreOK, StoreType
<1>2. r \in TierType /\ r.distro = m.st.tier[t].distro /\ r.epoch = m.st.tier[t].epoch
  BY <1>1, TierRecord DEF TierType
<1>3. Captures(m.st, r.distro, r.epoch)
  BY <1>2 DEF MemoryOK, Owned
<1>4. \/ Gate(m, t) = Proceed(m, t, TRUE)
      \/ Gate(m, t) = Proceed(m, t, FALSE)
      \/ Gate(m, t) = joins
      \/ Gate(m, t) = SendProbe(m, t)
  BY DEF Gate
<1> HIDE DEF r
<1>5. MemoryOK(joins)
  BY <1>2, <1>3, SetTierOK
<1> HIDE DEF joins
<1>6. QED
  BY <1>4, <1>5, ProceedOK, SendProbeOK

\* So does the body of a refresh.
LEMMA TierBodyOK ==
  ASSUME NEW m, MemoryOK(m), wsl \in [Distros -> DistroState], NEW t \in Tiers
  PROVE  MemoryOK(TierBody(m, t))
<1> DEFINE d == RunningSelected(m.st)
           r == [pc |-> "begun", distro |-> d, epoch |-> m.st.epoch, on |-> None]
           begun == OnStore(m, [m.st EXCEPT !.tier[t] = r])
           issued == Issue(begun, t, HostCommands(t))
<1>1. m.st.selected \in MaybeDistro /\ m.st.epoch \in Nat
  BY DEF MemoryOK, StoreOK, StoreType
<1>2. d \in MaybeDistro /\ (d # None => d = m.st.selected)
  BY <1>1 DEF RunningSelected, MaybeDistro
<1>3. TierBody(m, t) = IF d = None THEN FinishTier(m, t) ELSE Gate(issued, t)
  BY DEF TierBody
<1>4. CASE d = None
  BY <1>3, <1>4, FinishTierOK
<1>5. CASE d # None
  <2>1. r \in TierType /\ r.pc = "begun" /\ Captures(m.st, r.distro, r.epoch)
    BY <1>1, <1>2, <1>5 DEF TierType, Captures
  <2> HIDE DEF r
  <2>2. MemoryOK(begun) /\ begun.st.tier[t] = r
    BY <2>1, SetTierOK
  <2> HIDE DEF begun
  <2>3. MemoryOK(issued) /\ issued.st = begun.st
    BY <2>1, <2>2, IssueOK, CommandTypes
  <2> HIDE DEF issued
  <2>4. QED
    BY <1>3, <1>5, <2>1, <2>2, <2>3, GateOK
<1>6. QED
  BY <1>4, <1>5

\* So does a refresh, in flight already or not.
LEMMA RefreshOK ==
  ASSUME NEW m, MemoryOK(m), wsl \in [Distros -> DistroState], NEW t \in Tiers
  PROVE  MemoryOK(Refresh(m, t))
<1> DEFINE r == [IdleTier EXCEPT !.pc = "list"]
           listing == OnStore(m, [m.st EXCEPT !.tier[t] = r])
           issued == Issue(listing, t, {"list"})
<1>1. r \in TierType /\ r.pc = "list"
  BY DEF IdleTier, TierType, MaybeDistro
<1>2. Refresh(m, t) \in {m, issued, TierBody(m, t)}
  BY DEF Refresh
<1> HIDE DEF r
<1>3. MemoryOK(listing)
  BY <1>1, SetTierOK
<1> HIDE DEF listing
<1>4. {"list"} \in SUBSET Commands /\ {"list"} \intersect InDistro = {}
  BY DEF Commands, InDistro
<1>5. MemoryOK(issued)
  BY <1>3, <1>4, IssueOK
<1> HIDE DEF issued
<1>6. QED
  BY <1>2, <1>5, TierBodyOK

-----------------------------------------------------------------------------
(* Each handler *)

Inv == MemoryOK(Memory) /\ wsl \in [Distros -> DistroState] /\ wedged \in SUBSET Distros

\* Taking a reply off the calls keeps the memory well formed and the store alone.
LEMMA ReturnOK ==
  ASSUME Inv, NEW c \in calls
  PROVE  MemoryOK(Return(c)) /\ Return(c).st = store
<1>1. /\ Return(c) \in MemoryType /\ Return(c).st = store
      /\ Return(c).calls = calls \ {c} /\ Memory.st = store /\ Memory.calls = calls
  BY DEF Inv, MemoryOK, MemoryType, Memory, Return
<1>2. Owned(Return(c)) /\ StoreOK(store)
  BY <1>1 DEF Inv, MemoryOK, Owned
<1>3. QED
  BY <1>1, <1>2 DEF MemoryOK

\* What is known of a reply when it arrives: its type and, for a command of the distro,
\* the pair it captured.
LEMMA CallFacts ==
  ASSUME Inv, NEW c \in calls
  PROVE  /\ c \in CallType /\ c.cmd \in Commands
         /\ c.tier \in Tiers \union {"init"}
         /\ c.cmd # "list" => c.tier \in Tiers
         /\ c.cmd \in {"list", "details"} => Read(c) \subseteq [Distros -> DistroState]
         /\ c.cmd \in InDistro => Captures(store, c.distro, c.epoch)
BY DEF Inv, MemoryOK, MemoryType, Memory, CallType, Read, Owned

\* A step that installs a well-formed memory and changes no distro keeps Inv.
LEMMA BecomeOK ==
  ASSUME NEW m, MemoryOK(m), Become(m),
         wsl' \in [Distros -> DistroState], wedged' \in SUBSET Distros
  PROVE  Inv'
<1>1. Memory' = m
  BY DEF Become, Memory, MemoryOK, MemoryType
<1>2. QED
  BY <1>1 DEF Inv

\* A step that only calls store methods.
LEMMA StoreStepOK ==
  ASSUME Inv, NEW st, KeepsOwner(store, st), store' = st,
         UNCHANGED <<calls, probes, wsl, wedged>>
  PROVE  Inv'
<1>1. MemoryOK(OnStore(Memory, st)) /\ Memory.st = store
  <2>1. Memory.st = store
    BY DEF Memory
  <2>2. QED
    BY <2>1, OnStoreOK DEF Inv
<1>2. Become(OnStore(Memory, st))
  BY DEF Become, OnStore, Memory
<1>3. QED
  BY <1>1, <1>2, BecomeOK DEF Inv

\* The initial states satisfy the invariant.
LEMMA InitInv == Init => Inv
<1> SUFFICES ASSUME Init PROVE Inv
  OBVIOUS
<1> DEFINE idle == [t \in Tiers |-> IdleTier]
           st == [distros |-> NoDistros, selected |-> None, sections |-> None, epoch |-> 0,
                  warnings |-> None, failures |-> <<>>, probe |-> FreshProbe, probing |-> None,
                  tier |-> idle, cwd |-> "linux", mcpError |-> FALSE,
                  disposed |-> FALSE, current |-> None, behind |-> FALSE]
           w == ComputeWarnings(st)
           ready == Recompute(st)
           c == Call("init", "list", None, 0)
<1>1. wsl \in [Distros -> DistroState] /\ wedged \in SUBSET Distros
  BY StartAssumption DEF Init, DistroState
<1>2. w \in WarningsType
  <2>1. Len(st.failures) = 0 /\ st.selected = None
    OBVIOUS
  <2>2. {st.failures[i] : i \in {j \in 1..Len(st.failures) : j > Len(st.failures) - MaxWarned}} = {}
    BY <2>1
  <2>3. QED
    BY <2>1, <2>2 DEF ComputeWarnings, WarningsType, Selected
<1>3. ready = [st EXCEPT !.warnings = w]
  BY DEF Recompute
<1> HIDE DEF w
<1>4. FreshProbe \in ProbeType
  BY ProbeAssumption DEF FreshProbe, ProbeType, MaybeDistro
<1>5. NoDistros \in [Distros -> DistroState] /\ idle \in [Tiers -> TierType]
  BY IdleTierType DEF NoDistros, DistroState
<1>6. \A t \in Tiers : idle[t].pc = "idle"
  BY IdleTierType
<1> HIDE DEF idle
<1>7. /\ ready.distros = NoDistros /\ ready.selected = None /\ ready.sections = None
      /\ ready.warnings = w /\ ready.probe = FreshProbe /\ ready.tier = idle
      /\ ready.failures = <<>> /\ InitStore = [ready EXCEPT !.current = Build(ready)]
  BY <1>3 DEF InitStore, idle
<1>8. Build(ready) \in SnapshotType
  BY <1>2, <1>5, <1>7 DEF Build, SnapshotType, Selected, MaybeDistro
<1>9. /\ InitStore \in StoreType /\ InitStore.failures = <<>> /\ InitStore.selected = None
      /\ InitStore.sections = None /\ InitStore.tier = idle
  <2> DEFINE b == Build(ready)
  <2>1. b \in SnapshotType
    BY <1>8
  <2>2. InitStore =
          [distros |-> NoDistros, selected |-> None, sections |-> None, epoch |-> 0,
           warnings |-> w, failures |-> <<>>, probe |-> FreshProbe, probing |-> None,
           tier |-> idle, cwd |-> "linux", mcpError |-> FALSE,
           disposed |-> FALSE, current |-> b, behind |-> FALSE]
    BY <1>3, <1>7
  <2>3. <<>> \in Seq(Commands)
    OBVIOUS
  <2> HIDE DEF b, ready, st
  <2>4. InitStore \in StoreType
    BY <1>2, <1>4, <1>5, <2>1, <2>2, <2>3 DEF StoreType, MaybeDistro
  <2>5. QED
    BY <2>2, <2>4
<1> HIDE DEF st, ready
<1>10. StoreOK(InitStore)
  BY <1>9 DEF StoreOK
<1>11. c \in CallType /\ c.cmd \notin InDistro
  BY <1>1 DEF Call, CallType, Commands, InDistro, MaybeDistro
<1> HIDE DEF c
<1>12. /\ Memory \in MemoryType /\ Memory.st = InitStore /\ Memory.calls = {c}
  BY <1>9, <1>11 DEF Init, Memory, MemoryType, MaybeDistro, c
<1>13. Owned(Memory)
  BY <1>6, <1>9, <1>11, <1>12 DEF Owned, OwnsSections
<1>14. QED
  BY <1>1, <1>10, <1>12, <1>13 DEF Inv, MemoryOK

\* A timer or a button that refreshes a tier keeps the invariant.
LEMMA PollOK ==
  ASSUME Inv, NEW t \in Tiers, Poll(t)
  PROVE  Inv'
<1>1. MemoryOK(Refresh(Memory, t))
  BY RefreshOK DEF Inv
<1>2. QED
  BY <1>1, BecomeOK DEF Poll, Inv

\* Selecting a distro keeps the invariant, replies of the old one still to come.
LEMMA SetDistroOK ==
  ASSUME Inv, NEW d \in Distros, SetDistro(d)
  PROVE  Inv'
<1> DEFINE st == SelectInternal(store, d)
           told == Emit(Recompute(st))
           chosen == OnStore(Memory, told)
           fast == Refresh(chosen, "fast")
           medium == Refresh(fast, "medium")
           slow == Refresh(medium, "slow")
<1>1. StoreOK(store) /\ Memory.st = store /\ MemoryOK(Memory)
  BY DEF Inv, MemoryOK, Memory
<1>2. Become(slow) /\ UNCHANGED <<wsl, wedged>>
  BY DEF SetDistro
<1>3. KeepsOwner(store, st)
  BY <1>1, SelectInternalOK
<1> HIDE DEF st
<1>4. KeepsOwner(store, told)
  BY <1>1, <1>3, EmitRecomputeOK, KeepsOwnerTransitive DEF KeepsOwner
<1> HIDE DEF told
<1>5. MemoryOK(chosen)
  BY <1>1, <1>4, OnStoreOK
<1> HIDE DEF chosen
<1>6. wsl \in [Distros -> DistroState] /\ {"fast", "medium", "slow"} = Tiers
  BY DEF Inv, Tiers
<1>7. MemoryOK(fast)
  BY <1>5, <1>6, RefreshOK
<1> HIDE DEF fast
<1>8. MemoryOK(medium)
  BY <1>6, <1>7, RefreshOK
<1> HIDE DEF medium
<1>9. MemoryOK(slow)
  BY <1>6, <1>8, RefreshOK
<1> HIDE DEF slow
<1>10. QED
  BY <1>2, <1>9, BecomeOK DEF Inv

\* What a tier does after the list keeps the memory well formed.
LEMMA AfterListOK ==
  ASSUME NEW m, MemoryOK(m), wsl \in [Distros -> DistroState], NEW t \in Tiers \union {"init"}
  PROVE  MemoryOK(AfterList(m, t))
<1> DEFINE told == Emit(Recompute(m.st))
<1>1. KeepsOwner(m.st, told)
  BY EmitRecomputeOK DEF MemoryOK
<1>2. AfterList(m, t) = IF t = "init" THEN OnStore(m, told) ELSE TierBody(m, t)
  BY DEF AfterList
<1> HIDE DEF told
<1>3. QED
  BY <1>1, <1>2, OnStoreOK, TierBodyOK

\* The distro list arriving keeps the invariant.
LEMMA ListReplyOK ==
  ASSUME Inv, NEW c \in calls, ListReply(c)
  PROVE  Inv'
<1>1. PICK list \in Read(c), first \in Distros :
        Become(AfterList(
          OnStore(Return(c), ClearRunnerFailure(ApplyDistroList(store, list, first), "list")),
          c.tier))
  BY DEF ListReply
<1> DEFINE listed == ApplyDistroList(store, list, first)
           st == ClearRunnerFailure(listed, "list")
           m == OnStore(Return(c), st)
<1>2. list \in [Distros -> DistroState] /\ c.tier \in Tiers \union {"init"}
  BY CallFacts DEF ListReply
<1>3. MemoryOK(Return(c)) /\ Return(c).st = store /\ StoreOK(store)
  BY ReturnOK DEF Inv, MemoryOK, Memory
<1>4. KeepsOwner(store, listed)
  BY <1>2, <1>3, ApplyDistroListOK
<1>5. "list" \in Commands
  BY DEF Commands
<1> HIDE DEF listed
<1>6. KeepsOwner(listed, st)
  BY <1>4, <1>5, ClearRunnerFailureOK, FrameKeepsOwner DEF KeepsOwner
<1> HIDE DEF st
<1>7. MemoryOK(m)
  BY <1>3, <1>4, <1>6, KeepsOwnerTransitive, OnStoreOK
<1> HIDE DEF m
<1>8. MemoryOK(AfterList(m, c.tier))
  BY <1>2, <1>7, AfterListOK DEF Inv
<1>9. Become(AfterList(m, c.tier))
  BY <1>1 DEF m, st, listed
<1>10. QED
  BY <1>8, <1>9, BecomeOK DEF ListReply, Inv

\* The distro list failing keeps the invariant.
LEMMA ListFailureOK ==
  ASSUME Inv, NEW c \in calls, ListFailure(c)
  PROVE  Inv'
<1> DEFINE st == NoteRunnerFailure(store, "list")
           m == OnStore(Return(c), st)
<1>1. Become(AfterList(m, c.tier))
  BY DEF ListFailure
<1>2. c.tier \in Tiers \union {"init"} /\ "list" \in Commands
  BY CallFacts DEF Commands
<1>3. MemoryOK(Return(c)) /\ Return(c).st = store /\ StoreOK(store)
  BY ReturnOK DEF Inv, MemoryOK, Memory
<1>4. KeepsOwner(store, st)
  BY <1>2, <1>3, NoteRunnerFailureOK, FrameKeepsOwner
<1> HIDE DEF st
<1>5. MemoryOK(m)
  BY <1>3, <1>4, OnStoreOK
<1> HIDE DEF m
<1>6. MemoryOK(AfterList(m, c.tier))
  BY <1>2, <1>5, AfterListOK DEF Inv
<1>7. QED
  BY <1>1, <1>6, BecomeOK DEF ListFailure, Inv

\* A collector answering, for the selected distro or an older one, keeps the invariant.
LEMMA CollectorReplyOK ==
  ASSUME Inv, NEW c \in calls, CollectorReply(c)
  PROVE  Inv'
<1>1. PICK list \in (IF c.cmd = "details" THEN Read(c) ELSE {wsl}) :
        Become(FinishIfDone(
          OnStore(Return(c),
                  ClearRunnerFailure(ApplyResult(store, c, list[c.distro]), c.cmd)), c.tier))
  BY DEF CollectorReply
<1> DEFINE reported == list[c.distro]
           filled == ApplyResult(store, c, reported)
           st == ClearRunnerFailure(filled, c.cmd)
           m == OnStore(Return(c), st)
<1>2. list \in [Distros -> DistroState]
  BY CallFacts DEF Inv
<1>3. MemoryOK(Return(c)) /\ Return(c).st = store /\ StoreOK(store)
  BY ReturnOK DEF Inv, MemoryOK, Memory
<1>4. c.distro \in Distros => reported \in DistroState
  BY <1>2
<1> HIDE DEF reported
<1>5. KeepsOwner(store, filled)
  BY <1>3, <1>4, CallFacts, ApplyResultOK
<1> HIDE DEF filled
<1>6. KeepsOwner(filled, st)
  BY <1>5, CallFacts, ClearRunnerFailureOK, FrameKeepsOwner DEF KeepsOwner
<1> HIDE DEF st
<1>7. MemoryOK(m)
  BY <1>3, <1>5, <1>6, KeepsOwnerTransitive, OnStoreOK
<1> HIDE DEF m
<1>8. MemoryOK(FinishIfDone(m, c.tier))
  BY <1>7, CallFacts, FinishIfDoneOK DEF CollectorReply
<1>9. Become(FinishIfDone(m, c.tier))
  BY <1>1 DEF m, st, filled, reported
<1>10. wsl' \in [Distros -> DistroState] /\ wedged' \in SUBSET Distros
  BY DEF CollectorReply, Inv, Woken, DistroState
<1>11. QED
  BY <1>8, <1>9, <1>10, BecomeOK

\* A collector failing keeps the invariant.
LEMMA CollectorFailureOK ==
  ASSUME Inv, NEW c \in calls, CollectorFailure(c)
  PROVE  Inv'
<1> DEFINE marked == MarkFailed(store, c)
           st == NoteRunnerFailure(marked, c.cmd)
           m == OnStore(Return(c), st)
<1>1. Become(FinishIfDone(m, c.tier))
  BY DEF CollectorFailure
<1>2. c \in CallType /\ c.cmd \in Commands /\ c.tier \in Tiers
  BY CallFacts DEF CollectorFailure
<1>3. MemoryOK(Return(c)) /\ Return(c).st = store /\ StoreOK(store)
  BY ReturnOK DEF Inv, MemoryOK, Memory
<1>4. KeepsOwner(store, marked)
  BY <1>2, <1>3, MarkFailedOK
<1> HIDE DEF marked
<1>5. KeepsOwner(marked, st)
  BY <1>2, <1>4, NoteRunnerFailureOK, FrameKeepsOwner DEF KeepsOwner
<1> HIDE DEF st
<1>6. MemoryOK(m)
  BY <1>3, <1>4, <1>5, KeepsOwnerTransitive, OnStoreOK
<1> HIDE DEF m
<1>7. MemoryOK(FinishIfDone(m, c.tier))
  BY <1>2, <1>6, FinishIfDoneOK
<1>8. QED
  BY <1>1, <1>7, BecomeOK DEF CollectorFailure, Inv

\* Resuming a tier that waited for the probe keeps the memory well formed.
LEMMA ResumeWaiterOK ==
  ASSUME NEW m, MemoryOK(m), wsl \in [Distros -> DistroState],
         NEW t \in Tiers, NEW u \in Tiers, NEW alive \in BOOLEAN
  PROVE  MemoryOK(ResumeWaiter(m, t, u, alive))
BY ProceedOK DEF ResumeWaiter

\* A probe settling, and every tier that waited for it going on, keeps the invariant.
LEMMA ProbeSettlesOK ==
  ASSUME Inv, NEW t \in Tiers, ProbeSettles(t)
  PROVE  Inv'
<1> DEFINE d == probes[t]
           alive == d \notin wedged /\ wsl[d] # "Absent"
           known == IF alive THEN ProbeAnswered(store) ELSE ProbeUnanswered(store)
           st == [known EXCEPT !.probing = None]
           told == OnStore(Memory, st)
           done == [told EXCEPT !.probes[t] = None]
           fast == ResumeWaiter(done, t, "fast", alive)
           medium == ResumeWaiter(fast, t, "medium", alive)
           slow == ResumeWaiter(medium, t, "slow", alive)
<1>1. Become(slow) /\ wsl' \in {Woken(d), wsl} /\ wedged' = wedged
  BY DEF ProbeSettles
<1>2. /\ StoreOK(store) /\ Memory.st = store /\ MemoryOK(Memory)
      /\ wsl \in [Distros -> DistroState] /\ wedged \in SUBSET Distros
  BY DEF Inv, MemoryOK, Memory
<1>3. d \in MaybeDistro
  BY DEF Inv, MemoryOK, MemoryType, Memory
<1>4. wsl' \in [Distros -> DistroState]
  BY <1>1, <1>2 DEF Woken, DistroState
<1> HIDE DEF d
<1>5. alive \in BOOLEAN
  OBVIOUS
<1> HIDE DEF alive
<1>6. StoreOK(known) /\ FrameKept(store, known)
  BY <1>2, <1>3, ProbeAnsweredOK, ProbeUnansweredOK
<1> HIDE DEF known
<1>7. KeepsOwner(store, st)
  <2>1. KeepsOwner(store, known) /\ KeepsOwner(known, st)
    BY <1>6, FrameKeepsOwner, SetProbingOK
  <2> HIDE DEF st
  <2>2. QED
    BY <1>2, <2>1, KeepsOwnerTransitive
<1> HIDE DEF st
<1>8. MemoryOK(told)
  BY <1>2, <1>7, OnStoreOK
<1> HIDE DEF told
<1>9. MemoryOK(done)
  BY <1>8, SetProbeOK DEF MaybeDistro
<1> HIDE DEF done
<1>10. {"fast", "medium", "slow"} = Tiers
  BY DEF Tiers
<1>11. MemoryOK(fast)
  BY <1>2, <1>5, <1>9, <1>10, ResumeWaiterOK
<1> HIDE DEF fast
<1>12. MemoryOK(medium)
  BY <1>2, <1>5, <1>10, <1>11, ResumeWaiterOK
<1> HIDE DEF medium
<1>13. MemoryOK(slow)
  BY <1>2, <1>5, <1>10, <1>12, ResumeWaiterOK
<1> HIDE DEF slow
<1>14. QED
  BY <1>1, <1>2, <1>4, <1>13, BecomeOK

\* Time passing at the backoff keeps the invariant.
LEMMA TickOK ==
  ASSUME Inv, Tick
  PROVE  Inv'
<1> DEFINE p == [store.probe EXCEPT !.until = IF @ > 0 THEN @ - 1 ELSE 0,
                                    !.trusted = IF @ > 0 THEN @ - 1 ELSE 0]
           st == [store EXCEPT !.probe = p]
<1>1. StoreOK(store)
  BY DEF Inv, MemoryOK, Memory
<1>2. /\ store.probe \in ProbeType /\ BackoffMax \in Nat /\ Trust \in Nat
  BY <1>1, ProbeAssumption DEF StoreOK, StoreType
<1>3. p \in ProbeType
  <2>1. /\ store.probe.until \in 0..BackoffMax /\ store.probe.trusted \in 0..Trust
        /\ store.probe.failures \in 0..MaxProbeFailures
    BY <1>2 DEF ProbeType
  <2> DEFINE until == IF store.probe.until > 0 THEN store.probe.until - 1 ELSE 0
             trusted == IF store.probe.trusted > 0 THEN store.probe.trusted - 1 ELSE 0
  <2>2. until \in 0..BackoffMax /\ trusted \in 0..Trust
    BY <1>2, <2>1
  <2>3. p = [store.probe EXCEPT !.until = until, !.trusted = trusted]
    BY <1>2 DEF ProbeType
  <2> HIDE DEF until, trusted, p
  <2>4. QED
    BY <1>2, <2>2, <2>3 DEF ProbeType
<1>4. store' = st
  BY <1>1 DEF Tick, StoreOK, StoreType
<1> HIDE DEF p
<1>5. StoreOK(st) /\ FrameKept(store, st)
  BY <1>1, <1>3 DEF StoreOK, StoreType, FrameKept
<1> HIDE DEF st
<1>6. QED
  BY <1>4, <1>5, FrameKeepsOwner, StoreStepOK DEF Tick

\* The three context reports and disposal: plain data, then commit and emit.
LEMMA ReportOK ==
  ASSUME Inv, \/ \E cwd \in {"linux", "windows"} : SetTerminalContext(cwd)
              \/ \E error \in BOOLEAN : SetMcpStatus(error)
              \/ SetExplorerContext
              \/ Dispose
  PROVE  Inv'
<1>1. StoreOK(store)
  BY DEF Inv, MemoryOK, Memory
<1>2. ASSUME NEW cwd \in {"linux", "windows"}, SetTerminalContext(cwd) PROVE Inv'
  <2> DEFINE set == [store EXCEPT !.cwd = cwd]
  <2>1. StoreOK(set) /\ FrameKept(store, set)
    BY <1>1 DEF StoreOK, StoreType, FrameKept
  <2> HIDE DEF set
  <2>2. StoreOK(Emit(set)) /\ FrameKept(store, Emit(set))
    BY <2>1, EmitOK DEF FrameKept
  <2>3. QED
    BY <1>2, <2>2, FrameKeepsOwner, StoreStepOK DEF SetTerminalContext, set
<1>3. ASSUME NEW error \in BOOLEAN, SetMcpStatus(error) PROVE Inv'
  <2> DEFINE set == [store EXCEPT !.mcpError = error]
             st == Emit(Recompute(set))
  <2>1. StoreOK(set) /\ FrameKept(store, set)
    BY <1>1 DEF StoreOK, StoreType, FrameKept
  <2>2. store' = st /\ UNCHANGED <<calls, probes, wsl, wedged>>
    BY <1>3 DEF SetMcpStatus
  <2> HIDE DEF set
  <2>3. KeepsOwner(set, st) /\ KeepsOwner(store, set)
    BY <2>1, EmitRecomputeOK, FrameKeepsOwner
  <2> HIDE DEF st
  <2>4. QED
    BY <1>1, <2>2, <2>3, KeepsOwnerTransitive, StoreStepOK
<1>4. ASSUME SetExplorerContext PROVE Inv'
  BY <1>1, <1>4, EmitOK, FrameKeepsOwner, StoreStepOK DEF SetExplorerContext
<1>5. ASSUME Dispose PROVE Inv'
  <2> DEFINE st == [store EXCEPT !.disposed = TRUE]
  <2>1. StoreOK(st) /\ FrameKept(store, st)
    BY <1>1 DEF StoreOK, StoreType, FrameKept
  <2> HIDE DEF st
  <2>2. QED
    BY <1>5, <2>1, FrameKeepsOwner, StoreStepOK DEF Dispose, st
<1>6. QED
  BY <1>2, <1>3, <1>4, <1>5

\* The environment, and a step that changes no variable but the bounds.
LEMMA OutsideOK ==
  ASSUME Inv, UNCHANGED <<store, calls, probes>>,
         wsl' \in [Distros -> DistroState], wedged' \in SUBSET Distros
  PROVE  Inv'
<1>1. Become(Memory) /\ MemoryOK(Memory)
  BY DEF Become, Memory, Inv
<1>2. QED
  BY <1>1, BecomeOK

\* Every step keeps the invariant.
LEMMA NextInv == Inv /\ [Next]_vars => Inv'
<1> SUFFICES ASSUME Inv, [Next]_vars PROVE Inv'
  OBVIOUS
<1>1. wsl \in [Distros -> DistroState] /\ wedged \in SUBSET Distros
  BY DEF Inv
<1>2. ASSUME NEW d \in Distros, NEW s \in DistroState, ChangeWsl(d, s) PROVE Inv'
  BY <1>1, <1>2, OutsideOK DEF ChangeWsl
<1>3. ASSUME NEW d \in Distros, ToggleWedge(d) PROVE Inv'
  BY <1>1, <1>3, OutsideOK DEF ToggleWedge
<1>4. ASSUME UNCHANGED vars PROVE Inv'
  BY <1>1, <1>4, OutsideOK DEF vars
<1>5. QED
  BY <1>2, <1>3, <1>4, PollOK, SetDistroOK, ListReplyOK, ListFailureOK, CollectorReplyOK,
     CollectorFailureOK, ProbeSettlesOK, TickOK, ReportOK DEF Next

-----------------------------------------------------------------------------
(* Theorems *)

\* Typing, the store's own invariants and ownership hold in every reachable state.
THEOREM InvariantHolds == Spec => []Inv
BY InitInv, NextInv, PTL DEF Spec

\* Every state is well typed: no order of switches, replies and probes makes the
\* store hold a section without a selection, or more than MaxTracked failures.
THEOREM TypeCorrect == Spec => []TypeOK
<1>1. Inv => TypeOK
  BY DEF Inv, TypeOK, MemoryOK, MemoryType, Memory
<1>2. QED
  BY <1>1, InvariantHolds, PTL

\* No interleaving of tiers, switches and late replies shows a section read from
\* another distro than the selected one.
THEOREM SectionsOwned == Spec => []SectionsFromSelected
<1>1. Inv => SectionsFromSelected
  BY DEF Inv, MemoryOK, Owned, OwnsSections, SectionsFromSelected, Memory
<1>2. QED
  BY <1>1, InvariantHolds, PTL


-----------------------------------------------------------------------------
(***************************************************************************)
(* The shared probe of the liveness gate: never more than one is in        *)
(* flight, and probeInFlight is that one.  Only SendProbe and a settling   *)
(* probe touch probeInFlight or a probe; all the rest keeps both           *)
(* (SameProbe), whatever it composes.                                      *)
(***************************************************************************)

\* OneProbeInFlight, of a memory.
Link(m) == \A t \in Tiers : m.probes[t] # None <=> m.st.probing = t

SameProbe(a, b) == b.probes = a.probes /\ b.st.probing = a.st.probing


\* The link survives whatever touches neither side of it.
LEMMA SameProbeKeepsLink ==
  ASSUME NEW a, NEW b, Link(a), SameProbe(a, b)
  PROVE  Link(b)
BY DEF Link, SameProbe

-----------------------------------------------------------------------------
(* Store methods *)

\* Recomputing the warnings, committing and publishing keep probeInFlight.
LEMMA ReportsKeepProbing ==
  ASSUME NEW st, StoreOK(st)
  PROVE  /\ Recompute(st).probing = st.probing
         /\ Emit(st).probing = st.probing
         /\ Emit(Recompute(st)).probing = st.probing
<1>1. Recompute(st).probing = st.probing /\ StoreOK(Recompute(st))
  BY RecomputeOK DEF Recompute, StoreOK, StoreType
<1>2. \A x : StoreOK(x) => Emit(x).probing = x.probing
  BY DEF Emit, Commit, StoreOK, StoreType
<1>3. QED
  BY <1>1, <1>2

\* Tracking a failed command and dropping it keep it.
LEMMA FailuresKeepProbing ==
  ASSUME NEW st, StoreOK(st), NEW cmd
  PROVE  /\ NoteRunnerFailure(st, cmd).probing = st.probing
         /\ ClearRunnerFailure(st, cmd).probing = st.probing
BY DEF NoteRunnerFailure, ClearRunnerFailure, Commit, Recompute, StoreOK, StoreType

\* So does a selection, whether it is the user's or the list's: what a probe of the
\* distro before is doing is not looked at.
LEMMA SelectionKeepsProbing ==
  ASSUME NEW st, StoreOK(st), NEW list, NEW first
  PROVE  /\ \A d : SelectInternal(st, d).probing = st.probing
         /\ ApplyDistroList(st, list, first).probing = st.probing
BY DEF SelectInternal, ApplyDistroList, StoreOK, StoreType

\* So does what a collector writes.
LEMMA ResultsKeepProbing ==
  ASSUME NEW st, StoreOK(st), NEW c, NEW reported
  PROVE  /\ ApplyResult(st, c, reported).probing = st.probing
         /\ MarkFailed(st, c).probing = st.probing
BY DEF ApplyResult, MarkFailed, StoreOK, StoreType

-----------------------------------------------------------------------------
(* Operators on the memory *)

\* Installing a store with the same probeInFlight.
LEMMA OnStoreSame ==
  ASSUME NEW m, MemoryOK(m), NEW st, st.probing = m.st.probing
  PROVE  SameProbe(m, OnStore(m, st))
BY DEF OnStore, SameProbe, MemoryOK, MemoryType

\* A change of one tier's record.
LEMMA SetTierSame ==
  ASSUME NEW m, MemoryOK(m), NEW t \in Tiers, NEW r
  PROVE  SameProbe(m, OnStore(m, [m.st EXCEPT !.tier[t] = r]))
<1>1. [m.st EXCEPT !.tier[t] = r].probing = m.st.probing
  BY DEF MemoryOK, StoreOK, StoreType
<1>2. QED
  BY <1>1, OnStoreSame

\* Issuing calls.
LEMMA IssueSame ==
  ASSUME NEW m, MemoryOK(m), NEW t, NEW cmds
  PROVE  SameProbe(m, Issue(m, t, cmds))
BY DEF Issue, SameProbe, MemoryOK, MemoryType

\* Ending a tier.
LEMMA FinishTierSame ==
  ASSUME NEW m, MemoryOK(m), NEW t \in Tiers
  PROVE  SameProbe(m, FinishTier(m, t)) /\ SameProbe(m, FinishIfDone(m, t))
<1> DEFINE st == Emit(Recompute(m.st))
<1>1. st \in StoreType /\ st.probing = m.st.probing
  BY EmitRecomputeOK, ReportsKeepProbing DEF MemoryOK, StoreOK
<1> HIDE DEF st
<1>2. [st EXCEPT !.tier[t] = IdleTier].probing = m.st.probing
  BY <1>1 DEF StoreType
<1>3. SameProbe(m, FinishTier(m, t))
  BY <1>2, OnStoreSame DEF FinishTier, st
<1>4. QED
  BY <1>3 DEF FinishIfDone, SameProbe

\* The step after the gate.
LEMMA ProceedSame ==
  ASSUME NEW m, MemoryOK(m), wsl \in [Distros -> DistroState], NEW t \in Tiers,
         NEW alive \in BOOLEAN, m.st.tier[t].pc \in Capturing
  PROVE  SameProbe(m, Proceed(m, t, alive))
<1> DEFINE r == [m.st.tier[t] EXCEPT !.pc = "collect", !.on = None]
           collecting == OnStore(m, [m.st EXCEPT !.tier[t] = r])
           issued == Issue(collecting, t, DistroCommands(t))
<1>1. /\ r \in TierType /\ r.pc = "collect" /\ Captures(m.st, r.distro, r.epoch)
  BY TierRecord DEF TierType, MemoryOK, Owned
<1>2. Proceed(m, t, alive) = FinishIfDone(IF alive THEN issued ELSE collecting, t)
  BY DEF Proceed
<1> HIDE DEF r
<1>3. MemoryOK(collecting) /\ collecting.st.tier[t] = r /\ SameProbe(m, collecting)
  BY <1>1, SetTierOK, SetTierSame
<1> HIDE DEF collecting
<1>4. MemoryOK(issued) /\ SameProbe(collecting, issued)
  BY <1>1, <1>3, IssueOK, IssueSame, CommandTypes
<1> HIDE DEF issued
<1>5. QED
  BY <1>2, <1>3, <1>4, FinishTierSame DEF SameProbe

\* A tier sends a probe of its own only while there is none, so the link holds again
\* once both sides are set.
LEMMA SendProbeLink ==
  ASSUME NEW m, MemoryOK(m), NEW t \in Tiers, Link(m), m.st.probing = None,
         m.st.tier[t].distro # None
  PROVE  Link(SendProbe(m, t))
<1> DEFINE d == m.st.tier[t].distro
<1>1. SendProbe(m, t).probes = [m.probes EXCEPT ![t] = d] /\ SendProbe(m, t).st.probing = t
  BY DEF SendProbe, OnStore, MemoryOK, MemoryType, StoreOK, StoreType
<1>2. m.probes \in [Tiers -> MaybeDistro]
  BY DEF MemoryOK, MemoryType
<1>3. \A u \in Tiers : m.probes[u] = None
  BY TierAssumption DEF Link
<1>4. QED
  BY <1>1, <1>2, <1>3 DEF Link

\* The gate: it lets through, joins the probe in flight, or sends one.
LEMMA GateLink ==
  ASSUME NEW m, MemoryOK(m), wsl \in [Distros -> DistroState], NEW t \in Tiers, Link(m),
         m.st.tier[t].pc \in Capturing, m.st.tier[t].distro # None
  PROVE  Link(Gate(m, t))
<1> DEFINE r == [m.st.tier[t] EXCEPT !.pc = "gate", !.on = m.st.probing]
           joins == OnStore(m, [m.st EXCEPT !.tier[t] = r])
<1>1. \/ Gate(m, t) = Proceed(m, t, TRUE)
      \/ Gate(m, t) = Proceed(m, t, FALSE)
      \/ Gate(m, t) = joins
      \/ Gate(m, t) = SendProbe(m, t) /\ m.st.probing = None
  BY DEF Gate
<1> HIDE DEF r
<1>2. Link(joins)
  BY SetTierSame, SameProbeKeepsLink
<1> HIDE DEF joins
<1>3. Link(Proceed(m, t, TRUE)) /\ Link(Proceed(m, t, FALSE))
  BY ProceedSame, SameProbeKeepsLink
<1>4. QED
  BY <1>1, <1>2, <1>3, SendProbeLink

\* The body of a refresh reaches the gate only with a distro.
LEMMA TierBodyLink ==
  ASSUME NEW m, MemoryOK(m), wsl \in [Distros -> DistroState], NEW t \in Tiers, Link(m)
  PROVE  Link(TierBody(m, t))
<1> DEFINE d == RunningSelected(m.st)
           r == [pc |-> "begun", distro |-> d, epoch |-> m.st.epoch, on |-> None]
           begun == OnStore(m, [m.st EXCEPT !.tier[t] = r])
           issued == Issue(begun, t, HostCommands(t))
<1>1. TierBody(m, t) = IF d = None THEN FinishTier(m, t) ELSE Gate(issued, t)
  BY DEF TierBody
<1>2. CASE d = None
  BY <1>1, <1>2, FinishTierSame, SameProbeKeepsLink
<1>3. CASE d # None
  <2>1. /\ r \in TierType /\ r.pc = "begun" /\ r.distro = d
        /\ Captures(m.st, r.distro, r.epoch)
    BY <1>3 DEF TierType, Captures, RunningSelected, MemoryOK, StoreOK, StoreType, MaybeDistro
  <2> HIDE DEF r
  <2>2. MemoryOK(begun) /\ begun.st.tier[t] = r /\ SameProbe(m, begun)
    BY <2>1, SetTierOK, SetTierSame
  <2> HIDE DEF begun, d
  <2>3. MemoryOK(issued) /\ issued.st = begun.st /\ SameProbe(begun, issued)
    BY <2>1, <2>2, IssueOK, IssueSame, CommandTypes
  <2> HIDE DEF issued
  <2>4. Link(issued)
    BY <2>2, <2>3, SameProbeKeepsLink
  <2>5. QED
    BY <1>1, <1>3, <2>1, <2>2, <2>3, <2>4, GateLink
<1>4. QED
  BY <1>2, <1>3

\* A refresh, in flight already or not.
LEMMA RefreshLink ==
  ASSUME NEW m, MemoryOK(m), wsl \in [Distros -> DistroState], NEW t \in Tiers, Link(m)
  PROVE  Link(Refresh(m, t))
<1> DEFINE r == [IdleTier EXCEPT !.pc = "list"]
           listing == OnStore(m, [m.st EXCEPT !.tier[t] = r])
           issued == Issue(listing, t, {"list"})
<1>1. r \in TierType /\ r.pc = "list"
  BY DEF IdleTier, TierType, MaybeDistro
<1>2. Refresh(m, t) \in {m, issued, TierBody(m, t)}
  BY DEF Refresh
<1> HIDE DEF r
<1>3. MemoryOK(listing) /\ SameProbe(m, listing)
  BY <1>1, SetTierOK, SetTierSame
<1> HIDE DEF listing
<1>4. Link(issued)
  BY <1>3, IssueSame, SameProbeKeepsLink
<1> HIDE DEF issued
<1>5. QED
  BY <1>2, <1>4, TierBodyLink

\* What a tier does after the list.
LEMMA AfterListLink ==
  ASSUME NEW m, MemoryOK(m), wsl \in [Distros -> DistroState], Link(m),
         NEW t \in Tiers \union {"init"}
  PROVE  Link(AfterList(m, t))
<1>1. Emit(Recompute(m.st)).probing = m.st.probing
  BY ReportsKeepProbing DEF MemoryOK
<1>2. Link(OnStore(m, Emit(Recompute(m.st))))
  BY <1>1, OnStoreSame, SameProbeKeepsLink
<1>3. QED
  BY <1>2, TierBodyLink DEF AfterList

\* A tier that waited for the probe goes on.
LEMMA ResumeWaiterLink ==
  ASSUME NEW m, MemoryOK(m), wsl \in [Distros -> DistroState], Link(m),
         NEW t \in Tiers, NEW u \in Tiers, NEW alive \in BOOLEAN
  PROVE  Link(ResumeWaiter(m, t, u, alive))
BY ProceedSame, SameProbeKeepsLink DEF ResumeWaiter

-----------------------------------------------------------------------------
(* Each handler *)

LInv == Inv /\ Link(Memory)

\* A step that installs a memory establishes the link of that memory.
LEMMA BecomeLink ==
  ASSUME NEW m, MemoryOK(m), Link(m), Become(m)
  PROVE  Link(Memory)'
BY DEF Become, Memory, Link

\* A store method between a reply and what follows it.
LEMMA ReplyLink ==
  ASSUME LInv, NEW c \in calls, NEW st, st.probing = store.probing
  PROVE  Link(OnStore(Return(c), st))
<1>1. MemoryOK(Return(c)) /\ Return(c).st = store
  BY ReturnOK DEF LInv
<1>2. SameProbe(Memory, Return(c))
  BY DEF SameProbe, Return, Memory
<1>3. Link(Return(c))
  BY <1>2, SameProbeKeepsLink DEF LInv
<1>4. QED
  BY <1>1, <1>3, OnStoreSame, SameProbeKeepsLink

\* At the start no tier has a probe and probeInFlight is null.
LEMMA InitLink == Init => LInv
<1> SUFFICES ASSUME Init PROVE Link(Memory)
  BY InitInv DEF LInv
<1>1. store.probing = None /\ probes = [t \in Tiers |-> None]
  BY DEF Init, InitStore, Recompute
<1>2. QED
  BY <1>1, TierAssumption DEF Link, Memory

\* A timer or a button that refreshes a tier.
LEMMA PollLink ==
  ASSUME LInv, NEW t \in Tiers, Poll(t)
  PROVE  Link(Memory)'
<1>1. MemoryOK(Refresh(Memory, t)) /\ Link(Refresh(Memory, t))
  BY RefreshOK, RefreshLink DEF LInv, Inv
<1>2. QED
  BY <1>1, BecomeLink DEF Poll

\* A switch: the three refreshes it starts share the probe of the distro before, if it
\* is still in flight, and otherwise the one that the first of them sends.
LEMMA SetDistroLink ==
  ASSUME LInv, NEW d \in Distros, SetDistro(d)
  PROVE  Link(Memory)'
<1> DEFINE st == SelectInternal(store, d)
           told == Emit(Recompute(st))
           chosen == OnStore(Memory, told)
           fast == Refresh(chosen, "fast")
           medium == Refresh(fast, "medium")
           slow == Refresh(medium, "slow")
<1>1. StoreOK(store) /\ Memory.st = store /\ MemoryOK(Memory) /\ Link(Memory)
  BY DEF LInv, Inv, MemoryOK, Memory
<1>2. Become(slow)
  BY DEF SetDistro
<1>3. KeepsOwner(store, st) /\ st.probing = store.probing
  BY <1>1, SelectInternalOK, SelectionKeepsProbing
<1> HIDE DEF st
<1>4. KeepsOwner(store, told) /\ told.probing = store.probing
  BY <1>1, <1>3, EmitRecomputeOK, ReportsKeepProbing, KeepsOwnerTransitive DEF KeepsOwner
<1> HIDE DEF told
<1>5. MemoryOK(chosen) /\ Link(chosen)
  BY <1>1, <1>4, OnStoreOK, OnStoreSame, SameProbeKeepsLink
<1> HIDE DEF chosen
<1>6. wsl \in [Distros -> DistroState] /\ {"fast", "medium", "slow"} = Tiers
  BY DEF LInv, Inv, Tiers
<1>7. MemoryOK(fast) /\ Link(fast)
  BY <1>5, <1>6, RefreshOK, RefreshLink
<1> HIDE DEF fast
<1>8. MemoryOK(medium) /\ Link(medium)
  BY <1>6, <1>7, RefreshOK, RefreshLink
<1> HIDE DEF medium
<1>9. MemoryOK(slow) /\ Link(slow)
  BY <1>6, <1>8, RefreshOK, RefreshLink
<1> HIDE DEF slow
<1>10. QED
  BY <1>2, <1>9, BecomeLink

\* The distro list arriving, whatever it does to the selection.
LEMMA ListReplyLink ==
  ASSUME LInv, NEW c \in calls, ListReply(c)
  PROVE  Link(Memory)'
<1>1. PICK list \in Read(c), first \in Distros :
        Become(AfterList(
          OnStore(Return(c), ClearRunnerFailure(ApplyDistroList(store, list, first), "list")),
          c.tier))
  BY DEF ListReply
<1> DEFINE listed == ApplyDistroList(store, list, first)
           st == ClearRunnerFailure(listed, "list")
           m == OnStore(Return(c), st)
<1>2. /\ list \in [Distros -> DistroState] /\ c.tier \in Tiers \union {"init"}
      /\ MemoryOK(Return(c)) /\ Return(c).st = store /\ StoreOK(store)
  BY CallFacts, ReturnOK DEF ListReply, LInv, Inv, MemoryOK, Memory
<1>3. KeepsOwner(store, listed) /\ listed.probing = store.probing
  BY <1>2, ApplyDistroListOK, SelectionKeepsProbing
<1>4. "list" \in Commands /\ wsl \in [Distros -> DistroState]
  BY DEF Commands, LInv, Inv
<1> HIDE DEF listed
<1>5. KeepsOwner(listed, st) /\ st.probing = store.probing
  BY <1>3, <1>4, ClearRunnerFailureOK, FrameKeepsOwner, FailuresKeepProbing DEF KeepsOwner
<1> HIDE DEF st
<1>6. MemoryOK(m) /\ Link(m)
  BY <1>2, <1>3, <1>5, KeepsOwnerTransitive, OnStoreOK, ReplyLink
<1> HIDE DEF m
<1>7. MemoryOK(AfterList(m, c.tier)) /\ Link(AfterList(m, c.tier))
  BY <1>2, <1>4, <1>6, AfterListOK, AfterListLink
<1>8. Become(AfterList(m, c.tier))
  BY <1>1 DEF m, st, listed
<1>9. QED
  BY <1>7, <1>8, BecomeLink

\* The distro list failing.
LEMMA ListFailureLink ==
  ASSUME LInv, NEW c \in calls, ListFailure(c)
  PROVE  Link(Memory)'
<1> DEFINE st == NoteRunnerFailure(store, "list")
           m == OnStore(Return(c), st)
<1>1. Become(AfterList(m, c.tier))
  BY DEF ListFailure
<1>2. /\ c.tier \in Tiers \union {"init"} /\ "list" \in Commands
      /\ MemoryOK(Return(c)) /\ Return(c).st = store /\ StoreOK(store)
      /\ wsl \in [Distros -> DistroState]
  BY CallFacts, ReturnOK DEF Commands, LInv, Inv, MemoryOK, Memory
<1>3. KeepsOwner(store, st) /\ st.probing = store.probing
  BY <1>2, NoteRunnerFailureOK, FrameKeepsOwner, FailuresKeepProbing
<1> HIDE DEF st
<1>4. MemoryOK(m) /\ Link(m)
  BY <1>2, <1>3, OnStoreOK, ReplyLink
<1> HIDE DEF m
<1>5. QED
  BY <1>1, <1>2, <1>4, AfterListOK, AfterListLink, BecomeLink

\* A collector answering.
LEMMA CollectorReplyLink ==
  ASSUME LInv, NEW c \in calls, CollectorReply(c)
  PROVE  Link(Memory)'
<1>1. PICK list \in (IF c.cmd = "details" THEN Read(c) ELSE {wsl}) :
        Become(FinishIfDone(
          OnStore(Return(c),
                  ClearRunnerFailure(ApplyResult(store, c, list[c.distro]), c.cmd)), c.tier))
  BY DEF CollectorReply
<1> DEFINE reported == list[c.distro]
           filled == ApplyResult(store, c, reported)
           st == ClearRunnerFailure(filled, c.cmd)
           m == OnStore(Return(c), st)
<1>2. /\ list \in [Distros -> DistroState] /\ c.tier \in Tiers /\ c.cmd \in Commands
      /\ MemoryOK(Return(c)) /\ Return(c).st = store /\ StoreOK(store)
  BY CallFacts, ReturnOK DEF CollectorReply, LInv, Inv, MemoryOK, Memory
<1>3. c.distro \in Distros => reported \in DistroState
  BY <1>2
<1> HIDE DEF reported
<1>4. KeepsOwner(store, filled) /\ filled.probing = store.probing
  BY <1>2, <1>3, CallFacts, ApplyResultOK, ResultsKeepProbing DEF LInv
<1> HIDE DEF filled
<1>5. KeepsOwner(filled, st) /\ st.probing = store.probing
  BY <1>2, <1>4, ClearRunnerFailureOK, FrameKeepsOwner, FailuresKeepProbing DEF KeepsOwner
<1> HIDE DEF st
<1>6. MemoryOK(m) /\ Link(m)
  BY <1>2, <1>4, <1>5, KeepsOwnerTransitive, OnStoreOK, ReplyLink
<1> HIDE DEF m
<1>7. MemoryOK(FinishIfDone(m, c.tier)) /\ Link(FinishIfDone(m, c.tier))
  BY <1>2, <1>6, FinishIfDoneOK, FinishTierSame, SameProbeKeepsLink
<1>8. Become(FinishIfDone(m, c.tier))
  BY <1>1 DEF m, st, filled, reported
<1>9. QED
  BY <1>7, <1>8, BecomeLink

\* A collector failing.
LEMMA CollectorFailureLink ==
  ASSUME LInv, NEW c \in calls, CollectorFailure(c)
  PROVE  Link(Memory)'
<1> DEFINE marked == MarkFailed(store, c)
           st == NoteRunnerFailure(marked, c.cmd)
           m == OnStore(Return(c), st)
<1>1. Become(FinishIfDone(m, c.tier))
  BY DEF CollectorFailure
<1>2. /\ c \in CallType /\ c.cmd \in Commands /\ c.tier \in Tiers
      /\ MemoryOK(Return(c)) /\ Return(c).st = store /\ StoreOK(store)
  BY CallFacts, ReturnOK DEF CollectorFailure, LInv, Inv, MemoryOK, Memory
<1>3. KeepsOwner(store, marked) /\ marked.probing = store.probing
  BY <1>2, MarkFailedOK, ResultsKeepProbing
<1> HIDE DEF marked
<1>4. KeepsOwner(marked, st) /\ st.probing = store.probing
  BY <1>2, <1>3, NoteRunnerFailureOK, FrameKeepsOwner, FailuresKeepProbing DEF KeepsOwner
<1> HIDE DEF st
<1>5. MemoryOK(m) /\ Link(m)
  BY <1>2, <1>3, <1>4, KeepsOwnerTransitive, OnStoreOK, ReplyLink
<1> HIDE DEF m
<1>6. MemoryOK(FinishIfDone(m, c.tier)) /\ Link(FinishIfDone(m, c.tier))
  BY <1>2, <1>5, FinishIfDoneOK, FinishTierSame, SameProbeKeepsLink
<1>7. QED
  BY <1>1, <1>6, BecomeLink

\* A probe settling: it was the only one, so clearing it and probeInFlight leaves none;
\* the tiers that waited go on, and the gate is behind them.
LEMMA ProbeSettlesLink ==
  ASSUME LInv, NEW t \in Tiers, ProbeSettles(t)
  PROVE  Link(Memory)'
<1> DEFINE d == probes[t]
           alive == d \notin wedged /\ wsl[d] # "Absent"
           known == IF alive THEN ProbeAnswered(store) ELSE ProbeUnanswered(store)
           st == [known EXCEPT !.probing = None]
           told == OnStore(Memory, st)
           done == [told EXCEPT !.probes[t] = None]
           fast == ResumeWaiter(done, t, "fast", alive)
           medium == ResumeWaiter(fast, t, "medium", alive)
           slow == ResumeWaiter(medium, t, "slow", alive)
<1>1. Become(slow) /\ d # None
  BY DEF ProbeSettles
<1>2. /\ StoreOK(store) /\ Memory.st = store /\ MemoryOK(Memory) /\ Memory.probes = probes
      /\ wsl \in [Distros -> DistroState] /\ probes \in [Tiers -> MaybeDistro]
  BY DEF LInv, Inv, MemoryOK, MemoryType, Memory
<1>3. d \in MaybeDistro
  BY <1>2
<1>4. \A u \in Tiers : u # t => probes[u] = None
  BY <1>1, <1>2 DEF LInv, Link
<1> HIDE DEF d
<1>5. alive \in BOOLEAN
  OBVIOUS
<1> HIDE DEF alive
<1>6. StoreOK(known) /\ FrameKept(store, known)
  BY <1>2, <1>3, ProbeAnsweredOK, ProbeUnansweredOK
<1> HIDE DEF known
<1>7. KeepsOwner(store, known) /\ KeepsOwner(known, st) /\ st.probing = None
  BY <1>6, FrameKeepsOwner, SetProbingOK DEF StoreOK, StoreType
<1> HIDE DEF st
<1>8. KeepsOwner(store, st)
  BY <1>2, <1>7, KeepsOwnerTransitive
<1>9. MemoryOK(told) /\ told.st = st /\ told.probes = probes
  BY <1>2, <1>8, OnStoreOK DEF OnStore, Memory
<1> HIDE DEF told
<1>10. MemoryOK(done) /\ done.st = st
  BY <1>9, SetProbeOK DEF MaybeDistro
<1>11. \A u \in Tiers : done.probes[u] = None
  BY <1>2, <1>4, <1>9 DEF MemoryOK, MemoryType
<1> HIDE DEF done
<1>12. Link(done)
  BY <1>7, <1>10, <1>11, TierAssumption DEF Link
<1>13. {"fast", "medium", "slow"} = Tiers
  BY DEF Tiers
<1>14. MemoryOK(fast) /\ Link(fast)
  BY <1>2, <1>5, <1>10, <1>12, <1>13, ResumeWaiterOK, ResumeWaiterLink
<1> HIDE DEF fast
<1>15. MemoryOK(medium) /\ Link(medium)
  BY <1>2, <1>5, <1>13, <1>14, ResumeWaiterOK, ResumeWaiterLink
<1> HIDE DEF medium
<1>16. MemoryOK(slow) /\ Link(slow)
  BY <1>2, <1>5, <1>13, <1>15, ResumeWaiterOK, ResumeWaiterLink
<1> HIDE DEF slow
<1>17. QED
  BY <1>1, <1>16, BecomeLink

\* Time, the reports of the rest of the app, and the environment touch neither side.
LEMMA OthersLink ==
  ASSUME LInv, \/ Tick
               \/ \E cwd \in {"linux", "windows"} : SetTerminalContext(cwd)
               \/ \E error \in BOOLEAN : SetMcpStatus(error)
               \/ SetExplorerContext
               \/ Dispose
               \/ \E d \in Distros, s \in DistroState : ChangeWsl(d, s)
               \/ \E d \in Distros : ToggleWedge(d)
               \/ UNCHANGED vars
  PROVE  Link(Memory)'
<1>1. store \in StoreType /\ StoreOK(store)
  BY DEF LInv, Inv, MemoryOK, Memory, StoreOK
<1>2. \A x : StoreOK(x) => Emit(x).probing = x.probing /\ Emit(Recompute(x)).probing = x.probing
  BY ReportsKeepProbing
<1>3. ASSUME NEW cwd \in {"linux", "windows"}, SetTerminalContext(cwd)
      PROVE  store'.probing = store.probing /\ UNCHANGED probes
  <2> DEFINE set == [store EXCEPT !.cwd = cwd]
  <2>1. StoreOK(set) /\ set.probing = store.probing
    BY <1>1 DEF StoreOK, StoreType
  <2>2. store' = Emit(set) /\ UNCHANGED probes
    BY <1>3 DEF SetTerminalContext
  <2> HIDE DEF set
  <2>3. QED
    BY <1>2, <2>1, <2>2
<1>4. ASSUME NEW error \in BOOLEAN, SetMcpStatus(error)
      PROVE  store'.probing = store.probing /\ UNCHANGED probes
  <2> DEFINE set == [store EXCEPT !.mcpError = error]
  <2>1. StoreOK(set) /\ set.probing = store.probing
    BY <1>1 DEF StoreOK, StoreType
  <2>2. store' = Emit(Recompute(set)) /\ UNCHANGED probes
    BY <1>4 DEF SetMcpStatus
  <2> HIDE DEF set
  <2>3. QED
    BY <1>2, <2>1, <2>2
<1>5. Tick \/ Dispose => store'.probing = store.probing /\ UNCHANGED probes
  BY <1>1 DEF Tick, Dispose, StoreType
<1>6. store'.probing = store.probing /\ UNCHANGED probes
  BY <1>1, <1>2, <1>3, <1>4, <1>5 DEF SetExplorerContext, ChangeWsl, ToggleWedge, vars
<1>7. QED
  BY <1>6 DEF LInv, Link, Memory

\* Every step keeps the invariant.
LEMMA NextLink == LInv /\ [Next]_vars => LInv'
<1> SUFFICES ASSUME LInv, [Next]_vars PROVE Link(Memory)'
  BY NextInv DEF LInv
<1>1. QED
  BY PollLink, SetDistroLink, ListReplyLink, ListFailureLink, CollectorReplyLink,
     CollectorFailureLink, ProbeSettlesLink, OthersLink DEF Next

-----------------------------------------------------------------------------
(* Theorem *)

\* "Tiers overlap; one probe per cycle answers all of them": however polls, switches
\* and replies interleave, no two probes are in flight, and probeInFlight is the one
\* that is.
THEOREM ProbeShared == Spec => []OneProbeInFlight
<1>1. LInv => OneProbeInFlight
  BY DEF LInv, Link, Memory, OneProbeInFlight
<1>2. QED
  BY <1>1, InitLink, NextLink, PTL DEF Spec

-----------------------------------------------------------------------------
(***************************************************************************)
(* Nothing stays unpublished.  What changes the store without an emit - a  *)
(* result, a failure, the verdict of a probe - belongs to a tier that is   *)
(* still on its way, and a tier ends by publishing.  So the invariant is   *)
(* that a store is published, or some tier (or the first list) is on its   *)
(* way, and that every tier on its way waits for something in flight.      *)
(***************************************************************************)

\* QuietSnapshotPublished, of a store.
Published(st) ==
  /\ ~st.behind
  /\ st.current = Build(st)
  /\ st.warnings = [ComputeWarnings(st) EXCEPT !.crossing = st.warnings.crossing]

Told(m) ==
  \/ m.st.disposed
  \/ \E t \in Tiers : m.st.tier[t].pc # "idle"
  \/ \E c \in m.calls : c.tier = "init"
  \/ Published(m.st)

NoList(m, t) == \A c \in CallsOf(m, t) : c.cmd # "list"

\* A tier on its way waits for its list, for a probe in flight or for its collectors;
\* an idle one has nothing in flight, and a probe belongs to a tier that waits for it.
TierTied(m, t) ==
  LET r == m.st.tier[t] IN
  /\ r.pc # "begun"
  /\ r.pc = "idle" => CallsOf(m, t) = {}
  /\ r.pc = "list" => \E c \in m.calls : CallsOf(m, t) = {c} /\ c.cmd = "list"
  /\ r.pc \in {"gate", "collect"} => NoList(m, t)
  /\ r.pc = "gate" => r.on \in Tiers /\ m.probes[r.on] # None
  /\ r.pc = "collect" => CallsOf(m, t) # {}
  /\ m.probes[t] # None => r.pc = "gate" /\ r.on = t
Tied(m, S) == \A t \in S : TierTied(m, t)

\* What an operator on tier t leaves to the other tiers.
OthersKept(m, n, t) ==
  /\ \A u \in Tiers \ {t} :
       /\ n.st.tier[u] = m.st.tier[u] /\ CallsOf(n, u) = CallsOf(m, u)
       /\ n.probes[u] = m.probes[u]
  /\ m.probes[t] # None => n.probes[t] # None

\* A tier stays tied through what an operator on another tier does.
LEMMA OthersTied ==
  ASSUME NEW m, NEW n, NEW t \in Tiers, NEW S, S \subseteq Tiers \ {t}, Tied(m, S),
         OthersKept(m, n, t)
  PROVE  Tied(n, S)
<1> SUFFICES ASSUME NEW u \in S PROVE TierTied(n, u)
  BY DEF Tied
<1>1. /\ TierTied(m, u) /\ u \in Tiers \ {t}
      /\ n.st.tier[u] = m.st.tier[u] /\ CallsOf(n, u) = CallsOf(m, u)
      /\ n.probes[u] = m.probes[u]
  BY DEF Tied, OthersKept
<1>2. \A v \in Tiers : m.probes[v] # None => n.probes[v] # None
  BY DEF OthersKept
<1>3. \A c \in CallsOf(n, u) : c \in n.calls
  BY DEF CallsOf
<1>4. NoList(m, u) => NoList(n, u)
  BY <1>1 DEF NoList
<1>5. n.st.tier[u].pc = "list" => \E c \in n.calls : CallsOf(n, u) = {c} /\ c.cmd = "list"
  BY <1>1, <1>3 DEF TierTied
<1> QED BY <1>1, <1>2, <1>4, <1>5 DEF TierTied

\* What an operator on tier t leads to, whatever the other tiers wait for.
Leads(m, n, t) == OthersKept(m, n, t) /\ TierTied(n, t) /\ Told(n)

\* So all are tied again once the one worked on is.
LEMMA LeadsTied ==
  ASSUME NEW m, NEW n, NEW t \in Tiers, Tied(m, Tiers \ {t}), Leads(m, n, t)
  PROVE  Tied(n, Tiers) /\ Told(n)
<1>1. Tied(n, Tiers \ {t})
  BY OthersTied DEF Leads
<1> QED BY <1>1 DEF Tied, Leads

-----------------------------------------------------------------------------
(* Publishing *)

\* Warnings and snapshot look at these fields only.
LEMMA SameView ==
  ASSUME NEW a, NEW b, a.selected = b.selected, a.distros = b.distros,
         a.probe.failures = b.probe.failures, a.probe.everAlive = b.probe.everAlive,
         a.failures = b.failures, a.mcpError = b.mcpError, a.cwd = b.cwd
  PROVE  /\ ComputeWarnings(a) = ComputeWarnings(b)
         /\ a.sections = b.sections /\ a.warnings = b.warnings => Build(a) = Build(b)
BY DEF ComputeWarnings, Build, Selected, Answering

\* recomputeWarnings and emit publish the store, and ending a tier after it leaves it published.
LEMMA EmitPublishes ==
  ASSUME NEW st, StoreOK(st)
  PROVE  LET x == Emit(Recompute(st))
         IN  /\ x.disposed = st.disposed
             /\ ~st.disposed => Published(x)
             /\ ~st.disposed => \A tier : Published([x EXCEPT !.tier = tier])
<1> DEFINE w == ComputeWarnings(st)
           r == Recompute(st)
           x == Emit(r)
<1>1. w \in WarningsType /\ [w EXCEPT !.crossing = w.crossing] = w
  BY ComputeWarningsType DEF StoreOK, WarningsType
<1> HIDE DEF w
<1>2. /\ r \in StoreType /\ r.warnings = w /\ r.selected = st.selected /\ r.distros = st.distros
      /\ r.probe = st.probe /\ r.failures = st.failures /\ r.mcpError = st.mcpError
      /\ r.cwd = st.cwd /\ r.sections = st.sections /\ r.disposed = st.disposed
  BY <1>1 DEF Recompute, w, StoreOK, StoreType
<1> HIDE DEF r
<1>3. /\ x.warnings = w /\ x.selected = r.selected /\ x.distros = r.distros
      /\ x.probe = r.probe /\ x.failures = r.failures /\ x.mcpError = r.mcpError
      /\ x.cwd = r.cwd /\ x.sections = r.sections /\ x.disposed = r.disposed
      /\ x.behind = r.disposed /\ x.current = Build(r)
  BY <1>2 DEF Emit, Commit, StoreType
<1>4. x \in StoreType
  BY EmitRecomputeOK DEF StoreOK, r
<1> HIDE DEF x
<1>5. ComputeWarnings(x) = w /\ Build(x) = Build(r)
  BY <1>2, <1>3, SameView DEF w
<1>6. ~st.disposed => Published(x)
  BY <1>1, <1>2, <1>3, <1>5 DEF Published
<1>7. ASSUME ~st.disposed, NEW tier PROVE Published([x EXCEPT !.tier = tier])
  <2> DEFINE y == [x EXCEPT !.tier = tier]
  <2>1. /\ y.warnings = x.warnings /\ y.selected = x.selected /\ y.distros = x.distros
        /\ y.probe = x.probe /\ y.failures = x.failures /\ y.mcpError = x.mcpError
        /\ y.cwd = x.cwd /\ y.sections = x.sections /\ y.behind = x.behind
        /\ y.current = x.current
    BY <1>4 DEF StoreType
  <2> HIDE DEF y
  <2>2. ComputeWarnings(y) = ComputeWarnings(x) /\ Build(y) = Build(x)
    BY <2>1, SameView
  <2>3. Published(y)
    BY <1>6, <1>7, <2>1, <2>2 DEF Published
  <2> QED BY <2>3 DEF y
<1> QED BY <1>2, <1>3, <1>6, <1>7 DEF x, r

-----------------------------------------------------------------------------
(* Operators on the memory *)

\* A store method leaves all tiers as they are tied.
LEMMA OnStoreTied ==
  ASSUME NEW m, MemoryOK(m), NEW st, st.tier = m.st.tier, NEW S, S \subseteq Tiers, Tied(m, S)
  PROVE  /\ Tied(OnStore(m, st), S)
         /\ OnStore(m, st).calls = m.calls /\ OnStore(m, st).probes = m.probes
         /\ OnStore(m, st).st = st
<1>1. /\ OnStore(m, st).calls = m.calls /\ OnStore(m, st).probes = m.probes
      /\ OnStore(m, st).st = st
  BY DEF OnStore, MemoryOK, MemoryType
<1>2. Tied(OnStore(m, st), S)
  BY <1>1 DEF Tied, TierTied, NoList, CallsOf
<1> QED BY <1>1, <1>2

\* A tier that has nothing in flight ends, and everything is published.
LEMMA FinishTierTied ==
  ASSUME NEW m, MemoryOK(m), NEW t \in Tiers, CallsOf(m, t) = {}, m.probes[t] = None
  PROVE  Leads(m, FinishTier(m, t), t)
<1> DEFINE x == Emit(Recompute(m.st))
           tier == [x.tier EXCEPT ![t] = IdleTier]
           y == [x EXCEPT !.tier = tier]
           n == FinishTier(m, t)
<1>1. /\ StoreOK(x) /\ x.tier = m.st.tier
  BY EmitRecomputeOK DEF MemoryOK, KeepsOwner
<1>2. x.disposed = m.st.disposed /\ (~m.st.disposed => Published(y))
  BY EmitPublishes DEF MemoryOK
<1>3. FinishTier(m, t) = OnStore(m, y)
  BY DEF FinishTier
<1> HIDE DEF x
<1>4. y.disposed = x.disposed /\ y.tier = tier
  BY <1>1 DEF StoreOK, StoreType
<1>5. /\ tier[t] = IdleTier /\ \A u \in Tiers \ {t} : tier[u] = m.st.tier[u]
  BY <1>1 DEF StoreOK, StoreType
<1> HIDE DEF y, tier
<1>6. n.st = y /\ n.calls = m.calls /\ n.probes = m.probes
  BY <1>3 DEF OnStore, MemoryOK, MemoryType
<1> HIDE DEF n
<1>7. OthersKept(m, n, t)
  BY <1>4, <1>5, <1>6 DEF OthersKept, CallsOf
<1>8. TierTied(n, t)
  BY <1>4, <1>5, <1>6 DEF TierTied, CallsOf, IdleTier
<1>9. Told(n)
  BY <1>2, <1>4, <1>6 DEF Told
<1> QED BY <1>7, <1>8, <1>9 DEF n, Leads

\* A tier that collects ends with its last call.
LEMMA FinishIfDoneTied ==
  ASSUME NEW m, MemoryOK(m), NEW t \in Tiers, NoList(m, t),
         m.probes[t] = None, m.st.tier[t].pc = "collect"
  PROVE  Leads(m, FinishIfDone(m, t), t)
<1>1. CASE CallsOf(m, t) = {}
  BY <1>1, FinishTierTied DEF FinishIfDone
<1>2. CASE CallsOf(m, t) # {}
  <2>1. FinishIfDone(m, t) = m
    BY <1>2 DEF FinishIfDone
  <2>2. TierTied(m, t)
    BY <1>2 DEF TierTied
  <2> QED BY <2>1, <2>2 DEF Told, Leads, OthersKept
<1> QED BY <1>1, <1>2

\* One tier's record replaced.
LEMMA SetTierKept ==
  ASSUME NEW m, MemoryOK(m), NEW t \in Tiers, NEW r
  PROVE  LET n == OnStore(m, [m.st EXCEPT !.tier[t] = r])
         IN  /\ OthersKept(m, n, t) /\ n.st.tier[t] = r /\ n.calls = m.calls
             /\ n.probes = m.probes /\ n.st.probing = m.st.probing /\ n.st.probe = m.st.probe
<1> DEFINE st == [m.st EXCEPT !.tier[t] = r]
           n == OnStore(m, st)
<1>1. /\ st.tier[t] = r /\ \A u \in Tiers \ {t} : st.tier[u] = m.st.tier[u]
      /\ st.probing = m.st.probing /\ st.probe = m.st.probe
  BY DEF MemoryOK, StoreOK, StoreType
<1> HIDE DEF st
<1>2. n.st = st /\ n.calls = m.calls /\ n.probes = m.probes
  BY DEF OnStore, MemoryOK, MemoryType
<1> HIDE DEF n
<1>3. OthersKept(m, n, t)
  BY <1>1, <1>2 DEF OthersKept, CallsOf
<1> QED BY <1>1, <1>2, <1>3 DEF n, st

\* Calls issued for one tier.
LEMMA IssueKept ==
  ASSUME NEW m, MemoryOK(m), NEW t \in Tiers, NEW cmds
  PROVE  LET n == Issue(m, t, cmds)
         IN  /\ OthersKept(m, n, t) /\ n.st = m.st /\ n.probes = m.probes
             /\ "list" \notin cmds /\ NoList(m, t) => NoList(n, t)
<1> DEFINE issued == {Call(t, cmd, m.st.tier[t].distro, m.st.tier[t].epoch) : cmd \in cmds}
           n == Issue(m, t, cmds)
<1>1. \A c \in issued : c.tier = t /\ c.cmd \in cmds
  BY DEF Call
<1>2. n.calls = m.calls \union issued /\ n.st = m.st /\ n.probes = m.probes
  BY DEF Issue, MemoryOK, MemoryType
<1> HIDE DEF issued, n
<1>3. OthersKept(m, n, t)
  BY <1>1, <1>2 DEF OthersKept, CallsOf
<1>4. "list" \notin cmds /\ NoList(m, t) => NoList(n, t)
  BY <1>1, <1>2 DEF NoList, CallsOf
<1> QED BY <1>2, <1>3, <1>4 DEF n

\* Two operators on one tier leave the others alone in sequence.
LEMMA KeptTwice ==
  ASSUME NEW a, NEW b, NEW c, NEW t, OthersKept(a, b, t), OthersKept(b, c, t)
  PROVE  OthersKept(a, c, t)
BY DEF OthersKept

\* No collector of a tier is the list.
LEMMA NoListCommands ==
  \A t \in Tiers : "list" \notin DistroCommands(t) /\ "list" \notin HostCommands(t)
BY DEF DistroCommands, HostCommands, Tiers

\* An operator on the same tier before one that leads somewhere.
LEMMA LeadsOn ==
  ASSUME NEW a, NEW b, NEW c, NEW t, OthersKept(a, b, t), Leads(b, c, t)
  PROVE  Leads(a, c, t)
BY KeptTwice DEF Leads

\* The step after the gate, with either verdict.
LEMMA ProceedTied ==
  ASSUME NEW m, MemoryOK(m), wsl \in [Distros -> DistroState], NEW t \in Tiers,
         NEW alive \in BOOLEAN, m.st.tier[t].pc \in Capturing, NoList(m, t), m.probes[t] = None
  PROVE  Leads(m, Proceed(m, t, alive), t)
<1> DEFINE r == [m.st.tier[t] EXCEPT !.pc = "collect", !.on = None]
           collecting == OnStore(m, [m.st EXCEPT !.tier[t] = r])
           issued == Issue(collecting, t, DistroCommands(t))
           asked == IF alive THEN issued ELSE collecting
<1>1. /\ r \in TierType /\ r.pc = "collect" /\ Captures(m.st, r.distro, r.epoch)
  BY TierRecord DEF TierType, MemoryOK, Owned
<1>2. Proceed(m, t, alive) = FinishIfDone(asked, t)
  BY DEF Proceed
<1> HIDE DEF r
<1>3. /\ MemoryOK(collecting) /\ collecting.st.tier[t] = r /\ OthersKept(m, collecting, t)
      /\ collecting.calls = m.calls /\ collecting.probes = m.probes
  BY <1>1, SetTierOK, SetTierKept
<1> HIDE DEF collecting
<1>4. NoList(collecting, t)
  BY <1>3 DEF NoList, CallsOf
<1>5. MemoryOK(issued) /\ issued.st = collecting.st
  BY <1>1, <1>3, IssueOK, CommandTypes
<1>6. /\ issued.probes = collecting.probes /\ OthersKept(collecting, issued, t)
      /\ NoList(issued, t)
  BY <1>3, <1>4, IssueKept, NoListCommands
<1> HIDE DEF issued
<1>7. OthersKept(m, asked, t)
  BY <1>3, <1>6, KeptTwice
<1>8. /\ MemoryOK(asked) /\ NoList(asked, t) /\ asked.probes[t] = None
      /\ asked.st.tier[t].pc = "collect"
  BY <1>1, <1>3, <1>4, <1>5, <1>6
<1> HIDE DEF asked
<1> QED BY <1>2, <1>7, <1>8, FinishIfDoneTied, LeadsOn

\* A probe sent: the tier waits for it.
LEMMA SendProbeTied ==
  ASSUME NEW m, MemoryOK(m), NEW t \in Tiers, m.st.tier[t].pc \in Capturing,
         m.st.tier[t].distro # None, NoList(m, t)
  PROVE  Leads(m, SendProbe(m, t), t)
<1> DEFINE p == [m.st EXCEPT !.probing = t]
           asked == OnStore(m, p)
           r == [asked.st.tier[t] EXCEPT !.pc = "gate", !.on = t]
           waits == OnStore(asked, [asked.st EXCEPT !.tier[t] = r])
           d == m.st.tier[t].distro
           n == SendProbe(m, t)
<1>1. KeepsOwner(m.st, p) /\ p.tier = m.st.tier
  BY SetProbingOK DEF MemoryOK, FrameKept
<1>2. MemoryOK(asked) /\ asked.st = p /\ asked.calls = m.calls /\ asked.probes = m.probes
  BY <1>1, OnStoreOK DEF OnStore, MemoryOK, MemoryType
<1>3. n = [waits EXCEPT !.probes[t] = d] /\ d # None
  BY DEF SendProbe
<1> HIDE DEF p, asked, d, n
<1>4. /\ r \in TierType /\ r.pc = "gate" /\ r.on = t
      /\ Captures(asked.st, r.distro, r.epoch)
  <2>1. asked.st.tier[t] \in TierType /\ asked.st.tier[t].pc \in Capturing
    BY <1>1, <1>2, TierRecord
  <2>2. Captures(asked.st, asked.st.tier[t].distro, asked.st.tier[t].epoch)
    BY <1>2, <2>1 DEF MemoryOK, Owned
  <2> QED BY <2>1, <2>2 DEF TierType
<1> HIDE DEF r
<1>5. /\ MemoryOK(waits) /\ OthersKept(asked, waits, t) /\ waits.st.tier[t] = r
      /\ waits.calls = m.calls /\ waits.probes = m.probes
  BY <1>2, <1>4, SetTierOK, SetTierKept
<1> HIDE DEF waits
<1>6. /\ n.st = waits.st /\ n.calls = m.calls /\ n.probes[t] = d
      /\ \A u \in Tiers \ {t} : n.probes[u] = m.probes[u]
  BY <1>3, <1>5 DEF MemoryOK, MemoryType
<1>7. OthersKept(m, n, t)
  BY <1>1, <1>2, <1>3, <1>5, <1>6 DEF OthersKept, CallsOf
<1>8. NoList(n, t)
  BY <1>6 DEF NoList, CallsOf
<1>9. TierTied(n, t)
  BY <1>3, <1>4, <1>5, <1>6, <1>8 DEF TierTied
<1>10. Told(n)
  BY <1>4, <1>5, <1>6 DEF Told
<1> QED BY <1>7, <1>9, <1>10 DEF Leads, n

\* The gate: a tier it does not let through waits for a probe that is in flight.
LEMMA GateTied ==
  ASSUME NEW m, MemoryOK(m), wsl \in [Distros -> DistroState], NEW t \in Tiers, Link(m),
         m.st.tier[t].pc \in Capturing, m.st.tier[t].distro # None, NoList(m, t),
         m.probes[t] = None
  PROVE  Leads(m, Gate(m, t), t)
<1> DEFINE r == [m.st.tier[t] EXCEPT !.pc = "gate", !.on = m.st.probing]
           joins == OnStore(m, [m.st EXCEPT !.tier[t] = r])
<1>1. \/ Gate(m, t) = Proceed(m, t, TRUE)
      \/ Gate(m, t) = Proceed(m, t, FALSE)
      \/ Gate(m, t) = joins /\ m.st.probing # None
      \/ Gate(m, t) = SendProbe(m, t)
  BY DEF Gate
<1>2. r.pc = "gate" /\ r.on = m.st.probing
  BY TierRecord DEF TierType
<1> HIDE DEF r
<1>3. ASSUME m.st.probing # None PROVE Leads(m, joins, t)
  <2>1. /\ OthersKept(m, joins, t) /\ joins.st.tier[t] = r /\ joins.calls = m.calls
        /\ joins.probes = m.probes
    <3> DEFINE n == OnStore(m, [m.st EXCEPT !.tier[t] = r])
    <3>1. /\ OthersKept(m, n, t) /\ n.st.tier[t] = r /\ n.calls = m.calls
          /\ n.probes = m.probes
      BY SetTierKept
    <3> QED BY <3>1
  <2> HIDE DEF joins
  <2>2. m.st.probing \in Tiers /\ m.probes[m.st.probing] # None
    BY <1>3 DEF MemoryOK, StoreOK, StoreType, Link
  <2>3. NoList(joins, t)
    BY <2>1 DEF NoList, CallsOf
  <2>4. TierTied(joins, t)
    BY <1>2, <2>1, <2>2, <2>3 DEF TierTied
  <2>5. Told(joins)
    BY <1>2, <2>1 DEF Told
  <2> QED BY <2>1, <2>4, <2>5 DEF Leads
<1> HIDE DEF joins
<1> QED BY <1>1, <1>3, ProceedTied, SendProbeTied

\* The body of a refresh, of a tier with nothing in flight.
LEMMA TierBodyTied ==
  ASSUME NEW m, MemoryOK(m), wsl \in [Distros -> DistroState], NEW t \in Tiers, Link(m),
         CallsOf(m, t) = {}, m.probes[t] = None
  PROVE  Leads(m, TierBody(m, t), t)
<1> DEFINE d == RunningSelected(m.st)
           r == [pc |-> "begun", distro |-> d, epoch |-> m.st.epoch, on |-> None]
           begun == OnStore(m, [m.st EXCEPT !.tier[t] = r])
           issued == Issue(begun, t, HostCommands(t))
<1>1. TierBody(m, t) = IF d = None THEN FinishTier(m, t) ELSE Gate(issued, t)
  BY DEF TierBody
<1>2. CASE d = None
  BY <1>1, <1>2, FinishTierTied
<1>3. CASE d # None
  <2>1. /\ r \in TierType /\ r.pc = "begun" /\ r.distro = d
        /\ Captures(m.st, r.distro, r.epoch)
    BY <1>3 DEF TierType, Captures, RunningSelected, MemoryOK, StoreOK, StoreType, MaybeDistro
  <2> HIDE DEF r
  <2>2. /\ MemoryOK(begun) /\ begun.st.tier[t] = r /\ SameProbe(m, begun)
        /\ OthersKept(m, begun, t) /\ begun.calls = m.calls
    BY <2>1, SetTierOK, SetTierSame, SetTierKept
  <2> HIDE DEF begun, d
  <2>3. NoList(begun, t)
    BY <2>2 DEF NoList, CallsOf
  <2>4. /\ MemoryOK(issued) /\ issued.st = begun.st /\ SameProbe(begun, issued)
        /\ OthersKept(begun, issued, t) /\ NoList(issued, t)
    BY <2>1, <2>2, <2>3, IssueOK, IssueSame, IssueKept, CommandTypes, NoListCommands
  <2> HIDE DEF issued
  <2>5. Link(issued) /\ OthersKept(m, issued, t) /\ issued.probes[t] = None
    BY <2>2, <2>4, SameProbeKeepsLink, KeptTwice DEF SameProbe
  <2>6. issued.st.tier[t] = r /\ r.pc \in Capturing /\ r.distro # None
    BY <1>3, <2>1, <2>2, <2>4
  <2>7. Leads(issued, Gate(issued, t), t)
    BY <2>4, <2>5, <2>6, GateTied
  <2> QED BY <1>1, <1>3, <2>5, <2>7, LeadsOn
<1> QED BY <1>2, <1>3

\* A refresh, in flight already or not.
LEMMA RefreshTied ==
  ASSUME NEW m, MemoryOK(m), wsl \in [Distros -> DistroState], NEW t \in Tiers, Link(m),
         Tied(m, Tiers), Told(m)
  PROVE  Tied(Refresh(m, t), Tiers) /\ Told(Refresh(m, t))
<1> DEFINE r == [IdleTier EXCEPT !.pc = "list"]
           listing == OnStore(m, [m.st EXCEPT !.tier[t] = r])
           issued == Issue(listing, t, {"list"})
<1>1. r \in TierType /\ r.pc = "list"
  BY DEF IdleTier, TierType, MaybeDistro
<1>2. \/ Refresh(m, t) = m
      \/ m.st.tier[t].pc = "idle" /\ Refresh(m, t) \in {issued, TierBody(m, t)}
  BY DEF Refresh, Busy
<1> HIDE DEF r
<1>3. ASSUME m.st.tier[t].pc = "idle"
      PROVE  CallsOf(m, t) = {} /\ m.probes[t] = None
  BY <1>3 DEF Tied, TierTied
<1>4. ASSUME m.st.tier[t].pc = "idle" PROVE Leads(m, issued, t)
  <2> DEFINE c == Call(t, "list", listing.st.tier[t].distro, listing.st.tier[t].epoch)
  <2>1. /\ MemoryOK(listing) /\ OthersKept(m, listing, t) /\ listing.st.tier[t] = r
        /\ listing.calls = m.calls /\ listing.probes = m.probes
    <3>1. MemoryOK(listing)
      BY <1>1, SetTierOK
    <3>2. /\ OthersKept(m, listing, t) /\ listing.st.tier[t] = r
          /\ listing.calls = m.calls /\ listing.probes = m.probes
      BY SetTierKept
    <3> QED BY <3>1, <3>2
  <2>2. issued.calls = listing.calls \union {c} /\ c.tier = t /\ c.cmd = "list"
    <3>1. issued.calls = listing.calls \union
            {Call(t, cmd, listing.st.tier[t].distro, listing.st.tier[t].epoch) : cmd \in {"list"}}
      BY <2>1 DEF Issue, MemoryOK, MemoryType
    <3> QED BY <3>1 DEF Call
  <2> HIDE DEF listing, c
  <2>3. OthersKept(listing, issued, t) /\ issued.st = listing.st /\ issued.probes = m.probes
    BY <2>1, IssueKept
  <2> HIDE DEF issued
  <2>4. CallsOf(issued, t) = {c}
    BY <1>3, <1>4, <2>1, <2>2 DEF CallsOf
  <2>5. TierTied(issued, t)
    BY <1>1, <1>3, <1>4, <2>1, <2>2, <2>3, <2>4 DEF TierTied
  <2>6. Told(issued)
    BY <1>1, <2>1, <2>3 DEF Told
  <2>7. OthersKept(m, issued, t)
    BY <2>1, <2>3, KeptTwice
  <2> QED BY <2>5, <2>6, <2>7 DEF Leads
<1> HIDE DEF issued
<1>5. Refresh(m, t) = m \/ Leads(m, Refresh(m, t), t)
  BY <1>2, <1>3, <1>4, TierBodyTied
<1>6. Tied(m, Tiers \ {t})
  BY DEF Tied
<1> QED BY <1>5, <1>6, LeadsTied

\* What a tier does after the list; the first list ends by publishing.
LEMMA AfterListTied ==
  ASSUME NEW m, MemoryOK(m), wsl \in [Distros -> DistroState], Link(m),
         NEW t \in Tiers \union {"init"},
         t = "init" => Tied(m, Tiers),
         t # "init" => Tied(m, Tiers \ {t}) /\ CallsOf(m, t) = {} /\ m.probes[t] = None
  PROVE  Tied(AfterList(m, t), Tiers) /\ Told(AfterList(m, t))
<1>1. CASE t = "init"
  <2> DEFINE st == Emit(Recompute(m.st))
             n == OnStore(m, st)
  <2>1. /\ st.tier = m.st.tier /\ st.disposed = m.st.disposed
        /\ ~m.st.disposed => Published(st)
    BY EmitRecomputeOK, EmitPublishes DEF MemoryOK, KeepsOwner
  <2>2. AfterList(m, t) = n
    BY <1>1 DEF AfterList
  <2> HIDE DEF st
  <2>3. Tied(n, Tiers) /\ n.st = st
    BY <1>1, <2>1, OnStoreTied
  <2>4. Told(n)
    BY <2>1, <2>3 DEF Told
  <2> QED BY <2>2, <2>3, <2>4
<1>2. CASE t # "init"
  <2>1. t \in Tiers /\ Leads(m, TierBody(m, t), t)
    BY <1>2, TierBodyTied
  <2> QED BY <1>2, <2>1, LeadsTied DEF AfterList
<1> QED BY <1>1, <1>2

\* While a probe is being answered: a tier is tied, or waits for the probe of t.
Waits(m, t, u) ==
  \/ TierTied(m, u)
  \/ m.st.tier[u].pc = "gate" /\ m.st.tier[u].on = t /\ NoList(m, u)

\* A tier that waited for the probe goes on; those behind it wait on.
LEMMA ResumeTied ==
  ASSUME NEW m, MemoryOK(m), wsl \in [Distros -> DistroState], NEW t \in Tiers,
         NEW u \in Tiers, NEW alive \in BOOLEAN, Told(m),
         \A v \in Tiers : m.probes[v] = None /\ Waits(m, t, v)
  PROVE  LET n == ResumeWaiter(m, t, u, alive)
         IN  /\ Told(n) /\ TierTied(n, u)
             /\ \A v \in Tiers : n.probes[v] = None /\ Waits(n, t, v)
             /\ \A v \in Tiers : TierTied(m, v) => TierTied(n, v)
<1> DEFINE n == ResumeWaiter(m, t, u, alive)
<1>1. CASE ~(m.st.tier[u].pc = "gate" /\ m.st.tier[u].on = t)
  <2>1. n = m /\ TierTied(m, u)
    BY <1>1 DEF ResumeWaiter, Waits
  <2> QED BY <2>1
<1>2. CASE m.st.tier[u].pc = "gate" /\ m.st.tier[u].on = t
  <2>1. n = Proceed(m, u, alive)
    BY <1>2 DEF ResumeWaiter
  <2>2. NoList(m, u) /\ m.probes[u] = None /\ m.st.tier[u].pc \in Capturing
    BY <1>2 DEF Waits, TierTied
  <2>3. Leads(m, n, u) /\ SameProbe(m, n)
    BY <2>1, <2>2, ProceedTied, ProceedSame
  <2> HIDE DEF n
  <2>4. OthersKept(m, n, u) /\ TierTied(n, u) /\ Told(n) /\ n.probes = m.probes
    BY <2>3 DEF Leads, SameProbe
  <2>5. ASSUME NEW v \in Tiers, v # u
        PROVE  /\ Waits(n, t, v)
               /\ TierTied(m, v) => TierTied(n, v)
    <3>1. TierTied(m, v) => TierTied(n, v)
      <4>1. TierTied(m, v) => Tied(m, {v})
        BY DEF Tied
      <4>2. Tied(m, {v}) => Tied(n, {v})
        BY <2>4, <2>5, OthersTied
      <4>3. Tied(n, {v}) => TierTied(n, v)
        BY DEF Tied
      <4> QED BY <4>1, <4>2, <4>3
    <3>2. n.st.tier[v] = m.st.tier[v] /\ CallsOf(n, v) = CallsOf(m, v)
      BY <2>4, <2>5 DEF OthersKept
    <3>3. Waits(m, t, v)
      OBVIOUS
    <3> QED BY <3>1, <3>2, <3>3 DEF Waits, NoList
  <2>6. Waits(n, t, u)
    BY <2>4 DEF Waits
  <2> QED BY <2>4, <2>5, <2>6 DEF n
<1> QED BY <1>1, <1>2

-----------------------------------------------------------------------------
(* Each handler *)

QInv == LInv /\ Tied(Memory, Tiers) /\ Told(Memory)

\* A step that installs a memory establishes both of that memory.
LEMMA BecomeTied ==
  ASSUME NEW m, MemoryOK(m), Tied(m, Tiers) /\ Told(m), Become(m)
  PROVE  Tied(Memory, Tiers)' /\ Told(Memory)'
<1>1. Memory' = m
  BY DEF Become, Memory, MemoryOK, MemoryType
<1> QED BY <1>1

\* A store method between a reply and what follows it: the other tiers stay tied, and
\* the tier of the reply has one call less.
LEMMA ReplyTied ==
  ASSUME QInv, NEW c \in calls, NEW st, st.tier = store.tier
  PROVE  LET m == OnStore(Return(c), st)
         IN  /\ Tied(m, Tiers \ {c.tier})
             /\ CallsOf(m, c.tier) = CallsOf(Memory, c.tier) \ {c}
             /\ m.st = st /\ m.probes = probes
<1> DEFINE m == OnStore(Return(c), st)
<1>1. /\ m.st = st /\ m.calls = calls \ {c} /\ m.probes = probes
      /\ Memory.st = store /\ Memory.calls = calls /\ Memory.probes = probes
  BY DEF OnStore, Return, Memory
<1> HIDE DEF m
<1>2. CallsOf(m, c.tier) = CallsOf(Memory, c.tier) \ {c}
  BY <1>1 DEF CallsOf
<1>3. ASSUME NEW u \in Tiers \ {c.tier} PROVE TierTied(m, u)
  <2>1. CallsOf(m, u) = CallsOf(Memory, u) /\ m.st.tier[u] = Memory.st.tier[u]
    BY <1>1, <1>3 DEF CallsOf
  <2>2. TierTied(Memory, u)
    BY DEF QInv, Tied
  <2>3. \A x : CallsOf(m, u) = {x} => x \in m.calls
    BY DEF CallsOf
  <2>4. NoList(Memory, u) => NoList(m, u)
    BY <2>1 DEF NoList
  <2>5. m.st.tier[u].pc = "list" => \E x \in m.calls : CallsOf(m, u) = {x} /\ x.cmd = "list"
    BY <2>1, <2>2, <2>3 DEF TierTied
  <2> QED BY <1>1, <2>1, <2>2, <2>4, <2>5 DEF TierTied
<1> QED BY <1>1, <1>2, <1>3 DEF Tied, m

\* A list call of a tier is its only one, and the tier has no probe.
LEMMA ListCallTied ==
  ASSUME QInv, NEW c \in calls, c.cmd = "list", c.tier \in Tiers
  PROVE  CallsOf(Memory, c.tier) = {c} /\ probes[c.tier] = None
<1> DEFINE t == c.tier
<1>1. c \in CallsOf(Memory, t) /\ Memory.probes = probes
  BY DEF CallsOf, Memory
<1>2. TierTied(Memory, t) /\ Memory.st.tier[t] \in TierType
  BY TierRecord DEF QInv, LInv, Inv, Tied
<1>3. ~NoList(Memory, t)
  BY <1>1 DEF NoList
<1>4. Memory.st.tier[t].pc = "list"
  BY <1>1, <1>2, <1>3 DEF TierTied, TierType
<1> QED BY <1>1, <1>2, <1>4 DEF TierTied

\* The tier of a collector's call waits for a probe or collects.
LEMMA CollectorCallTied ==
  ASSUME QInv, NEW c \in calls, c.cmd # "list", c.tier \in Tiers
  PROVE  /\ Memory.st.tier[c.tier].pc \in {"gate", "collect"}
         /\ NoList(Memory, c.tier)
<1> DEFINE t == c.tier
<1>1. c \in CallsOf(Memory, t) /\ Memory.probes = probes
  BY DEF CallsOf, Memory
<1>2. TierTied(Memory, t) /\ Memory.st.tier[t] \in TierType
  BY TierRecord DEF QInv, LInv, Inv, Tied
<1>3. Memory.st.tier[t].pc # "list"
  BY <1>1, <1>2 DEF TierTied
<1>4. Memory.st.tier[t].pc \in {"gate", "collect"}
  BY <1>1, <1>2, <1>3 DEF TierTied, TierType
<1> QED BY <1>2, <1>4 DEF TierTied

\* What a collector's answer leads to, once its store method has run.
LEMMA CollectorTied ==
  ASSUME QInv, NEW c \in calls, c.cmd # "list", c.tier \in Tiers, NEW st,
         st.tier = store.tier, MemoryOK(OnStore(Return(c), st))
  PROVE  LET n == FinishIfDone(OnStore(Return(c), st), c.tier)
         IN  Tied(n, Tiers) /\ Told(n)
<1> DEFINE t == c.tier
           m == OnStore(Return(c), st)
<1>1. /\ Tied(m, Tiers \ {t}) /\ CallsOf(m, t) = CallsOf(Memory, t) \ {c}
      /\ m.st.tier = store.tier /\ m.probes = probes
  BY ReplyTied
<1>2. /\ store.tier[t].pc \in {"gate", "collect"} /\ NoList(Memory, t)
      /\ Memory.st = store /\ Memory.probes = probes /\ TierTied(Memory, t)
  BY CollectorCallTied DEF Memory, QInv, Tied
<1> HIDE DEF m
<1>3. NoList(m, t)
  BY <1>1, <1>2 DEF NoList
<1>4. CASE store.tier[t].pc = "gate"
  <2>1. FinishIfDone(m, t) = m /\ Told(m)
    BY <1>1, <1>4 DEF FinishIfDone, Told
  <2>2. TierTied(m, t)
    BY <1>1, <1>2, <1>3, <1>4 DEF TierTied
  <2>3. Tied(m, Tiers)
    BY <1>1, <2>2 DEF Tied
  <2> QED BY <2>1, <2>3 DEF m
<1>5. CASE store.tier[t].pc = "collect"
  <2>1. m.probes[t] = None /\ m.st.tier[t].pc = "collect"
    BY <1>1, <1>2, <1>5 DEF TierTied
  <2>2. Leads(m, FinishIfDone(m, t), t)
    BY <1>3, <2>1, FinishIfDoneTied DEF m
  <2> QED BY <1>1, <2>2, LeadsTied DEF m
<1> QED BY <1>2, <1>4, <1>5

\* At the start the first list is on its way and nothing else.
LEMMA InitTied == Init => QInv
<1> SUFFICES ASSUME Init PROVE Tied(Memory, Tiers) /\ Told(Memory)
  BY InitLink DEF QInv
<1>1. Memory.probes = [t \in Tiers |-> None] /\ Memory.st.tier = [t \in Tiers |-> IdleTier]
  BY DEF Init, InitStore, Recompute, Memory
<1>2. Memory.calls = {Call("init", "list", None, 0)} /\ Call("init", "list", None, 0).tier = "init"
  BY DEF Init, Memory, Call
<1>3. \A t \in Tiers : CallsOf(Memory, t) = {}
  BY <1>2 DEF CallsOf, Tiers
<1>4. Tied(Memory, Tiers)
  BY <1>1, <1>3 DEF Tied, TierTied, IdleTier
<1> QED BY <1>2, <1>4 DEF Told

\* A timer or a button that refreshes a tier.
LEMMA PollTied ==
  ASSUME QInv, NEW t \in Tiers, Poll(t)
  PROVE  Tied(Memory, Tiers)' /\ Told(Memory)'
<1>1. MemoryOK(Refresh(Memory, t)) /\ Tied(Refresh(Memory, t), Tiers) /\ Told(Refresh(Memory, t))
  BY RefreshOK, RefreshTied DEF QInv, LInv, Inv
<1> QED BY <1>1, BecomeTied DEF Poll

\* A switch publishes, and refreshes the tiers that are not on their way.
LEMMA SetDistroTied ==
  ASSUME QInv, NEW d \in Distros, SetDistro(d)
  PROVE  Tied(Memory, Tiers)' /\ Told(Memory)'
<1> DEFINE st == SelectInternal(store, d)
           told == Emit(Recompute(st))
           chosen == OnStore(Memory, told)
           fast == Refresh(chosen, "fast")
           medium == Refresh(fast, "medium")
           slow == Refresh(medium, "slow")
<1>1. /\ StoreOK(store) /\ Memory.st = store /\ MemoryOK(Memory) /\ Link(Memory)
      /\ Tied(Memory, Tiers)
  BY DEF QInv, LInv, Inv, MemoryOK, Memory
<1>2. Become(slow)
  BY DEF SetDistro
<1>3. KeepsOwner(store, st) /\ st.probing = store.probing
  BY <1>1, SelectInternalOK, SelectionKeepsProbing
<1> HIDE DEF st
<1>4. /\ KeepsOwner(store, told) /\ told.probing = store.probing /\ told.tier = store.tier
      /\ told.disposed \/ Published(told)
  BY <1>1, <1>3, EmitRecomputeOK, ReportsKeepProbing, KeepsOwnerTransitive, EmitPublishes
  DEF KeepsOwner
<1> HIDE DEF told
<1>5. MemoryOK(chosen) /\ Link(chosen)
  BY <1>1, <1>4, OnStoreOK, OnStoreSame, SameProbeKeepsLink
<1>6. Tied(chosen, Tiers) /\ chosen.st = told
  BY <1>1, <1>4, OnStoreTied
<1> HIDE DEF chosen
<1>7. Told(chosen)
  BY <1>4, <1>6 DEF Told
<1>8. wsl \in [Distros -> DistroState] /\ {"fast", "medium", "slow"} = Tiers
  BY DEF QInv, LInv, Inv, Tiers
<1>9. MemoryOK(fast) /\ Link(fast) /\ Tied(fast, Tiers) /\ Told(fast)
  BY <1>5, <1>6, <1>7, <1>8, RefreshOK, RefreshLink, RefreshTied
<1> HIDE DEF fast
<1>10. MemoryOK(medium) /\ Link(medium) /\ Tied(medium, Tiers) /\ Told(medium)
  BY <1>8, <1>9, RefreshOK, RefreshLink, RefreshTied
<1> HIDE DEF medium
<1>11. MemoryOK(slow) /\ Tied(slow, Tiers) /\ Told(slow)
  BY <1>8, <1>10, RefreshOK, RefreshTied
<1> HIDE DEF slow
<1> QED BY <1>2, <1>11, BecomeTied

\* The list arriving or failing, after its store method has run.
LEMMA ListTied ==
  ASSUME QInv, NEW c \in calls, c.cmd = "list", NEW st, KeepsOwner(store, st),
         st.probing = store.probing, Become(AfterList(OnStore(Return(c), st), c.tier))
  PROVE  Tied(Memory, Tiers)' /\ Told(Memory)'
<1> DEFINE m == OnStore(Return(c), st)
<1>1. /\ c.tier \in Tiers \union {"init"} /\ "init" \notin Tiers
      /\ MemoryOK(Return(c)) /\ Return(c).st = store /\ wsl \in [Distros -> DistroState]
  BY CallFacts, ReturnOK DEF QInv, LInv, Inv, Tiers
<1>2. MemoryOK(m) /\ Link(m)
  BY <1>1, OnStoreOK, ReplyLink DEF QInv
<1>3. /\ Tied(m, Tiers \ {c.tier}) /\ CallsOf(m, c.tier) = CallsOf(Memory, c.tier) \ {c}
      /\ m.probes = probes
  BY ReplyTied DEF KeepsOwner
<1> HIDE DEF m
<1>4. c.tier = "init" => Tied(m, Tiers)
  BY <1>1, <1>3 DEF Tied
<1>5. c.tier # "init" => CallsOf(m, c.tier) = {} /\ m.probes[c.tier] = None
  <2> SUFFICES ASSUME c.tier # "init" PROVE CallsOf(m, c.tier) = {} /\ m.probes[c.tier] = None
    OBVIOUS
  <2>1. CallsOf(Memory, c.tier) = {c} /\ probes[c.tier] = None
    BY <1>1, ListCallTied
  <2> QED BY <1>3, <2>1
<1>6. /\ Tied(AfterList(m, c.tier), Tiers) /\ Told(AfterList(m, c.tier))
  BY <1>1, <1>2, <1>3, <1>4, <1>5, AfterListTied
<1>7. MemoryOK(AfterList(m, c.tier)) /\ Become(AfterList(m, c.tier))
  BY <1>1, <1>2, AfterListOK DEF m
<1> QED BY <1>6, <1>7, BecomeTied

\* The distro list arriving.
LEMMA ListReplyTied ==
  ASSUME QInv, NEW c \in calls, ListReply(c)
  PROVE  Tied(Memory, Tiers)' /\ Told(Memory)'
<1>1. PICK list \in Read(c), first \in Distros :
        Become(AfterList(
          OnStore(Return(c), ClearRunnerFailure(ApplyDistroList(store, list, first), "list")),
          c.tier))
  BY DEF ListReply
<1> DEFINE listed == ApplyDistroList(store, list, first)
           st == ClearRunnerFailure(listed, "list")
<1>2. c.cmd = "list" /\ list \in [Distros -> DistroState] /\ StoreOK(store) /\ "list" \in Commands
  BY CallFacts DEF ListReply, QInv, LInv, Inv, MemoryOK, Memory, Commands
<1>3. KeepsOwner(store, listed) /\ listed.probing = store.probing
  BY <1>2, ApplyDistroListOK, SelectionKeepsProbing
<1> HIDE DEF listed
<1>4. KeepsOwner(listed, st) /\ st.probing = store.probing
  BY <1>2, <1>3, ClearRunnerFailureOK, FrameKeepsOwner, FailuresKeepProbing DEF KeepsOwner
<1>5. Become(AfterList(OnStore(Return(c), st), c.tier))
  BY <1>1 DEF listed
<1> HIDE DEF st
<1>6. KeepsOwner(store, st)
  BY <1>2, <1>3, <1>4, KeepsOwnerTransitive
<1> QED BY <1>2, <1>4, <1>5, <1>6, ListTied

\* The distro list failing.
LEMMA ListFailureTied ==
  ASSUME QInv, NEW c \in calls, ListFailure(c)
  PROVE  Tied(Memory, Tiers)' /\ Told(Memory)'
<1> DEFINE st == NoteRunnerFailure(store, "list")
<1>1. c.cmd = "list" /\ StoreOK(store) /\ "list" \in Commands
  BY DEF ListFailure, QInv, LInv, Inv, MemoryOK, Memory, Commands
<1>2. KeepsOwner(store, st) /\ st.probing = store.probing
  BY <1>1, NoteRunnerFailureOK, FrameKeepsOwner, FailuresKeepProbing
<1>3. Become(AfterList(OnStore(Return(c), st), c.tier))
  BY DEF ListFailure
<1> HIDE DEF st
<1> QED BY <1>1, <1>2, <1>3, ListTied

\* A collector answering.
LEMMA CollectorReplyTied ==
  ASSUME QInv, NEW c \in calls, CollectorReply(c)
  PROVE  Tied(Memory, Tiers)' /\ Told(Memory)'
<1>1. PICK list \in (IF c.cmd = "details" THEN Read(c) ELSE {wsl}) :
        Become(FinishIfDone(
          OnStore(Return(c),
                  ClearRunnerFailure(ApplyResult(store, c, list[c.distro]), c.cmd)), c.tier))
  BY DEF CollectorReply
<1> DEFINE reported == list[c.distro]
           filled == ApplyResult(store, c, reported)
           st == ClearRunnerFailure(filled, c.cmd)
           m == OnStore(Return(c), st)
<1>2. /\ list \in [Distros -> DistroState] /\ c.tier \in Tiers /\ c.cmd \in Commands
      /\ MemoryOK(Return(c)) /\ Return(c).st = store /\ StoreOK(store) /\ c.cmd # "list"
  BY CallFacts, ReturnOK DEF CollectorReply, QInv, LInv, Inv, MemoryOK, Memory
<1>3. c.distro \in Distros => reported \in DistroState
  BY <1>2
<1> HIDE DEF reported
<1>4. KeepsOwner(store, filled)
  BY <1>2, <1>3, CallFacts, ApplyResultOK DEF QInv, LInv
<1> HIDE DEF filled
<1>5. KeepsOwner(filled, st)
  BY <1>2, <1>4, ClearRunnerFailureOK, FrameKeepsOwner DEF KeepsOwner
<1> HIDE DEF st
<1>6. MemoryOK(m) /\ st.tier = store.tier
  BY <1>2, <1>4, <1>5, KeepsOwnerTransitive, OnStoreOK DEF KeepsOwner
<1>7. Tied(FinishIfDone(m, c.tier), Tiers) /\ Told(FinishIfDone(m, c.tier))
  BY <1>2, <1>6, CollectorTied
<1>8. MemoryOK(FinishIfDone(m, c.tier))
  BY <1>2, <1>6, FinishIfDoneOK
<1>9. Become(FinishIfDone(m, c.tier))
  BY <1>1 DEF m, st, filled, reported
<1> QED BY <1>7, <1>8, <1>9, BecomeTied

\* A collector failing.
LEMMA CollectorFailureTied ==
  ASSUME QInv, NEW c \in calls, CollectorFailure(c)
  PROVE  Tied(Memory, Tiers)' /\ Told(Memory)'
<1> DEFINE marked == MarkFailed(store, c)
           st == NoteRunnerFailure(marked, c.cmd)
           m == OnStore(Return(c), st)
<1>1. Become(FinishIfDone(m, c.tier))
  BY DEF CollectorFailure
<1>2. /\ c \in CallType /\ c.cmd \in Commands /\ c.tier \in Tiers /\ c.cmd # "list"
      /\ MemoryOK(Return(c)) /\ Return(c).st = store /\ StoreOK(store)
  BY CallFacts, ReturnOK DEF CollectorFailure, QInv, LInv, Inv, MemoryOK, Memory
<1>3. KeepsOwner(store, marked)
  BY <1>2, MarkFailedOK
<1> HIDE DEF marked
<1>4. KeepsOwner(marked, st)
  BY <1>2, <1>3, NoteRunnerFailureOK, FrameKeepsOwner DEF KeepsOwner
<1> HIDE DEF st
<1>5. MemoryOK(m) /\ st.tier = store.tier
  BY <1>2, <1>3, <1>4, KeepsOwnerTransitive, OnStoreOK DEF KeepsOwner
<1>6. Tied(FinishIfDone(m, c.tier), Tiers) /\ Told(FinishIfDone(m, c.tier))
  BY <1>2, <1>5, CollectorTied
<1>7. MemoryOK(FinishIfDone(m, c.tier))
  BY <1>2, <1>5, FinishIfDoneOK
<1> QED BY <1>1, <1>6, <1>7, BecomeTied

\* A probe settling: it was the only one, so every tier at the gate waited for it, and
\* all of them go on.
LEMMA ProbeSettlesTied ==
  ASSUME QInv, NEW t \in Tiers, ProbeSettles(t)
  PROVE  Tied(Memory, Tiers)' /\ Told(Memory)'
<1> DEFINE d == probes[t]
           alive == d \notin wedged /\ wsl[d] # "Absent"
           known == IF alive THEN ProbeAnswered(store) ELSE ProbeUnanswered(store)
           st == [known EXCEPT !.probing = None]
           told == OnStore(Memory, st)
           done == [told EXCEPT !.probes[t] = None]
           fast == ResumeWaiter(done, t, "fast", alive)
           medium == ResumeWaiter(fast, t, "medium", alive)
           slow == ResumeWaiter(medium, t, "slow", alive)
<1>1. Become(slow) /\ d # None
  BY DEF ProbeSettles
<1>2. /\ StoreOK(store) /\ Memory.st = store /\ MemoryOK(Memory) /\ Memory.probes = probes
      /\ Memory.calls = calls /\ Tied(Memory, Tiers)
      /\ wsl \in [Distros -> DistroState] /\ probes \in [Tiers -> MaybeDistro]
  BY DEF QInv, LInv, Inv, MemoryOK, MemoryType, Memory
<1>3. d \in MaybeDistro
  BY <1>2
<1>4. \A u \in Tiers : u # t => probes[u] = None
  BY <1>1, <1>2 DEF QInv, LInv, Link
<1>5. store.tier[t].pc = "gate"
  BY <1>1, <1>2 DEF Tied, TierTied
<1> HIDE DEF d
<1>6. alive \in BOOLEAN
  OBVIOUS
<1> HIDE DEF alive
<1>7. StoreOK(known) /\ FrameKept(store, known)
  BY <1>2, <1>3, ProbeAnsweredOK, ProbeUnansweredOK
<1> HIDE DEF known
<1>8. KeepsOwner(store, known) /\ KeepsOwner(known, st)
  BY <1>7, FrameKeepsOwner, SetProbingOK
<1> HIDE DEF st
<1>9. KeepsOwner(store, st) /\ st.tier = store.tier
  BY <1>2, <1>8, KeepsOwnerTransitive DEF KeepsOwner
<1>10. /\ MemoryOK(told) /\ told.st = st /\ told.probes = probes /\ told.calls = calls
  BY <1>2, <1>9, OnStoreOK DEF OnStore, Memory
<1> HIDE DEF told
<1>11. MemoryOK(done) /\ done.st = st /\ done.calls = calls
  BY <1>10, SetProbeOK DEF MaybeDistro, MemoryOK, MemoryType
<1>12. \A u \in Tiers : done.probes[u] = None
  BY <1>2, <1>4, <1>10 DEF MemoryOK, MemoryType
<1> HIDE DEF done
<1>13. ASSUME NEW u \in Tiers PROVE Waits(done, t, u)
  <2>1. TierTied(Memory, u) /\ CallsOf(done, u) = CallsOf(Memory, u)
        /\ done.st.tier[u] = Memory.st.tier[u]
    BY <1>2, <1>9, <1>11 DEF Tied, CallsOf
  <2>2. CASE store.tier[u].pc = "gate"
    <3>1. store.tier[u].on = t
      BY <1>2, <1>4, <2>1, <2>2 DEF TierTied
    <3>2. NoList(done, u)
      BY <1>2, <2>1, <2>2 DEF TierTied, NoList
    <3> QED BY <1>2, <2>1, <2>2, <3>1, <3>2 DEF Waits
  <2>3. CASE store.tier[u].pc # "gate"
    <3>1. NoList(Memory, u) => NoList(done, u)
      BY <2>1 DEF NoList
    <3>2. TierTied(done, u)
      BY <1>2, <1>11, <1>12, <2>1, <2>3, <3>1 DEF TierTied
    <3> QED BY <3>2 DEF Waits
  <2> QED BY <2>2, <2>3
<1>14. Told(done)
  BY <1>5, <1>9, <1>11 DEF Told
<1>15. {"fast", "medium", "slow"} = Tiers
  BY DEF Tiers
<1>16. /\ MemoryOK(fast) /\ Told(fast) /\ TierTied(fast, "fast")
       /\ \A v \in Tiers : fast.probes[v] = None /\ Waits(fast, t, v)
  <2>1. MemoryOK(fast)
    BY <1>2, <1>6, <1>11, <1>15, ResumeWaiterOK
  <2>2. \A v \in Tiers : done.probes[v] = None /\ Waits(done, t, v)
    BY <1>12, <1>13
  <2>3. MemoryOK(done) /\ wsl \in [Distros -> DistroState] /\ "fast" \in Tiers
    BY <1>2, <1>11, <1>15
  <2>4. /\ Told(fast) /\ TierTied(fast, "fast")
        /\ \A v \in Tiers : fast.probes[v] = None /\ Waits(fast, t, v)
    BY <1>6, <1>14, <2>2, <2>3, ResumeTied
  <2> QED BY <2>1, <2>4
<1> HIDE DEF fast
<1>17. /\ MemoryOK(medium) /\ Told(medium) /\ TierTied(medium, "medium")
       /\ \A v \in Tiers : medium.probes[v] = None /\ Waits(medium, t, v)
       /\ TierTied(medium, "fast")
  <2>1. MemoryOK(medium)
    BY <1>2, <1>6, <1>15, <1>16, ResumeWaiterOK
  <2>2. /\ Told(medium) /\ TierTied(medium, "medium")
        /\ \A v \in Tiers : medium.probes[v] = None /\ Waits(medium, t, v)
        /\ TierTied(medium, "fast")
    BY <1>2, <1>6, <1>15, <1>16, ResumeTied
  <2> QED BY <2>1, <2>2
<1> HIDE DEF medium
<1>18. /\ MemoryOK(slow) /\ Told(slow) /\ TierTied(slow, "slow") /\ TierTied(slow, "medium")
       /\ TierTied(slow, "fast")
  BY <1>2, <1>6, <1>15, <1>17, ResumeWaiterOK, ResumeTied
<1> HIDE DEF slow
<1>19. Tied(slow, Tiers)
  BY <1>15, <1>18 DEF Tied
<1> QED BY <1>1, <1>18, <1>19, BecomeTied

\* A step of the store that leaves tiers, calls and probes alone, and a published store
\* published.
LEMMA StoreTied ==
  ASSUME QInv, UNCHANGED <<calls, probes>>, NEW st, store' = st, st.tier = store.tier,
         store.disposed => st.disposed, Published(store) => st.disposed \/ Published(st)
  PROVE  Tied(Memory, Tiers)' /\ Told(Memory)'
<1> DEFINE n == OnStore(Memory, st)
<1>1. n.st = st /\ n.calls = calls /\ n.probes = probes /\ Memory' = n
      /\ Memory.st = store /\ Memory.calls = calls /\ Memory.probes = probes
  BY DEF OnStore, Memory
<1> HIDE DEF n
<1>2. Tied(n, Tiers)
  BY <1>1 DEF QInv, Tied, TierTied, NoList, CallsOf
<1>3. Told(n)
  BY <1>1 DEF QInv, Told
<1> QED BY <1>1, <1>2, <1>3

\* A commit that follows no recomputation publishes a store whose warnings are the
\* current ones but for the working directory's.
LEMMA EmitKeepsPublished ==
  ASSUME NEW st, StoreOK(st), NEW cwd \in {"linux", "windows"}, Published(st)
  PROVE  LET x == Emit([st EXCEPT !.cwd = cwd])
         IN  x.tier = st.tier /\ x.disposed = st.disposed /\ (x.disposed \/ Published(x))
<1> DEFINE s == [st EXCEPT !.cwd = cwd]
           x == Emit(s)
<1>1. /\ s.tier = st.tier /\ s.disposed = st.disposed /\ s.warnings = st.warnings
      /\ s.selected = st.selected /\ s.distros = st.distros /\ s.probe = st.probe
      /\ s.failures = st.failures /\ s.mcpError = st.mcpError /\ s.cwd = cwd
      /\ s.sections = st.sections /\ s \in StoreType
  BY DEF StoreOK, StoreType
<1> HIDE DEF s
<1>2. /\ x.tier = s.tier /\ x.disposed = s.disposed /\ x.warnings = s.warnings
      /\ x.selected = s.selected /\ x.distros = s.distros /\ x.probe = s.probe
      /\ x.failures = s.failures /\ x.mcpError = s.mcpError /\ x.cwd = s.cwd
      /\ x.sections = s.sections /\ x.behind = s.disposed /\ x.current = Build(s)
  BY <1>1 DEF Emit, Commit, StoreType
<1> HIDE DEF x
<1>3. Build(x) = Build(s)
  BY <1>2, SameView
<1>4. \A c : [ComputeWarnings(x) EXCEPT !.crossing = c] = [ComputeWarnings(st) EXCEPT !.crossing = c]
  <2> DEFINE stopped == st.selected # None /\ st.distros[st.selected] = "Stopped"
             unresponsive == st.selected # None /\ st.probe.failures > 0
             n == Len(st.failures)
             failed == {st.failures[i] : i \in {j \in 1..n : j > n - MaxWarned}}
             Warnings(crossing) ==
               [stopped |-> stopped, unresponsive |-> unresponsive, failed |-> failed,
                mcp |-> st.mcpError, crossing |-> crossing]
  <2>1. /\ ComputeWarnings(st) = Warnings(st.cwd = "windows")
        /\ ComputeWarnings(x) = Warnings(cwd = "windows")
    BY <1>1, <1>2 DEF ComputeWarnings, Selected
  <2> HIDE DEF stopped, unresponsive, failed
  <2>2. \A a, c : [Warnings(a) EXCEPT !.crossing = c] = Warnings(c)
    OBVIOUS
  <2> QED BY <2>1, <2>2
<1>5. ~x.disposed => Published(x)
  BY <1>1, <1>2, <1>3, <1>4 DEF Published
<1> QED BY <1>1, <1>2, <1>5 DEF x, s

\* The reports of the rest of the app, time and disposal.
LEMMA ReportsTied ==
  ASSUME QInv, \/ Tick
               \/ \E cwd \in {"linux", "windows"} : SetTerminalContext(cwd)
               \/ \E error \in BOOLEAN : SetMcpStatus(error)
               \/ SetExplorerContext
               \/ Dispose
  PROVE  Tied(Memory, Tiers)' /\ Told(Memory)'
<1>1. StoreOK(store) /\ store \in StoreType
  BY DEF QInv, LInv, Inv, MemoryOK, Memory, StoreOK
<1>2. ASSUME NEW cwd \in {"linux", "windows"}, SetTerminalContext(cwd)
      PROVE  Tied(Memory, Tiers)' /\ Told(Memory)'
  <2> DEFINE s == [store EXCEPT !.cwd = cwd]
             st == Emit(s)
  <2>1. store' = st /\ UNCHANGED <<calls, probes>>
    BY <1>2 DEF SetTerminalContext
  <2>2. StoreOK(s) /\ s.tier = store.tier /\ s.disposed = store.disposed
    BY <1>1 DEF StoreOK, StoreType
  <2>3. Published(store) => st.disposed \/ Published(st)
    BY <1>1, EmitKeepsPublished
  <2> HIDE DEF s
  <2>4. st.tier = store.tier /\ st.disposed = store.disposed
    BY <2>2 DEF Emit, Commit, StoreOK, StoreType
  <2> HIDE DEF st
  <2> QED BY <2>1, <2>3, <2>4, StoreTied
<1>3. ASSUME NEW error \in BOOLEAN, SetMcpStatus(error)
      PROVE  Tied(Memory, Tiers)' /\ Told(Memory)'
  <2> DEFINE s == [store EXCEPT !.mcpError = error]
             st == Emit(Recompute(s))
  <2>1. store' = st /\ UNCHANGED <<calls, probes>>
    BY <1>3 DEF SetMcpStatus
  <2>2. StoreOK(s) /\ s.tier = store.tier /\ s.disposed = store.disposed
    BY <1>1 DEF StoreOK, StoreType
  <2> HIDE DEF s
  <2>3. st.tier = store.tier /\ st.disposed = store.disposed /\ (st.disposed \/ Published(st))
    BY <2>2, EmitPublishes, EmitRecomputeOK DEF KeepsOwner
  <2> HIDE DEF st
  <2> QED BY <2>1, <2>3, StoreTied
<1>4. ASSUME SetExplorerContext PROVE Tied(Memory, Tiers)' /\ Told(Memory)'
  <2> DEFINE st == Emit(store)
  <2>1. store' = st /\ UNCHANGED <<calls, probes>>
    BY <1>4 DEF SetExplorerContext
  <2>2. [store EXCEPT !.cwd = store.cwd] = store /\ store.cwd \in {"linux", "windows"}
    BY <1>1 DEF StoreType
  <2>3. Published(store) => st.disposed \/ Published(st)
    BY <1>1, <2>2, EmitKeepsPublished
  <2>4. st.tier = store.tier /\ st.disposed = store.disposed
    BY <1>1 DEF Emit, Commit, StoreOK, StoreType
  <2> HIDE DEF st
  <2> QED BY <2>1, <2>3, <2>4, StoreTied
<1>5. ASSUME Dispose PROVE Tied(Memory, Tiers)' /\ Told(Memory)'
  <2> DEFINE st == [store EXCEPT !.disposed = TRUE]
  <2>1. store' = st /\ UNCHANGED <<calls, probes>>
    BY <1>5 DEF Dispose
  <2>2. st.tier = store.tier /\ st.disposed
    BY <1>1 DEF StoreType
  <2> HIDE DEF st
  <2> QED BY <2>1, <2>2, StoreTied
<1>6. ASSUME Tick PROVE Tied(Memory, Tiers)' /\ Told(Memory)'
  <2> DEFINE p == [store.probe EXCEPT !.until = IF @ > 0 THEN @ - 1 ELSE 0,
                                      !.trusted = IF @ > 0 THEN @ - 1 ELSE 0]
             st == [store EXCEPT !.probe = p]
  <2>1. store' = st /\ UNCHANGED <<calls, probes>>
    BY <1>1, <1>6 DEF Tick, StoreType
  <2>2. p.failures = store.probe.failures /\ p.everAlive = store.probe.everAlive
    BY <1>1 DEF StoreType, ProbeType
  <2> HIDE DEF p
  <2>3. /\ st.tier = store.tier /\ st.disposed = store.disposed /\ st.selected = store.selected
        /\ st.distros = store.distros /\ st.probe = p /\ st.failures = store.failures
        /\ st.mcpError = store.mcpError /\ st.cwd = store.cwd /\ st.sections = store.sections
        /\ st.warnings = store.warnings /\ st.behind = store.behind /\ st.current = store.current
    BY <1>1 DEF StoreType
  <2> HIDE DEF st
  <2>4. ComputeWarnings(st) = ComputeWarnings(store) /\ Build(st) = Build(store)
    BY <2>2, <2>3, SameView
  <2>5. Published(store) => Published(st)
    BY <2>3, <2>4 DEF Published
  <2> QED BY <2>1, <2>3, <2>5, StoreTied
<1> QED BY <1>2, <1>3, <1>4, <1>5, <1>6

\* Every step keeps the invariant.
LEMMA NextTied == QInv /\ [Next]_vars => QInv'
<1> SUFFICES ASSUME QInv, [Next]_vars PROVE Tied(Memory, Tiers)' /\ Told(Memory)'
  BY NextLink DEF QInv
<1>1. ASSUME UNCHANGED <<store, calls, probes>> PROVE Tied(Memory, Tiers)' /\ Told(Memory)'
  BY <1>1, StoreTied
<1>2. \/ \E d \in Distros, s \in DistroState : ChangeWsl(d, s)
      \/ \E d \in Distros : ToggleWedge(d)
      \/ UNCHANGED vars
      => UNCHANGED <<store, calls, probes>>
  BY DEF ChangeWsl, ToggleWedge, vars
<1> QED
  BY <1>1, <1>2, PollTied, SetDistroTied, ListReplyTied, ListFailureTied, CollectorReplyTied,
     CollectorFailureTied, ProbeSettlesTied, ReportsTied DEF Next

-----------------------------------------------------------------------------
(* Theorem *)

\* Once no collector and no probe is in flight, get() and every subscriber hold the
\* state the store is in, whatever failed, was switched or was reported on the way.
THEOREM QuietIsPublished == Spec => []QuietSnapshotPublished
<1>1. QInv => QuietSnapshotPublished
  <2> SUFFICES ASSUME QInv, Quiet, ~store.disposed PROVE Published(store)
    BY DEF QuietSnapshotPublished, Published
  <2>1. Memory.st = store /\ Memory.calls = {} /\ \A t \in Tiers : Memory.probes[t] = None
    BY DEF Quiet, Memory
  <2>2. \A t \in Tiers : CallsOf(Memory, t) = {}
    BY <2>1 DEF CallsOf
  <2>3. ASSUME NEW t \in Tiers PROVE store.tier[t].pc = "idle"
    <3>1. TierTied(Memory, t) /\ Memory.st.tier[t] \in TierType
      BY TierRecord DEF QInv, LInv, Inv, Tied
    <3> QED BY <2>1, <2>2, <3>1 DEF TierTied, TierType
  <2> QED BY <2>1, <2>3 DEF QInv, Told
<1> QED BY <1>1, InitTied, NextTied, PTL DEF Spec

-----------------------------------------------------------------------------
(***************************************************************************)
(* A later failure keeps the last good read.  Only a list, a selection, a  *)
(* result and a failure touch the sections; the rest of what an action     *)
(* composes leaves them and their epoch alone (SameSections).              *)
(***************************************************************************)

\* KeepsLastGood, of two stores and transitive: an epoch never returns, and within one
\* sections once gone stay gone.
Keeps(old, new) ==
  /\ new.epoch >= old.epoch
  /\ new.epoch = old.epoch =>
       /\ old.sections = None => new.sections = None
       /\ old.sections # None /\ new.sections # None =>
            /\ \A c \in InDistro : old.sections.data[c] # None => new.sections.data[c] # None
            /\ old.sections.ports = "succeeded" => new.sections.ports = "succeeded"

SameSections(m, n) == n.st.sections = m.st.sections /\ n.st.epoch = m.st.epoch

\* The last good read is kept through two methods in sequence.
LEMMA KeepsTwice ==
  ASSUME NEW a, NEW b, NEW c, StoreOK(a), StoreOK(b), StoreOK(c), Keeps(a, b), Keeps(b, c)
  PROVE  Keeps(a, c)
<1>1. a.epoch \in Nat /\ b.epoch \in Nat /\ c.epoch \in Nat
  BY DEF StoreOK, StoreType
<1> QED BY <1>1 DEF Keeps

\* A method that leaves sections and epoch alone keeps it.
LEMMA FrameKeeps ==
  ASSUME NEW old, NEW new, StoreOK(old),
         new.sections = old.sections /\ new.epoch = old.epoch
  PROVE  Keeps(old, new)
BY DEF Keeps, StoreOK, StoreType

-----------------------------------------------------------------------------
(* Methods that touch the sections *)

\* A selection starts a new epoch.
LEMMA SelectionKeeps ==
  ASSUME NEW st, StoreOK(st), NEW d
  PROVE  SelectInternal(st, d).epoch = st.epoch + 1 /\ Keeps(st, SelectInternal(st, d))
<1>1. SelectInternal(st, d).epoch = st.epoch + 1 /\ st.epoch \in Nat
  BY DEF SelectInternal, StoreOK, StoreType
<1> QED BY <1>1 DEF Keeps

\* A list keeps the sections of a selection it still lists.
LEMMA ListKeeps ==
  ASSUME NEW st, StoreOK(st), NEW list, list \in [Distros -> DistroState], NEW first
  PROVE  Keeps(st, ApplyDistroList(st, list, first))
<1> DEFINE now == [st EXCEPT !.distros = list]
           kept == Selected(st) /\ list[st.selected] # "Absent"
           held == [now EXCEPT !.sections.state = list[st.selected]]
           gone == [now EXCEPT !.selected = None, !.sections = None]
           next == IF list[DefaultDistro] # "Absent" THEN DefaultDistro ELSE first
<1>1. \/ kept /\ ApplyDistroList(st, list, first) = held
      \/ ApplyDistroList(st, list, first) = gone
      \/ ApplyDistroList(st, list, first) = SelectInternal(now, next)
  BY DEF ApplyDistroList
<1>2. StoreOK(now) /\ now.epoch = st.epoch /\ now.sections = st.sections
  BY DEF StoreOK, StoreType
<1>3. gone.epoch = st.epoch /\ gone.sections = None
  BY DEF StoreOK, StoreType
<1>4. ASSUME kept
      PROVE  /\ held.epoch = st.epoch /\ st.sections # None
             /\ held.sections.data = st.sections.data /\ held.sections.ports = st.sections.ports
  <2>1. st.sections \in SectionsType /\ st.sections # None
    BY <1>4 DEF StoreOK, StoreType, MaybeDistro, Selected
  <2> DEFINE sections == [st.sections EXCEPT !.state = list[st.selected]]
  <2>2. sections.data = st.sections.data /\ sections.ports = st.sections.ports
    BY <2>1 DEF SectionsType
  <2>3. held = [now EXCEPT !.sections = sections]
    BY <1>2
  <2> HIDE DEF sections, held, now
  <2>4. held.sections = sections /\ held.epoch = now.epoch
    BY <1>2, <2>3 DEF StoreOK, StoreType
  <2> QED BY <1>2, <2>1, <2>2, <2>4
<1> HIDE DEF held, gone, now, next, kept
<1>5. st.epoch \in Nat
  BY DEF StoreOK, StoreType
<1>6. SelectInternal(now, next).epoch = st.epoch + 1
  BY <1>2, SelectionKeeps
<1> QED BY <1>1, <1>3, <1>4, <1>5, <1>6 DEF Keeps

\* A result fills a section, and no read of a section is null.
LEMMA ResultKeeps ==
  ASSUME NEW st, StoreOK(st), NEW c \in CallType, NEW reported,
         c.cmd \in InDistro => Captures(st, c.distro, c.epoch)
  PROVE  Keeps(st, ApplyResult(st, c, reported))
<1>1. CASE c.cmd \notin InDistro \/ st.sections = None \/ c.epoch # st.epoch
  BY <1>1, FrameKeeps DEF ApplyResult
<1>2. CASE c.cmd \in InDistro /\ st.sections # None /\ c.epoch = st.epoch
  <2> DEFINE x == Fill(st.sections, c, reported)
             filled == [st.sections EXCEPT !.data[c.cmd] = c.distro]
             new == ApplyResult(st, c, reported)
  <2>1. st.sections \in SectionsType /\ c.distro # None
    BY <1>2 DEF Captures, StoreOK, StoreType
  <2>2. /\ \A k \in InDistro : st.sections.data[k] # None => filled.data[k] # None
        /\ filled.ports = st.sections.ports
        /\ filled = [state |-> filled.state, data |-> filled.data, ports |-> filled.ports]
    BY <1>2, <2>1 DEF SectionsType
  <2>3. \/ x = [filled EXCEPT !.ports = "succeeded"]
        \/ x = filled
        \/ x = [filled EXCEPT !.state = IF reported = "Absent" THEN "Unknown" ELSE reported]
    BY <1>2 DEF Fill, InDistro
  <2> HIDE DEF filled
  <2>4. new = [st EXCEPT !.sections = x]
    BY <1>2 DEF ApplyResult
  <2> HIDE DEF x
  <2>5. x.data = filled.data /\ x.ports \in {"succeeded", filled.ports}
    BY <2>2, <2>3
  <2>6. new.sections = x /\ new.epoch = st.epoch
    BY <2>4 DEF StoreOK, StoreType
  <2> HIDE DEF new
  <2>7. st.epoch \in Nat
    BY DEF StoreOK, StoreType
  <2> QED BY <1>2, <2>2, <2>5, <2>6, <2>7 DEF Keeps, new
<1> QED BY <1>1, <1>2

\* A failure marks only a section that never succeeded.
LEMMA FailureKeeps ==
  ASSUME NEW st, StoreOK(st), NEW c
  PROVE  Keeps(st, MarkFailed(st, c))
<1>1. CASE MarkFailed(st, c) = st
  BY <1>1, FrameKeeps
<1>2. CASE MarkFailed(st, c) # st
  <2> DEFINE x == [st.sections EXCEPT !.ports = "failed"]
             new == MarkFailed(st, c)
  <2>1. st.sections # None /\ st.sections \in SectionsType /\ st.sections.ports # "succeeded"
    BY <1>2 DEF MarkFailed, StoreOK, StoreType
  <2>2. new = [st EXCEPT !.sections = x]
    BY <1>2 DEF MarkFailed
  <2>3. x.data = st.sections.data
    BY <2>1 DEF SectionsType
  <2> HIDE DEF x, new
  <2>4. new.sections = x /\ new.epoch = st.epoch /\ st.epoch \in Nat
    BY <2>2 DEF StoreOK, StoreType
  <2> QED BY <2>1, <2>3, <2>4 DEF Keeps, new
<1> QED BY <1>1, <1>2

-----------------------------------------------------------------------------
(* Operators on the memory leave the sections alone *)

\* Operators that leave the sections alone do so in sequence.
LEMMA SameTwice ==
  ASSUME NEW a, NEW b, NEW c, SameSections(a, b), SameSections(b, c)
  PROVE  SameSections(a, c)
BY DEF SameSections

\* One tier's record replaced.
LEMMA SetTierSections ==
  ASSUME NEW m, MemoryOK(m), NEW t, NEW r
  PROVE  SameSections(m, OnStore(m, [m.st EXCEPT !.tier[t] = r]))
BY DEF SameSections, OnStore, MemoryOK, MemoryType, StoreOK, StoreType

\* Calls issued.
LEMMA IssueSections ==
  ASSUME NEW m, MemoryOK(m), NEW t, NEW cmds
  PROVE  SameSections(m, Issue(m, t, cmds))
BY DEF SameSections, Issue, MemoryOK, MemoryType

\* The end of a tier.
LEMMA FinishSections ==
  ASSUME NEW m, MemoryOK(m), NEW t
  PROVE  SameSections(m, FinishTier(m, t)) /\ SameSections(m, FinishIfDone(m, t))
<1> DEFINE x == Emit(Recompute(m.st))
           y == [x EXCEPT !.tier[t] = IdleTier]
<1>1. StoreOK(x) /\ x.sections = m.st.sections /\ x.epoch = m.st.epoch
  <2>1. StoreOK(Recompute(m.st)) /\ FrameKept(m.st, Recompute(m.st))
    BY RecomputeOK DEF MemoryOK
  <2>2. StoreOK(x) /\ FrameKept(Recompute(m.st), x)
    BY <2>1, EmitOK
  <2> QED BY <2>1, <2>2 DEF FrameKept
<1>2. FinishTier(m, t) = OnStore(m, y)
  BY DEF FinishTier
<1> HIDE DEF x
<1>3. y.sections = m.st.sections /\ y.epoch = m.st.epoch
  BY <1>1 DEF StoreOK, StoreType
<1> HIDE DEF y
<1>4. SameSections(m, FinishTier(m, t))
  BY <1>2, <1>3 DEF SameSections, OnStore, MemoryOK, MemoryType
<1> QED BY <1>4 DEF FinishIfDone, SameSections

\* The step after the gate.
LEMMA ProceedSections ==
  ASSUME NEW m, MemoryOK(m), wsl \in [Distros -> DistroState], NEW t \in Tiers,
         NEW alive \in BOOLEAN, m.st.tier[t].pc \in Capturing
  PROVE  SameSections(m, Proceed(m, t, alive))
<1> DEFINE r == [m.st.tier[t] EXCEPT !.pc = "collect", !.on = None]
           collecting == OnStore(m, [m.st EXCEPT !.tier[t] = r])
           issued == Issue(collecting, t, DistroCommands(t))
<1>1. r \in TierType /\ r.pc = "collect" /\ Captures(m.st, r.distro, r.epoch)
  BY TierRecord DEF TierType, MemoryOK, Owned
<1>2. Proceed(m, t, alive) = FinishIfDone(IF alive THEN issued ELSE collecting, t)
  BY DEF Proceed
<1> HIDE DEF r
<1>3. MemoryOK(collecting) /\ collecting.st.tier[t] = r /\ SameSections(m, collecting)
  BY <1>1, SetTierOK, SetTierSections
<1> HIDE DEF collecting
<1>4. MemoryOK(issued) /\ SameSections(collecting, issued)
  BY <1>1, <1>3, IssueOK, IssueSections, CommandTypes
<1> HIDE DEF issued
<1> QED BY <1>2, <1>3, <1>4, FinishSections, SameTwice

\* A probe sent.
LEMMA SendProbeSections ==
  ASSUME NEW m, MemoryOK(m), NEW t
  PROVE  SameSections(m, SendProbe(m, t))
BY DEF SendProbe, SameSections, OnStore, MemoryOK, MemoryType, StoreOK, StoreType

\* The gate.
LEMMA GateSections ==
  ASSUME NEW m, MemoryOK(m), wsl \in [Distros -> DistroState], NEW t \in Tiers,
         m.st.tier[t].pc \in Capturing
  PROVE  SameSections(m, Gate(m, t))
<1>1. \/ Gate(m, t) = Proceed(m, t, TRUE)
      \/ Gate(m, t) = Proceed(m, t, FALSE)
      \/ \E r : Gate(m, t) = OnStore(m, [m.st EXCEPT !.tier[t] = r])
      \/ Gate(m, t) = SendProbe(m, t)
  BY DEF Gate
<1>2. SameSections(m, Proceed(m, t, TRUE)) /\ SameSections(m, Proceed(m, t, FALSE))
  BY ProceedSections
<1>3. \A r : SameSections(m, OnStore(m, [m.st EXCEPT !.tier[t] = r]))
  BY SetTierSections
<1>4. SameSections(m, SendProbe(m, t))
  BY SendProbeSections
<1> QED BY <1>1, <1>2, <1>3, <1>4

\* The body of a refresh.
LEMMA TierBodySections ==
  ASSUME NEW m, MemoryOK(m), wsl \in [Distros -> DistroState], NEW t \in Tiers
  PROVE  SameSections(m, TierBody(m, t))
<1> DEFINE d == RunningSelected(m.st)
           r == [pc |-> "begun", distro |-> d, epoch |-> m.st.epoch, on |-> None]
           begun == OnStore(m, [m.st EXCEPT !.tier[t] = r])
           issued == Issue(begun, t, HostCommands(t))
<1>1. TierBody(m, t) = IF d = None THEN FinishTier(m, t) ELSE Gate(issued, t)
  BY DEF TierBody
<1>2. CASE d = None
  BY <1>1, <1>2, FinishSections
<1>3. CASE d # None
  <2>1. r \in TierType /\ r.pc = "begun" /\ Captures(m.st, r.distro, r.epoch)
    BY <1>3 DEF TierType, Captures, RunningSelected, MemoryOK, StoreOK, StoreType, MaybeDistro
  <2> HIDE DEF r
  <2>2. MemoryOK(begun) /\ begun.st.tier[t] = r /\ SameSections(m, begun)
    <3>1. MemoryOK(begun) /\ begun.st.tier[t] = r
      BY <2>1, SetTierOK
    <3>2. SameSections(m, begun)
      BY SetTierSections
    <3> QED BY <3>1, <3>2
  <2> HIDE DEF begun, d
  <2>3. MemoryOK(issued) /\ issued.st = begun.st /\ SameSections(begun, issued)
    BY <2>1, <2>2, IssueOK, IssueSections, CommandTypes
  <2> HIDE DEF issued
  <2>4. SameSections(issued, Gate(issued, t))
    BY <2>1, <2>2, <2>3, GateSections
  <2> QED BY <1>1, <1>3, <2>2, <2>3, <2>4, SameTwice
<1> QED BY <1>2, <1>3

\* A refresh, in flight already or not.
LEMMA RefreshSections ==
  ASSUME NEW m, MemoryOK(m), wsl \in [Distros -> DistroState], NEW t \in Tiers
  PROVE  SameSections(m, Refresh(m, t))
<1> DEFINE r == [IdleTier EXCEPT !.pc = "list"]
           listing == OnStore(m, [m.st EXCEPT !.tier[t] = r])
           issued == Issue(listing, t, {"list"})
<1>1. r \in TierType /\ r.pc = "list"
  BY DEF IdleTier, TierType, MaybeDistro
<1>2. Refresh(m, t) \in {m, issued, TierBody(m, t)}
  BY DEF Refresh
<1> HIDE DEF r
<1>3. MemoryOK(listing) /\ SameSections(m, listing)
  BY <1>1, SetTierOK, SetTierSections
<1> HIDE DEF listing
<1>4. SameSections(m, issued)
  BY <1>3, IssueSections, SameTwice
<1>5. SameSections(m, m)
  BY DEF SameSections
<1> HIDE DEF issued
<1> QED BY <1>2, <1>4, <1>5, TierBodySections

\* What a tier does after the list.
LEMMA AfterListSections ==
  ASSUME NEW m, MemoryOK(m), wsl \in [Distros -> DistroState],
         NEW t \in Tiers \union {"init"}
  PROVE  SameSections(m, AfterList(m, t))
<1> DEFINE x == Emit(Recompute(m.st))
<1>1. x.sections = m.st.sections /\ x.epoch = m.st.epoch
  BY RecomputeOK, EmitOK DEF FrameKept, MemoryOK
<1> HIDE DEF x
<1>2. SameSections(m, OnStore(m, x))
  BY <1>1 DEF SameSections, OnStore, MemoryOK, MemoryType
<1> QED BY <1>2, TierBodySections DEF AfterList, x

\* A tier that waited for the probe.
LEMMA ResumeSections ==
  ASSUME NEW m, MemoryOK(m), wsl \in [Distros -> DistroState],
         NEW t \in Tiers, NEW u \in Tiers, NEW alive \in BOOLEAN
  PROVE  SameSections(m, ResumeWaiter(m, t, u, alive))
BY ProceedSections DEF ResumeWaiter, SameSections


-----------------------------------------------------------------------------
(* Each handler *)

\* A step that installs a memory keeps what its store keeps.
LEMMA BecomeKeeps ==
  ASSUME Inv, NEW st, StoreOK(st), Keeps(store, st), NEW m, MemoryOK(m), Become(m),
         m.st.sections = st.sections /\ m.st.epoch = st.epoch
  PROVE  Keeps(store, store')
<1>1. store' = m.st
  BY DEF Become
<1> QED BY <1>1 DEF Keeps

\* A switch.
LEMMA SetDistroKeeps ==
  ASSUME Inv, NEW d \in Distros, SetDistro(d)
  PROVE  Keeps(store, store')
<1> DEFINE st == SelectInternal(store, d)
           told == Emit(Recompute(st))
           chosen == OnStore(Memory, told)
           fast == Refresh(chosen, "fast")
           medium == Refresh(fast, "medium")
           slow == Refresh(medium, "slow")
<1>1. StoreOK(store) /\ Memory.st = store /\ MemoryOK(Memory)
  BY DEF Inv, MemoryOK, Memory
<1>2. Become(slow)
  BY DEF SetDistro
<1>3. KeepsOwner(store, st) /\ StoreOK(st) /\ Keeps(store, st)
  BY <1>1, SelectInternalOK, SelectionKeeps DEF KeepsOwner
<1> HIDE DEF st
<1>4. KeepsOwner(st, told) /\ told.sections = st.sections /\ told.epoch = st.epoch
  BY <1>3, EmitRecomputeOK, RecomputeOK, EmitOK DEF FrameKept
<1> HIDE DEF told
<1>5. KeepsOwner(store, told)
  BY <1>1, <1>3, <1>4, KeepsOwnerTransitive
<1>6. MemoryOK(chosen) /\ chosen.st = told
  BY <1>1, <1>5, OnStoreOK
<1> HIDE DEF chosen
<1>7. wsl \in [Distros -> DistroState] /\ {"fast", "medium", "slow"} = Tiers
  BY DEF Inv, Tiers
<1>8. MemoryOK(fast) /\ SameSections(chosen, fast)
  BY <1>6, <1>7, RefreshOK, RefreshSections
<1> HIDE DEF fast
<1>9. MemoryOK(medium) /\ SameSections(fast, medium)
  BY <1>7, <1>8, RefreshOK, RefreshSections
<1> HIDE DEF medium
<1>10. MemoryOK(slow) /\ SameSections(medium, slow)
  BY <1>7, <1>9, RefreshOK, RefreshSections
<1>11. slow.st.sections = st.sections /\ slow.st.epoch = st.epoch
  BY <1>4, <1>6, <1>8, <1>9, <1>10 DEF SameSections
<1> HIDE DEF slow
<1> QED BY <1>2, <1>3, <1>10, <1>11, BecomeKeeps

\* The distro list arriving.
LEMMA ListReplyKeeps ==
  ASSUME Inv, NEW c \in calls, ListReply(c)
  PROVE  Keeps(store, store')
<1>1. PICK list \in Read(c), first \in Distros :
        Become(AfterList(
          OnStore(Return(c), ClearRunnerFailure(ApplyDistroList(store, list, first), "list")),
          c.tier))
  BY DEF ListReply
<1> DEFINE listed == ApplyDistroList(store, list, first)
           st == ClearRunnerFailure(listed, "list")
           m == OnStore(Return(c), st)
           n == AfterList(m, c.tier)
<1>2. /\ list \in [Distros -> DistroState] /\ c.tier \in Tiers \union {"init"}
      /\ MemoryOK(Return(c)) /\ Return(c).st = store /\ StoreOK(store)
      /\ "list" \in Commands /\ wsl \in [Distros -> DistroState]
  BY CallFacts, ReturnOK DEF ListReply, Inv, MemoryOK, Memory, Commands
<1>3. KeepsOwner(store, listed) /\ Keeps(store, listed)
  BY <1>2, ApplyDistroListOK, ListKeeps
<1>4. Become(n)
  BY <1>1 DEF listed
<1> HIDE DEF listed
<1>5. KeepsOwner(listed, st) /\ FrameKept(listed, st)
  BY <1>2, <1>3, ClearRunnerFailureOK, FrameKeepsOwner DEF KeepsOwner
<1> HIDE DEF st
<1>6. MemoryOK(m) /\ m.st = st
  BY <1>2, <1>3, <1>5, KeepsOwnerTransitive, OnStoreOK
<1> HIDE DEF m
<1>7. MemoryOK(n) /\ SameSections(m, n)
  BY <1>2, <1>6, AfterListOK, AfterListSections
<1> HIDE DEF n
<1>8. n.st.sections = listed.sections /\ n.st.epoch = listed.epoch /\ StoreOK(listed)
  BY <1>3, <1>5, <1>6, <1>7 DEF SameSections, FrameKept, KeepsOwner
<1> QED BY <1>3, <1>4, <1>7, <1>8, BecomeKeeps

\* The distro list failing.
LEMMA ListFailureKeeps ==
  ASSUME Inv, NEW c \in calls, ListFailure(c)
  PROVE  Keeps(store, store')
<1> DEFINE st == NoteRunnerFailure(store, "list")
           m == OnStore(Return(c), st)
           n == AfterList(m, c.tier)
<1>1. Become(n)
  BY DEF ListFailure
<1>2. /\ c.tier \in Tiers \union {"init"} /\ "list" \in Commands
      /\ MemoryOK(Return(c)) /\ Return(c).st = store /\ StoreOK(store)
      /\ wsl \in [Distros -> DistroState]
  BY CallFacts, ReturnOK DEF Commands, Inv, MemoryOK, Memory
<1>3. StoreOK(st) /\ FrameKept(store, st) /\ KeepsOwner(store, st)
  BY <1>2, NoteRunnerFailureOK, FrameKeepsOwner
<1> HIDE DEF st
<1>4. MemoryOK(m) /\ m.st = st
  BY <1>2, <1>3, OnStoreOK
<1> HIDE DEF m
<1>5. MemoryOK(n) /\ SameSections(m, n)
  BY <1>2, <1>4, AfterListOK, AfterListSections
<1> HIDE DEF n
<1>6. store' = n.st /\ n.st.sections = store.sections /\ n.st.epoch = store.epoch
  BY <1>1, <1>3, <1>4, <1>5 DEF SameSections, FrameKept, Become
<1> QED BY <1>2, <1>6, FrameKeeps

\* A collector answering.
LEMMA CollectorReplyKeeps ==
  ASSUME Inv, NEW c \in calls, CollectorReply(c)
  PROVE  Keeps(store, store')
<1>1. PICK list \in (IF c.cmd = "details" THEN Read(c) ELSE {wsl}) :
        Become(FinishIfDone(
          OnStore(Return(c),
                  ClearRunnerFailure(ApplyResult(store, c, list[c.distro]), c.cmd)), c.tier))
  BY DEF CollectorReply
<1> DEFINE reported == list[c.distro]
           filled == ApplyResult(store, c, reported)
           st == ClearRunnerFailure(filled, c.cmd)
           m == OnStore(Return(c), st)
           n == FinishIfDone(m, c.tier)
<1>2. /\ list \in [Distros -> DistroState] /\ c.tier \in Tiers /\ c.cmd \in Commands
      /\ MemoryOK(Return(c)) /\ Return(c).st = store /\ StoreOK(store) /\ c \in CallType
  BY CallFacts, ReturnOK DEF CollectorReply, Inv, MemoryOK, Memory
<1>3. c.distro \in Distros => reported \in DistroState
  BY <1>2
<1>4. Become(n)
  BY <1>1
<1> HIDE DEF reported
<1>5. KeepsOwner(store, filled) /\ Keeps(store, filled)
  BY <1>2, <1>3, CallFacts, ApplyResultOK, ResultKeeps
<1> HIDE DEF filled
<1>6. FrameKept(filled, st) /\ KeepsOwner(filled, st)
  BY <1>2, <1>5, ClearRunnerFailureOK, FrameKeepsOwner DEF KeepsOwner
<1> HIDE DEF st
<1>7. MemoryOK(m) /\ m.st = st
  BY <1>2, <1>5, <1>6, KeepsOwnerTransitive, OnStoreOK
<1> HIDE DEF m
<1>8. MemoryOK(n) /\ SameSections(m, n)
  BY <1>2, <1>7, FinishIfDoneOK, FinishSections
<1> HIDE DEF n
<1>9. n.st.sections = filled.sections /\ n.st.epoch = filled.epoch /\ StoreOK(filled)
  BY <1>5, <1>6, <1>7, <1>8 DEF SameSections, FrameKept, KeepsOwner
<1> QED BY <1>4, <1>5, <1>8, <1>9, BecomeKeeps

\* A collector failing.
LEMMA CollectorFailureKeeps ==
  ASSUME Inv, NEW c \in calls, CollectorFailure(c)
  PROVE  Keeps(store, store')
<1> DEFINE marked == MarkFailed(store, c)
           st == NoteRunnerFailure(marked, c.cmd)
           m == OnStore(Return(c), st)
           n == FinishIfDone(m, c.tier)
<1>1. Become(n)
  BY DEF CollectorFailure
<1>2. /\ c \in CallType /\ c.cmd \in Commands /\ c.tier \in Tiers
      /\ MemoryOK(Return(c)) /\ Return(c).st = store /\ StoreOK(store)
  BY CallFacts, ReturnOK DEF CollectorFailure, Inv, MemoryOK, Memory
<1>3. KeepsOwner(store, marked) /\ Keeps(store, marked)
  BY <1>2, MarkFailedOK, FailureKeeps
<1> HIDE DEF marked
<1>4. FrameKept(marked, st) /\ KeepsOwner(marked, st)
  BY <1>2, <1>3, NoteRunnerFailureOK, FrameKeepsOwner DEF KeepsOwner
<1> HIDE DEF st
<1>5. MemoryOK(m) /\ m.st = st
  BY <1>2, <1>3, <1>4, KeepsOwnerTransitive, OnStoreOK
<1> HIDE DEF m
<1>6. MemoryOK(n) /\ SameSections(m, n)
  BY <1>2, <1>5, FinishIfDoneOK, FinishSections
<1> HIDE DEF n
<1>7. n.st.sections = marked.sections /\ n.st.epoch = marked.epoch /\ StoreOK(marked)
  BY <1>3, <1>4, <1>5, <1>6 DEF SameSections, FrameKept, KeepsOwner
<1> QED BY <1>1, <1>3, <1>6, <1>7, BecomeKeeps

\* A probe settling.
LEMMA ProbeSettlesKeeps ==
  ASSUME Inv, NEW t \in Tiers, ProbeSettles(t)
  PROVE  Keeps(store, store')
<1> DEFINE d == probes[t]
           alive == d \notin wedged /\ wsl[d] # "Absent"
           known == IF alive THEN ProbeAnswered(store) ELSE ProbeUnanswered(store)
           st == [known EXCEPT !.probing = None]
           told == OnStore(Memory, st)
           done == [told EXCEPT !.probes[t] = None]
           fast == ResumeWaiter(done, t, "fast", alive)
           medium == ResumeWaiter(fast, t, "medium", alive)
           slow == ResumeWaiter(medium, t, "slow", alive)
<1>1. Become(slow)
  BY DEF ProbeSettles
<1>2. /\ StoreOK(store) /\ Memory.st = store /\ MemoryOK(Memory)
      /\ wsl \in [Distros -> DistroState] /\ {"fast", "medium", "slow"} = Tiers
  BY DEF Inv, MemoryOK, Memory, Tiers
<1>3. alive \in BOOLEAN
  OBVIOUS
<1> HIDE DEF alive
<1>4. StoreOK(known) /\ FrameKept(store, known)
  BY <1>2, ProbeAnsweredOK, ProbeUnansweredOK
<1> HIDE DEF known
<1>5. KeepsOwner(store, known) /\ KeepsOwner(known, st) /\ FrameKept(known, st)
  BY <1>4, FrameKeepsOwner, SetProbingOK
<1> HIDE DEF st
<1>6. MemoryOK(told) /\ told.st = st
  BY <1>2, <1>5, KeepsOwnerTransitive, OnStoreOK
<1> HIDE DEF told
<1>7. MemoryOK(done) /\ done.st = st
  BY <1>6, SetProbeOK DEF MaybeDistro
<1> HIDE DEF done
<1>8. MemoryOK(fast) /\ SameSections(done, fast)
  BY <1>2, <1>3, <1>7, ResumeWaiterOK, ResumeSections
<1> HIDE DEF fast
<1>9. MemoryOK(medium) /\ SameSections(fast, medium)
  BY <1>2, <1>3, <1>8, ResumeWaiterOK, ResumeSections
<1> HIDE DEF medium
<1>10. SameSections(medium, slow)
  BY <1>2, <1>3, <1>9, ResumeSections
<1>11. slow.st.sections = store.sections /\ slow.st.epoch = store.epoch
  BY <1>4, <1>5, <1>7, <1>8, <1>9, <1>10 DEF SameSections, FrameKept
<1> HIDE DEF slow
<1>12. store' = slow.st
  BY <1>1 DEF Become
<1> QED BY <1>2, <1>11, <1>12, FrameKeeps

\* Time, the reports of the rest of the app, and the environment.
LEMMA OthersKeep ==
  ASSUME Inv, \/ Tick
              \/ \E cwd \in {"linux", "windows"} : SetTerminalContext(cwd)
              \/ \E error \in BOOLEAN : SetMcpStatus(error)
              \/ SetExplorerContext
              \/ Dispose
              \/ \E d \in Distros, s \in DistroState : ChangeWsl(d, s)
              \/ \E d \in Distros : ToggleWedge(d)
              \/ UNCHANGED vars
  PROVE  Keeps(store, store')
<1>1. StoreOK(store) /\ store \in StoreType
  BY DEF Inv, MemoryOK, Memory, StoreOK
<1>2. \A x : StoreOK(x) =>
        /\ Emit(x).sections = x.sections /\ Emit(x).epoch = x.epoch
        /\ Emit(Recompute(x)).sections = x.sections /\ Emit(Recompute(x)).epoch = x.epoch
  BY RecomputeOK, EmitOK DEF FrameKept
<1>3. ASSUME NEW cwd \in {"linux", "windows"}, SetTerminalContext(cwd)
      PROVE  store'.sections = store.sections /\ store'.epoch = store.epoch
  <2> DEFINE s == [store EXCEPT !.cwd = cwd]
  <2>1. StoreOK(s) /\ s.sections = store.sections /\ s.epoch = store.epoch
    BY <1>1 DEF StoreOK, StoreType
  <2>2. store' = Emit(s)
    BY <1>3 DEF SetTerminalContext
  <2> HIDE DEF s
  <2> QED BY <1>2, <2>1, <2>2
<1>4. ASSUME NEW error \in BOOLEAN, SetMcpStatus(error)
      PROVE  store'.sections = store.sections /\ store'.epoch = store.epoch
  <2> DEFINE s == [store EXCEPT !.mcpError = error]
  <2>1. StoreOK(s) /\ s.sections = store.sections /\ s.epoch = store.epoch
    BY <1>1 DEF StoreOK, StoreType
  <2>2. store' = Emit(Recompute(s))
    BY <1>4 DEF SetMcpStatus
  <2> HIDE DEF s
  <2> QED BY <1>2, <2>1, <2>2
<1>5. Tick \/ Dispose => store'.sections = store.sections /\ store'.epoch = store.epoch
  BY <1>1 DEF Tick, Dispose, StoreType
<1>6. store'.sections = store.sections /\ store'.epoch = store.epoch
  BY <1>1, <1>2, <1>3, <1>4, <1>5 DEF SetExplorerContext, ChangeWsl, ToggleWedge, vars
<1> QED BY <1>1, <1>6, FrameKeeps

\* A refresh starts no new sections.
LEMMA PollKeeps ==
  ASSUME Inv, NEW t \in Tiers, Poll(t)
  PROVE  Keeps(store, store')
<1>1. SameSections(Memory, Refresh(Memory, t)) /\ Memory.st = store /\ StoreOK(store)
  BY RefreshSections DEF Inv, Memory, MemoryOK
<1>2. store' = Refresh(Memory, t).st
  BY DEF Poll, Become
<1> QED BY <1>1, <1>2, FrameKeeps DEF SameSections

-----------------------------------------------------------------------------
(* Theorem *)

\* However tiers, switches and failures interleave, no step within one selection empties
\* a section that was filled or takes the ports back from "succeeded".
THEOREM LastGoodKept == Spec => KeepsLastGood
<1>1. Inv /\ [Next]_vars => Keeps(store, store')
  BY PollKeeps, SetDistroKeeps, ListReplyKeeps, ListFailureKeeps, CollectorReplyKeeps,
     CollectorFailureKeeps, ProbeSettlesKeeps, OthersKeep DEF Next
<1>2. Inv /\ [Next]_vars =>
        [store.sections # None /\ store'.epoch = store.epoch /\ store'.sections # None =>
           /\ \A c \in InDistro :
                store.sections.data[c] # None => store'.sections.data[c] # None
           /\ store.sections.ports = "succeeded" => store'.sections.ports = "succeeded"]_vars
  BY <1>1 DEF Keeps
<1> QED BY <1>2, InvariantHolds, PTL DEF Spec, KeepsLastGood

=============================================================================
