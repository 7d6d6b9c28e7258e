------------------------- MODULE AppLifecycleProofs -------------------------
(***************************************************************************)
(* Proofs about AppLifecycle: its types; that no sample of a recording is  *)
(* dropped; that a run starts with the settings last written; and that a   *)
(* failed install is told, and told again until the version is running.    *)
(***************************************************************************)
EXTENDS AppLifecycle, FiniteSetTheorems, SequenceTheorems, TLAPS

-----------------------------------------------------------------------------
(* Types *)

Names == Recordings \union {None}
Versions == Nat \union {None}

RecType == [enabled : BOOLEAN, path : Names, buffer : Seq(Recordings),
            writeError : BOOLEAN, ready : Names]
JobType == [target : Recordings, count : Nat]
FileType == [exists : BOOLEAN, samples : [Recordings -> Nat], summaries : Nat]
AskKinds == {"start", "stop", "dispose", "export"}
AskPhases == {"mkdir", "create", "flush", "flushed", "summary"}
AskType == [id : Nat, kind : AskKinds, phase : AskPhases, path : Names, wait : Nat]

\* The recorder's types.  A recording that is on, or whose file is being created, has
\* its name; so has the call that creates the file or prepares the export.
RecorderOK ==
  /\ rec \in RecType
  /\ chain \in Seq(JobType)
  /\ files \in [Recordings -> FileType]
  /\ asks \subseteq AskType /\ IsFiniteSet(asks)
  /\ rec.enabled \/ (\E a \in asks : a.phase = "create") => rec.path \in Recordings
  /\ \A a \in asks : a.phase = "create" \/ a.kind = "export" => a.path \in Recordings

StoreOK ==
  /\ settings \in [token : Nat, value : Values] \union {None}
  /\ app = "up" => settings # None
  /\ file \in Contents \union {Absent, Corrupt}

UpdaterType == [started : BOOLEAN, disposed : BOOLEAN,
                state : {"idle", "checking", "available", "not-available", "downloaded", "error"},
                version : Versions, failed : Versions]
LibraryType == [doing : {"nothing", "checking", "downloading"}, got : Versions]
UpdaterOK ==
  /\ updater \in UpdaterType /\ library \in LibraryType
  /\ pending \in Versions /\ version \in Nat /\ latest \in Nat

PastType == [durable : Contents \union {None, Corrupt}, tokens : Nat, told : Versions,
             tried : Versions, unrecorded : BOOLEAN, made : [Recordings -> Nat]]

\* The type invariant.
TypeOK ==
  /\ app \in {"down", "up", "finishing", "finished"}
  /\ RecorderOK /\ StoreOK /\ UpdaterOK
  /\ past \in PastType
  /\ budget \in [Things -> Nat]

-----------------------------------------------------------------------------
(* The inductive invariants *)

\* The write under way has in hand a part of the buffer.
HeadFits == chain # <<>> => Head(chain).count <= Len(rec.buffer)
SamplesInv == HeadFits /\ NoSampleDropped

\* The settings last written are those of the file.
FileInv == file = past.durable \/ (file = Absent /\ past.durable = None)

\* What is on display and what a quit installs: "downloaded" shows what was got, and
\* what was got is newer than what runs and no older than what the user was told.
DisplayInv ==
  /\ updater.state = "downloaded" =>
       updater.started /\ library.doing = "nothing" /\ updater.version = library.got
         /\ library.got # None
  /\ library.doing # "nothing" => updater.started
  /\ library.doing = "downloading" => version < latest
  /\ library.got # None =>
       /\ updater.started /\ version < library.got /\ library.got <= latest
       /\ past.told # None => past.told <= library.got
  /\ pending # None => pending <= latest
  /\ past.told # None => past.told <= latest

\* A quit under way has recorded what is on display.
QuitInv ==
  app \in {"finishing", "finished"} =>
    /\ updater.disposed
    /\ HandsOff /\ ~past.unrecorded => pending = updater.version

\* What was told, and what the last quit tried, is on record for the next start.
ToldInv ==
  ~past.unrecorded =>
    /\ past.told # None /\ version < past.told => pending # None /\ past.told <= pending
    /\ ~updater.started /\ past.tried # None /\ version < past.tried => pending = past.tried

UpdateInv == DisplayInv /\ QuitInv /\ ToldInv

\* The inductive invariant.
LifeInv == TypeOK /\ SamplesInv /\ FileInv /\ UpdateInv
-----------------------------------------------------------------------------
(* Counting samples *)

\* Where the samples of recording r are, in a sequence and in the files.
At(r, samples) == {i \in 1..Len(samples) : samples[i] = r}
InFiles(r, fs) == UNION {{f} \X (1..fs[f].samples[r]) : f \in Recordings}

\* A buffer holds finitely many samples of a recording (Of).
LEMMA OfType ==
  ASSUME NEW s \in Seq(Recordings), NEW r
  PROVE  IsFiniteSet(At(r, s)) /\ Of(r, s) = Cardinality(At(r, s)) /\ Of(r, s) \in Nat
<1>1. IsFiniteSet(1..Len(s))
  BY FS_Interval
<1>2. IsFiniteSet(At(r, s))
  BY <1>1, FS_Subset DEF At
<1> QED BY <1>2, FS_CardinalityType DEF At, Of

\* One more sample counts for its own recording only (Of).
LEMMA OfAppend ==
  ASSUME NEW s \in Seq(Recordings), NEW p \in Recordings, NEW r
  PROVE  Of(r, Append(s, p)) = IF p = r THEN Of(r, s) + 1 ELSE Of(r, s)
<1> DEFINE more == Append(s, p)
<1>1. more \in Seq(Recordings) /\ Len(more) = Len(s) + 1
      /\ more[Len(s) + 1] = p /\ \A i \in 1..Len(s) : more[i] = s[i]
  OBVIOUS
<1>2. At(r, more) = IF p = r THEN At(r, s) \union {Len(s) + 1} ELSE At(r, s)
  BY <1>1 DEF At
<1>3. Len(s) + 1 \notin At(r, s)
  BY DEF At
<1>4. Cardinality(At(r, s) \union {Len(s) + 1}) = Cardinality(At(r, s)) + 1
  BY <1>3, OfType, FS_AddElement
<1> QED BY <1>1, <1>2, <1>4, OfType

\* The samples of a buffer are those written and those that stay (Spliced).
LEMMA OfSplit ==
  ASSUME NEW s \in Seq(Recordings), NEW n \in 0..Len(s), NEW r
  PROVE  Of(r, s) = Of(r, SubSeq(s, 1, n)) + Of(r, SubSeq(s, n + 1, Len(s)))
<1> DEFINE front == SubSeq(s, 1, n)
           back == SubSeq(s, n + 1, Len(s))
           late == At(r, s) \ At(r, front)
           shift == [i \in At(r, back) |-> i + n]
<1>1. front \in Seq(Recordings) /\ Len(front) = n /\ \A i \in 1..n : front[i] = s[i]
  BY SubSeqProperties, Z3
<1>2. back \in Seq(Recordings) /\ Len(back) = Len(s) - n
      /\ \A i \in 1..(Len(s) - n) : back[i] = s[i + n]
  BY SubSeqProperties, Z3
<1> HIDE DEF front, back
<1>a. IsFiniteSet(At(r, back)) /\ Of(r, back) = Cardinality(At(r, back))
      /\ Of(r, back) \in Nat
  BY <1>2, OfType
<1>b. IsFiniteSet(At(r, front)) /\ Of(r, front) = Cardinality(At(r, front))
      /\ Of(r, front) \in Nat
  BY <1>1, OfType
<1>c. IsFiniteSet(At(r, s)) /\ Of(r, s) = Cardinality(At(r, s)) /\ Of(r, s) \in Nat
  BY OfType
<1>3. At(r, front) \subseteq At(r, s) /\ late = {i \in (n + 1)..Len(s) : s[i] = r}
  BY <1>1 DEF At
<1>4. shift \in Bijection(At(r, back), late)
  <2>1. shift \in [At(r, back) -> late]
    BY <1>2, <1>3 DEF At
  <2>2. \A i, j \in At(r, back) : shift[i] = shift[j] => i = j
    BY DEF At
  <2>3. \A k \in late : \E i \in At(r, back) : shift[i] = k
    <3> TAKE k \in late
    <3>1. k - n \in At(r, back)
      BY <1>2, <1>3 DEF At
    <3> WITNESS k - n \in At(r, back)
    <3> QED BY <3>1, <1>3
  <2> QED BY <2>1, <2>2, <2>3 DEF Bijection, Injection, Surjection, IsInjective
<1>5. Cardinality(late) = Of(r, back)
  <2>1. ExistsBijection(At(r, back), late)
    BY <1>4 DEF ExistsBijection
  <2> HIDE DEF late
  <2>2. Cardinality(late) = Cardinality(At(r, back))
    BY <1>a, <2>1, FS_Bijection
  <2> QED BY <1>a, <2>2
<1>6. Cardinality(late) = Of(r, s) - Of(r, front)
  <2>1. At(r, s) \cap At(r, front) = At(r, front)
    BY <1>3
  <2>2. Cardinality(late) = Cardinality(At(r, s)) - Cardinality(At(r, s) \cap At(r, front))
    BY <1>c, FS_Difference
  <2> QED BY <1>b, <1>c, <2>1, <2>2
<1> QED BY <1>a, <1>b, <1>c, <1>5, <1>6 DEF front, back

\* One row of a finite grid has as many points as its columns.
LEMMA FiniteGrid ==
  ASSUME NEW f, NEW a \in Nat, NEW b \in Nat
  PROVE  /\ IsFiniteSet({f} \X (1..b))
         /\ a <= b => /\ IsFiniteSet({f} \X ((a + 1)..b))
                      /\ Cardinality({f} \X ((a + 1)..b)) = b - a
<1>1. IsFiniteSet({f}) /\ Cardinality({f}) = 1
  BY FS_Singleton
<1>2. ASSUME NEW c \in Nat
      PROVE  /\ IsFiniteSet({f} \X (c..b))
             /\ c <= b + 1 => Cardinality({f} \X (c..b)) = b - c + 1
  <2> DEFINE row == c..b
  <2>1. IsFiniteSet(row)
    BY FS_Interval
  <2>2. c <= b + 1 => Cardinality(row) = b - c + 1
    BY FS_Interval
  <2> HIDE DEF row
  <2>3. IsFiniteSet({f} \X row) /\ Cardinality({f} \X row) = 1 * Cardinality(row)
    BY <1>1, <2>1, FS_Product
  <2>4. c <= b + 1 => Cardinality({f} \X row) = b - c + 1
    BY <2>2, <2>3
  <2> QED BY <2>3, <2>4 DEF row
<1>3. a + 1 \in Nat /\ (a <= b => a + 1 <= b + 1 /\ b - (a + 1) + 1 = b - a)
  OBVIOUS
<1>4. IsFiniteSet({f} \X (1..b))
  BY <1>2
<1>5. ASSUME a <= b
      PROVE  IsFiniteSet({f} \X ((a + 1)..b)) /\ Cardinality({f} \X ((a + 1)..b)) = b - a
  BY <1>2, <1>3, <1>5
<1> QED BY <1>4, <1>5

\* The files hold finitely many samples of a recording (Saved).
LEMMA SavedType ==
  ASSUME NEW fs \in [Recordings -> FileType], NEW r \in Recordings
  PROVE  IsFiniteSet(InFiles(r, fs)) /\ Cardinality(InFiles(r, fs)) \in Nat
<1>1. IsFiniteSet(InFiles(r, fs))
  <2> DEFINE part(f) == {f} \X (1..fs[f].samples[r])
             parts == {part(f) : f \in Recordings}
             every == [f \in Recordings |-> part(f)]
  <2>1. every \in Surjection(Recordings, parts)
    BY DEF Surjection
  <2>2. IsFiniteSet(parts)
    <3> HIDE DEF every, parts
    <3> QED BY <2>1, RecordingAssumption, FS_Surjection
  <2>3. ASSUME NEW f \in Recordings PROVE IsFiniteSet(part(f))
    <3> DEFINE n == fs[f].samples[r]
    <3>1. n \in Nat
      BY DEF FileType
    <3> HIDE DEF n
    <3>2. IsFiniteSet({f} \X (1..n))
      BY <3>1, FiniteGrid
    <3> QED BY <3>2 DEF n
  <2>4. \A T \in parts : IsFiniteSet(T)
    BY <2>3
  <2>5. InFiles(r, fs) = UNION parts
    BY DEF InFiles
  <2> HIDE DEF parts
  <2> QED BY <2>2, <2>4, <2>5, FS_UNION
<1> QED BY <1>1, FS_CardinalityType

\* A file that holds more samples than before adds that many to what is saved (Saved).
LEMMA SavedGrows ==
  ASSUME NEW fs \in [Recordings -> FileType], NEW g \in Recordings, NEW longer \in FileType,
         NEW r \in Recordings, fs[g].samples[r] <= longer.samples[r]
  PROVE  LET now == [fs EXCEPT ![g] = longer]
         IN /\ Cardinality(InFiles(r, now)) =
                 Cardinality(InFiles(r, fs)) + (longer.samples[r] - fs[g].samples[r])
            /\ Cardinality(InFiles(r, fs)) \in Nat
<1> DEFINE now == [fs EXCEPT ![g] = longer]
           few == fs[g].samples[r]
           many == longer.samples[r]
           more == {g} \X ((few + 1)..many)
<1>1. few \in Nat /\ many \in Nat
  BY DEF FileType
<1>a. few <= many
  OBVIOUS
<1>2. now \in [Recordings -> FileType] /\ now[g] = longer
      /\ \A f \in Recordings \ {g} : now[f] = fs[f]
  OBVIOUS
<1>3. IsFiniteSet(InFiles(r, fs)) /\ Cardinality(InFiles(r, fs)) \in Nat
  BY SavedType
<1>4. IsFiniteSet(more) /\ Cardinality(more) = many - few
  <2> HIDE DEF few, many
  <2> QED BY <1>1, <1>a, FiniteGrid
<1>5. InFiles(r, now) = InFiles(r, fs) \union more
  <2> HIDE DEF now
  <2>1. \A f \in Recordings \ {g} : 1..now[f].samples[r] = 1..fs[f].samples[r]
    BY <1>2
  <2>2. 1..now[g].samples[r] = (1..few) \union ((few + 1)..many)
    BY <1>1, <1>2
  <2> DEFINE new(f) == {f} \X (1..now[f].samples[r])
             old(f) == {f} \X (1..fs[f].samples[r])
  <2>3. \A f \in Recordings : new(f) = old(f) \union (IF f = g THEN more ELSE {})
    BY <2>1, <2>2
  <2>4. InFiles(r, now) = UNION {new(f) : f \in Recordings}
        /\ InFiles(r, fs) = UNION {old(f) : f \in Recordings}
    BY DEF InFiles
  <2> HIDE DEF new, old, more
  <2> QED BY <2>3, <2>4
<1>6. InFiles(r, fs) \cap more = {}
  BY <1>1 DEF InFiles
<1>8. Cardinality(InFiles(r, now)) = Cardinality(InFiles(r, fs)) + Cardinality(more) - 0
  <2> DEFINE old == InFiles(r, fs)
  <2> HIDE DEF old, more, now
  <2>1. Cardinality(old \union more) = Cardinality(old) + Cardinality(more) - Cardinality({})
    BY <1>3, <1>4, <1>6, FS_Union DEF old
  <2> QED BY <1>5, <2>1, FS_EmptySet DEF old
<1> QED BY <1>1, <1>3, <1>4, <1>8
-----------------------------------------------------------------------------
(* The recorder *)

\* The samples of recording r that are in a file or in the buffer.
Kept(r) == Saved(r) + Of(r, rec.buffer)

\* What is kept of a recording is a number, and in files a cardinality.
LEMMA KeptType ==
  ASSUME RecorderOK, NEW r \in Recordings
  PROVE  Saved(r) = Cardinality(InFiles(r, files)) /\ Saved(r) \in Nat
         /\ Of(r, rec.buffer) \in Nat /\ Kept(r) \in Nat
<1>1. files \in [Recordings -> FileType] /\ rec.buffer \in Seq(Recordings)
  BY DEF RecorderOK, RecType
<1>2. Saved(r) = Cardinality(InFiles(r, files))
  BY DEF Saved, InFiles
<1>3. Saved(r) \in Nat /\ Of(r, rec.buffer) \in Nat
  BY <1>1, <1>2, SavedType, OfType
<1> QED BY <1>2, <1>3 DEF Kept

\* The same of the state after a step.
LEMMA KeptTypeNext ==
  ASSUME RecorderOK', NEW r \in Recordings
  PROVE  Kept(r)' \in Nat
<1>1. files' \in [Recordings -> FileType] /\ rec'.buffer \in Seq(Recordings)
  BY DEF RecorderOK, RecType
<1>2. Saved(r)' = Cardinality(InFiles(r, files'))
  BY DEF Saved, InFiles
<1>3. Saved(r)' \in Nat /\ Of(r, rec'.buffer) \in Nat
  BY <1>1, <1>2, SavedType, OfType
<1>4. Kept(r)' = Saved(r)' + Of(r, rec'.buffer)
  BY DEF Kept, Of
<1> QED BY <1>3, <1>4

\* A call gets an identifier no call under way has (Ask).
LEMMA AskOK ==
  ASSUME asks \subseteq AskType, IsFiniteSet(asks),
         NEW kind \in AskKinds, NEW phase \in AskPhases, NEW path \in Names, NEW wait \in Nat
  PROVE  LET a == Ask(kind, phase, path, wait)
         IN a \in AskType /\ a.phase = phase /\ a.path = path /\ a.kind = kind
<1> DEFINE n == Cardinality(asks)
           ids == {a.id : a \in asks}
           idOf == [a \in asks |-> a.id]
<1>1. n \in Nat
  BY FS_CardinalityType
<1>2. idOf \in Surjection(asks, ids)
  BY DEF Surjection
<1>3. IsFiniteSet(ids) /\ Cardinality(ids) <= n
  <2> HIDE DEF ids, idOf
  <2> QED BY <1>2, FS_Surjection
<1>4. IsFiniteSet(0..n) /\ Cardinality(0..n) = n + 1
  <2> HIDE DEF n
  <2>1. IsFiniteSet(0..n) /\ Cardinality(0..n) = n - 0 + 1
    BY <1>1, FS_Interval
  <2> QED BY <1>1, <2>1
<1>5. Cardinality(ids) \in Nat
  BY <1>3, FS_CardinalityType
<1>6. ~(0..n \subseteq ids)
  <2> HIDE DEF ids, n
  <2>1. 0..n \subseteq ids => Cardinality(0..n) <= Cardinality(ids)
    BY <1>3, FS_Subset
  <2> QED BY <1>1, <1>3, <1>4, <1>5, <2>1
<1>7. PICK i \in 0..n : \A a \in asks : a.id # i
  BY <1>6
<1>8. (CHOOSE j \in 0..n : \A a \in asks : a.id # j) \in Nat
  BY <1>1, <1>7
<1> QED BY <1>8 DEF Ask, AskType

\* A write takes its turn with what is in the buffer (Turn).
LEMMA TurnOK ==
  ASSUME NEW jobs \in Seq(JobType), NEW buffer \in Seq(Recordings)
  PROVE  /\ Turn(jobs, buffer) \in Seq(JobType)
         /\ Turn(jobs, buffer) # <<>> => Head(Turn(jobs, buffer)).count = Len(buffer)
<1>1. CASE jobs = <<>>
  BY <1>1 DEF Turn
<1>2. CASE jobs # <<>>
  <2> DEFINE first == [jobs[1] EXCEPT !.count = Len(buffer)]
             now == [jobs EXCEPT ![1] = first]
  <2>1. 1 \in 1..Len(jobs) /\ jobs[1] \in JobType
    BY <1>2
  <2>2. first \in JobType /\ first.count = Len(buffer)
    BY <2>1 DEF JobType
  <2>3. Turn(jobs, buffer) = now
    BY <1>2 DEF Turn
  <2> HIDE DEF first
  <2>4. now \in Seq(JobType) /\ Len(now) = Len(jobs) /\ now[1] = first
    BY <2>1, <2>2, ExceptSeq
  <2>5. now # <<>> /\ Head(now) = first
    BY <2>1, <2>4
  <2> QED BY <2>2, <2>3, <2>4, <2>5
<1> QED BY <1>1, <1>2

\* A flush leaves the write under way alone, or starts one with the buffer (Flush).
LEMMA FlushOK ==
  ASSUME NEW jobs \in Seq(JobType), NEW buffer \in Seq(Recordings), NEW target \in Names,
         jobs # <<>> => Head(jobs).count <= Len(buffer)
  PROVE  LET now == Flush(jobs, buffer, target)
         IN /\ now \in Seq(JobType) /\ Len(now) \in Nat
            /\ now # <<>> => Head(now).count <= Len(buffer)
<1> DEFINE job == [target |-> target, count |-> 0]
           more == Append(jobs, job)
<1>1. CASE target = None \/ buffer = <<>>
  BY <1>1 DEF Flush
<1>2. CASE target # None /\ buffer # <<>>
  <2>1. job \in JobType
    BY <1>2 DEF JobType, Names
  <2> HIDE DEF job
  <2>2. more \in Seq(JobType) /\ (jobs # <<>> => Head(more) = Head(jobs))
    BY <2>1
  <2>3. Turn(more, buffer) \in Seq(JobType)
        /\ (Turn(more, buffer) # <<>> => Head(Turn(more, buffer)).count = Len(buffer))
    BY <2>2, TurnOK
  <2>4. CASE jobs = <<>>
    BY <1>2, <2>3, <2>4 DEF Flush, job
  <2>5. CASE jobs # <<>>
    BY <1>2, <2>2, <2>5 DEF Flush, job
  <2> QED BY <2>4, <2>5
<1> QED BY <1>1, <1>2
\* Calls come and go, and go on, as calls (asks).
LEMMA AsksOK ==
  ASSUME asks \subseteq AskType, IsFiniteSet(asks), NEW a, NEW b \in AskType
  PROVE  /\ asks \ {a} \subseteq AskType /\ IsFiniteSet(asks \ {a})
         /\ asks \union {b} \subseteq AskType /\ IsFiniteSet(asks \union {b})
         /\ (asks \ {a}) \union {b} \subseteq AskType /\ IsFiniteSet((asks \ {a}) \union {b})
<1>1. IsFiniteSet(asks \ {a})
  BY FS_RemoveElement
<1>2. IsFiniteSet(asks \union {b}) /\ IsFiniteSet((asks \ {a}) \union {b})
  BY <1>1, FS_AddElement
<1> QED BY <1>1, <1>2

\* What an operation of the recorder keeps.
RecorderKept == RecorderOK' /\ HeadFits' /\ \A r \in Recordings : Kept(r) <= Kept(r)'

\* An operation that leaves the buffer and the samples in the files as they are.
LEMMA QuietKept ==
  ASSUME RecorderOK, RecorderOK', rec'.buffer = rec.buffer, HeadFits',
         \A f \in Recordings : files'[f].samples = files[f].samples
  PROVE  RecorderKept
<1> SUFFICES ASSUME NEW r \in Recordings PROVE Kept(r) <= Kept(r)'
  BY DEF RecorderKept
<1>1. Saved(r)' = Saved(r)
  BY DEF Saved
<1>2. Of(r, rec.buffer)' = Of(r, rec.buffer)
  BY DEF Of
<1> QED BY <1>1, <1>2, KeptType DEF Kept

\* A start only asks for the directory: nothing recorded is lost.
LEMMA StartRecordingKept ==
  ASSUME RecorderOK, HeadFits, StartRecording
  PROVE  RecorderKept
<1> DEFINE a == Ask("start", "mkdir", None, 0)
<1>1. a \in AskType /\ a.phase = "mkdir" /\ a.kind = "start"
  <2>1. "start" \in AskKinds /\ "mkdir" \in AskPhases /\ None \in Names
    BY DEF AskKinds, AskPhases, Names
  <2> QED BY <2>1, AskOK DEF RecorderOK
<1>2. asks' = asks \union {a} /\ UNCHANGED <<rec, chain, files>>
  BY DEF StartRecording
<1> HIDE DEF a
<1>3. RecorderOK'
  BY <1>1, <1>2, AsksOK DEF RecorderOK
<1>4. HeadFits'
  BY <1>2 DEF HeadFits
<1> QED BY <1>2, <1>3, <1>4, QuietKept

\* A new recording begins with an empty buffer of its own, or the call ends.
LEMMA DirectoryMadeKept ==
  ASSUME RecorderOK, HeadFits, NEW a \in asks, DirectoryMade(a)
  PROVE  RecorderKept
<1>1. a \in AskType /\ a.kind = "start" /\ a.phase = "mkdir"
  BY DEF RecorderOK, DirectoryMade, Goes
<1>2. UNCHANGED <<chain, files>>
  BY DEF DirectoryMade
<1>3. CASE UNCHANGED rec /\ asks' = asks \ {a}
  <2>1. RecorderOK'
    BY <1>1, <1>2, <1>3, AsksOK DEF RecorderOK
  <2>2. HeadFits'
    BY <1>2, <1>3 DEF HeadFits
  <2> QED BY <1>2, <1>3, <2>1, <2>2, QuietKept
<1>4. ASSUME NEW r \in Recordings, rec' = [rec EXCEPT !.path = r],
             asks' = (asks \ {a}) \union {[a EXCEPT !.phase = "create", !.path = r]}
      PROVE  RecorderKept
  <2> DEFINE b == [a EXCEPT !.phase = "create", !.path = r]
  <2>1. b \in AskType /\ b.path = r /\ b.kind = "start"
    BY <1>1 DEF AskType, AskPhases, Names
  <2>2. rec' \in RecType /\ rec'.path = r /\ rec'.buffer = rec.buffer
    BY <1>4 DEF RecorderOK, RecType, Names
  <2>3. asks' = (asks \ {a}) \union {b}
    BY <1>4
  <2> HIDE DEF b
  <2>4. RecorderOK'
    BY <1>2, <2>1, <2>2, <2>3, AsksOK DEF RecorderOK
  <2>5. HeadFits'
    BY <1>2, <2>2 DEF HeadFits
  <2> QED BY <1>2, <2>2, <2>4, <2>5, QuietKept
<1> QED BY <1>3, <1>4 DEF DirectoryMade

\* The file of a recording is created before any of its samples is written.
LEMMA FileCreatedKept ==
  ASSUME RecorderOK, HeadFits, NEW a \in asks, FileCreated(a)
  PROVE  RecorderKept
<1>1. a \in AskType /\ a.phase = "create" /\ a.path \in Recordings /\ rec.path \in Recordings
  BY DEF RecorderOK, FileCreated, Goes
<1>2. UNCHANGED chain /\ asks' = asks \ {a}
  BY DEF FileCreated
<1>3. rec' \in RecType /\ rec'.path = rec.path /\ rec'.buffer = rec.buffer
  BY DEF FileCreated, RecorderOK, RecType, Names
<1>4. files' \in [Recordings -> FileType]
      /\ \A f \in Recordings : files'[f].samples = files[f].samples
  <2> DEFINE created == [files[a.path] EXCEPT !.exists = TRUE]
  <2>1. files \in [Recordings -> FileType]
    BY DEF RecorderOK
  <2>2. created \in FileType /\ created.samples = files[a.path].samples
    BY <1>1, <2>1 DEF FileType
  <2>3. files' \in {files, [files EXCEPT ![a.path] = created]}
    BY DEF FileCreated
  <2> HIDE DEF created
  <2> QED BY <1>1, <2>1, <2>2, <2>3
<1>5. RecorderOK'
  BY <1>1, <1>2, <1>3, <1>4, AsksOK DEF RecorderOK
<1>6. HeadFits'
  BY <1>2, <1>3 DEF HeadFits
<1> QED BY <1>3, <1>4, <1>5, <1>6, QuietKept

\* A stop, and the disposal on the way out, queue what is in the buffer.
LEMMA StopRecordingKept ==
  ASSUME RecorderOK, HeadFits, NEW kind \in {"stop", "dispose"}, StopRecording(kind)
  PROVE  RecorderKept
<1> DEFINE wait == IF rec.enabled THEN Len(chain') ELSE 0
           a == Ask(kind, "flush", rec.path, wait)
<1>1. chain \in Seq(JobType) /\ rec.buffer \in Seq(Recordings) /\ rec.path \in Names
  BY DEF RecorderOK, RecType
<1>2. chain' \in Seq(JobType) /\ Len(chain') \in Nat
      /\ (chain' # <<>> => Head(chain').count <= Len(rec.buffer))
  BY <1>1, FlushOK DEF StopRecording, HeadFits
<1>3. rec' \in RecType /\ rec'.path = rec.path /\ rec'.buffer = rec.buffer /\ ~rec'.enabled
  BY DEF StopRecording, RecorderOK, RecType
<1>4. wait \in Nat
  BY <1>2
<1> HIDE DEF wait
<1>5. a \in AskType /\ a.phase = "flush" /\ a.kind = kind
  BY <1>1, <1>4, AskOK DEF RecorderOK, AskKinds, AskPhases
<1>6. asks' = asks \union {a} /\ UNCHANGED files
  BY DEF StopRecording, wait
<1> HIDE DEF a
<1>7. RecorderOK'
  BY <1>2, <1>3, <1>5, <1>6, AsksOK DEF RecorderOK
<1>8. HeadFits'
  BY <1>2, <1>3 DEF HeadFits
<1> QED BY <1>3, <1>6, <1>7, <1>8, QuietKept

\* A call that only ends leaves buffer, queue and files alone.
LEMMA StopEndsKept ==
  ASSUME RecorderOK, HeadFits, NEW a \in asks, asks' = asks \ {a},
         UNCHANGED <<rec, chain, files>>
  PROVE  RecorderKept
<1>1. a \in AskType
  BY DEF RecorderOK
<1>2. RecorderOK'
  BY <1>1, AsksOK DEF RecorderOK
<1>3. HeadFits'
  BY DEF HeadFits
<1> QED BY <1>2, <1>3, QuietKept

\* A disposal queues what came in while it waited for the last write.
LEMMA DisposeGoesOnKept ==
  ASSUME RecorderOK, HeadFits, NEW a \in asks, DisposeGoesOn(a)
  PROVE  RecorderKept
<1> DEFINE b == [a EXCEPT !.phase = "flushed", !.wait = Len(chain')]
<1>1. chain \in Seq(JobType) /\ rec.buffer \in Seq(Recordings) /\ rec.path \in Names
  BY DEF RecorderOK, RecType
<1>2. chain' \in Seq(JobType) /\ Len(chain') \in Nat
      /\ (chain' # <<>> => Head(chain').count <= Len(rec.buffer))
  BY <1>1, FlushOK DEF DisposeGoesOn, HeadFits
<1>3. a \in AskType /\ a.kind = "dispose"
  BY DEF RecorderOK, DisposeGoesOn, Goes
<1>4. b \in AskType /\ b.phase = "flushed" /\ b.kind = "dispose"
  BY <1>2, <1>3 DEF AskType, AskPhases
<1>5. asks' = (asks \ {a}) \union {b} /\ UNCHANGED <<rec, files>>
  BY DEF DisposeGoesOn, Move
<1> HIDE DEF b
<1>6. RecorderOK'
  BY <1>2, <1>4, <1>5, AsksOK DEF RecorderOK
<1>7. HeadFits'
  BY <1>2, <1>5 DEF HeadFits
<1> QED BY <1>5, <1>6, <1>7, QuietKept

\* An export queues what is in the buffer, like a stop.
LEMMA PrepareExportKept ==
  ASSUME RecorderOK, HeadFits, PrepareExport
  PROVE  RecorderKept
<1> DEFINE phase == IF chain' = <<>> THEN "summary" ELSE "flush"
           a == Ask("export", phase, rec.path, Len(chain'))
<1>1. chain \in Seq(JobType) /\ rec.buffer \in Seq(Recordings) /\ rec.path \in Recordings
  BY DEF RecorderOK, RecType, PrepareExport, Names
<1>2. chain' \in Seq(JobType) /\ Len(chain') \in Nat
      /\ (chain' # <<>> => Head(chain').count <= Len(rec.buffer))
  BY <1>1, FlushOK DEF PrepareExport, HeadFits, Names
<1>3. rec' \in RecType /\ rec'.path = rec.path /\ rec'.buffer = rec.buffer
  BY <1>1 DEF PrepareExport, RecorderOK, RecType, Names
<1>4. phase \in AskPhases /\ phase # "create"
  BY DEF AskPhases
<1> HIDE DEF phase
<1>5. a \in AskType /\ a.phase = phase /\ a.path = rec.path
  BY <1>1, <1>2, <1>4, AskOK DEF RecorderOK, AskKinds, Names
<1>6. asks' = asks \union {a} /\ UNCHANGED files
  BY DEF PrepareExport, phase
<1> HIDE DEF a
<1>7. RecorderOK'
  BY <1>1, <1>2, <1>3, <1>4, <1>5, <1>6, AsksOK DEF RecorderOK
<1>8. HeadFits'
  BY <1>2, <1>3 DEF HeadFits
<1> QED BY <1>3, <1>6, <1>7, <1>8, QuietKept

\* Once flushed, an export goes on to its summary and touches no sample.
LEMMA ExportFlushedKept ==
  ASSUME RecorderOK, HeadFits, NEW a \in asks, ExportFlushed(a)
  PROVE  RecorderKept
<1>1. a \in AskType /\ a.kind = "export" /\ a.path \in Recordings
  BY DEF RecorderOK, ExportFlushed, Goes
<1>2. UNCHANGED <<chain, files>>
  BY DEF ExportFlushed
<1>3. rec' \in RecType /\ rec'.path = rec.path /\ rec'.buffer = rec.buffer
      /\ rec'.enabled = rec.enabled
  BY DEF ExportFlushed, RecorderOK, RecType, Names
<1>4. CASE asks' = asks \ {a}
  <2>1. RecorderOK'
    BY <1>1, <1>2, <1>3, <1>4, AsksOK DEF RecorderOK
  <2>2. HeadFits'
    BY <1>2, <1>3 DEF HeadFits
  <2> QED BY <1>2, <1>3, <2>1, <2>2, QuietKept
<1>5. CASE asks' = Move(a, "summary", 0)
  <2> DEFINE b == [a EXCEPT !.phase = "summary", !.wait = 0]
  <2>1. b \in AskType /\ b.phase = "summary" /\ b.path = a.path
    BY <1>1 DEF AskType, AskPhases
  <2>2. asks' = (asks \ {a}) \union {b}
    BY <1>5 DEF Move
  <2> HIDE DEF b
  <2>3. RecorderOK'
    BY <1>1, <1>2, <1>3, <2>1, <2>2, AsksOK DEF RecorderOK
  <2>4. HeadFits'
    BY <1>2, <1>3 DEF HeadFits
  <2> QED BY <1>2, <1>3, <2>3, <2>4, QuietKept
<1> QED BY <1>4, <1>5 DEF ExportFlushed

\* Writing a summary leaves every sample where it is.
LEMMA SummaryWrittenKept ==
  ASSUME RecorderOK, HeadFits, NEW a \in asks, SummaryWritten(a)
  PROVE  RecorderKept
<1>1. a \in AskType /\ a.path \in Recordings
  BY DEF RecorderOK, SummaryWritten, Goes
<1>2. UNCHANGED chain /\ asks' = asks \ {a}
  BY DEF SummaryWritten
<1>3. rec' \in RecType /\ rec'.path = rec.path /\ rec'.buffer = rec.buffer
      /\ rec'.enabled = rec.enabled
  BY DEF SummaryWritten, RecorderOK, RecType
<1>4. files' \in [Recordings -> FileType]
      /\ \A f \in Recordings : files'[f].samples = files[f].samples
  <2> DEFINE one == files[a.path]
             n == one.summaries + 1
             more == [one EXCEPT !.exists = TRUE, !.summaries = n]
  <2>1. files \in [Recordings -> FileType]
    BY DEF RecorderOK
  <2>2. one \in FileType
    BY <1>1, <2>1
  <2>3. files' = [files EXCEPT ![a.path] = more]
    BY <1>1, <2>1 DEF SummaryWritten, FileType
  <2> HIDE DEF one
  <2>a. n \in Nat
    BY <2>2 DEF FileType
  <2> HIDE DEF n
  <2>4. more \in FileType /\ more.samples = one.samples
    BY <2>2, <2>a DEF FileType
  <2> HIDE DEF more
  <2> QED BY <1>1, <2>1, <2>3, <2>4 DEF one
<1>5. RecorderOK'
  BY <1>1, <1>2, <1>3, <1>4, AsksOK DEF RecorderOK
<1>6. HeadFits'
  BY <1>2, <1>3 DEF HeadFits
<1> QED BY <1>3, <1>4, <1>5, <1>6, QuietKept

\* A summary that fails ends its call, and the samples stay.
LEMMA SummaryFailsKept ==
  ASSUME RecorderOK, HeadFits, NEW a \in asks, SummaryFails(a)
  PROVE  RecorderKept
<1>1. a \in AskType
  BY DEF RecorderOK
<1>2. UNCHANGED <<chain, files>> /\ asks' = asks \ {a}
  BY DEF SummaryFails
<1>3. rec' \in RecType /\ rec'.path = rec.path /\ rec'.buffer = rec.buffer
      /\ rec'.enabled = rec.enabled
  BY DEF SummaryFails, SummaryLost, RecorderOK, RecType, Names
<1>4. RecorderOK'
  BY <1>1, <1>2, <1>3, AsksOK DEF RecorderOK
<1>5. HeadFits'
  BY <1>2, <1>3 DEF HeadFits
<1> QED BY <1>2, <1>3, <1>4, <1>5, QuietKept
\* Those who wait for a write wait for one less (Released).
LEMMA ReleasedOK ==
  ASSUME asks \subseteq AskType, IsFiniteSet(asks)
  PROVE  /\ Released \subseteq AskType /\ IsFiniteSet(Released)
         /\ \A b \in Released :
              \E a \in asks : b.phase = a.phase /\ b.kind = a.kind /\ b.path = a.path
<1> DEFINE next(a) == [a EXCEPT !.wait = IF @ = 0 THEN 0 ELSE @ - 1]
           step == [a \in asks |-> next(a)]
<1>1. \A a \in asks : next(a) \in AskType /\ next(a).phase = a.phase
        /\ next(a).kind = a.kind /\ next(a).path = a.path
  BY DEF AskType
<1>2. Released = {next(a) : a \in asks}
  BY DEF Released
<1>3. step \in Surjection(asks, Released)
  BY <1>2 DEF Surjection
<1>4. IsFiniteSet(Released)
  <2> HIDE DEF step
  <2> QED BY <1>3, FS_Surjection
<1> HIDE DEF next
<1> QED BY <1>1, <1>2, <1>4

\* What a write puts in a file (Longer).
LEMMA LongerOK ==
  ASSUME NEW f \in FileType, NEW s \in Seq(Recordings)
  PROVE  /\ Longer(f, s) \in FileType
         /\ \A r \in Recordings : Longer(f, s).samples[r] = f.samples[r] + Of(r, s)
<1> DEFINE sums == [r \in Recordings |-> f.samples[r] + Of(r, s)]
<1>1. sums \in [Recordings -> Nat]
  <2>1. \A r \in Recordings : Of(r, s) \in Nat
    BY OfType
  <2> QED BY <2>1 DEF FileType
<1>2. Longer(f, s) = [f EXCEPT !.exists = TRUE, !.samples = sums]
  BY DEF Longer
<1>3. \A r \in Recordings : sums[r] = f.samples[r] + Of(r, s)
  OBVIOUS
<1> HIDE DEF sums
<1> QED BY <1>1, <1>2, <1>3 DEF FileType

\* A file that a write of samples s made longer holds that many more (Saved).
LEMMA WrittenSaved ==
  ASSUME RecorderOK, NEW g \in Recordings, NEW s \in Seq(Recordings), NEW r \in Recordings,
         files' = [files EXCEPT ![g] = Longer(files[g], s)]
  PROVE  files' \in [Recordings -> FileType] /\ Saved(r)' = Saved(r) + Of(r, s)
<1> DEFINE f == files[g]
           longer == Longer(f, s)
<1>1. files \in [Recordings -> FileType] /\ f \in FileType
  BY DEF RecorderOK
<1>2. longer \in FileType /\ longer.samples[r] = f.samples[r] + Of(r, s)
  BY <1>1, LongerOK
<1>3. f.samples[r] \in Nat /\ Of(r, s) \in Nat
  BY <1>1, OfType DEF FileType
<1> HIDE DEF longer
<1>4. files' = [files EXCEPT ![g] = longer]
  BY DEF longer
<1>a. files[g].samples[r] <= longer.samples[r]
  BY <1>2, <1>3
<1>5. Cardinality(InFiles(r, [files EXCEPT ![g] = longer])) =
        Cardinality(InFiles(r, files)) + (longer.samples[r] - files[g].samples[r])
      /\ Cardinality(InFiles(r, files)) \in Nat
  BY <1>1, <1>2, <1>a, SavedGrows
<1>6. Saved(r) = Cardinality(InFiles(r, files)) /\ Saved(r)' = Cardinality(InFiles(r, files'))
  BY DEF Saved, InFiles
<1> HIDE DEF f
<1>7. longer.samples[r] - files[g].samples[r] = Of(r, s)
  BY <1>2, <1>3 DEF f
<1>8. files' \in [Recordings -> FileType]
  BY <1>1, <1>2, <1>4
<1> QED BY <1>4, <1>5, <1>6, <1>7, <1>8

\* When a write is over the next takes its turn (WriteOver).
LEMMA WriteOverOK ==
  ASSUME RecorderOK, NEW buffer \in Seq(Recordings), chain # <<>>, WriteOver(buffer)
  PROVE  /\ chain' \in Seq(JobType)
         /\ chain' # <<>> => Head(chain').count <= Len(buffer)
         /\ asks' \subseteq AskType /\ IsFiniteSet(asks')
         /\ \A b \in asks' :
              \E a \in asks : b.phase = a.phase /\ b.kind = a.kind /\ b.path = a.path
<1>1. Tail(chain) \in Seq(JobType)
  BY DEF RecorderOK
<1>2. Len(buffer) \in Nat
  OBVIOUS
<1>3. chain' \in Seq(JobType) /\ (chain' # <<>> => Head(chain').count = Len(buffer))
  BY <1>1, TurnOK DEF WriteOver
<1>4. chain' # <<>> => Head(chain').count <= Len(buffer)
  BY <1>2, <1>3
<1>5. asks' = Released
  BY DEF WriteOver
<1> QED BY <1>3, <1>4, <1>5, ReleasedOK DEF RecorderOK

\* A write that succeeds moves its batch to the file, and what was recorded while it
\* ran stays in the buffer.
LEMMA WriteEndsKept ==
  ASSUME RecorderOK, HeadFits, WriteEnds
  PROVE  RecorderKept
<1> DEFINE job == Head(chain)
           n == job.count
           rest == SubSeq(rec.buffer, n + 1, Len(rec.buffer))
           batch == SubSeq(rec.buffer, 1, n)
<1>1. chain # <<>> /\ WriteOver(rec'.buffer)
  BY DEF WriteEnds
<1>2. rec \in RecType /\ rec.buffer \in Seq(Recordings) /\ chain \in Seq(JobType)
  BY DEF RecorderOK, RecType
<1>3. job \in JobType /\ n \in 0..Len(rec.buffer) /\ job.target \in Recordings
  <2>1. job \in JobType
    BY <1>1, <1>2
  <2>2. n <= Len(rec.buffer)
    BY <1>1 DEF HeadFits
  <2> QED BY <1>2, <2>1, <2>2 DEF JobType
<1>4. CASE n = 0
  <2>1. UNCHANGED <<rec, files>>
    BY <1>4 DEF WriteEnds
  <2>2. chain' \in Seq(JobType) /\ (chain' # <<>> => Head(chain').count <= Len(rec.buffer))
        /\ asks' \subseteq AskType /\ IsFiniteSet(asks')
        /\ \A b \in asks' :
             \E a \in asks : b.phase = a.phase /\ b.kind = a.kind /\ b.path = a.path
    BY <1>1, <1>2, <2>1, WriteOverOK
  <2>3. RecorderOK'
    BY <2>1, <2>2 DEF RecorderOK
  <2>4. HeadFits'
    BY <2>1, <2>2 DEF HeadFits
  <2> QED BY <2>1, <2>3, <2>4, QuietKept
<1>5. CASE n # 0
  <2>1. rec' = [rec EXCEPT !.buffer = rest, !.writeError = FALSE]
    BY <1>5 DEF WriteEnds, Spliced
  <2>2. files' = [files EXCEPT ![job.target] = Longer(files[job.target], batch)]
    BY <1>5 DEF WriteEnds
  <2>3. rest \in Seq(Recordings) /\ batch \in Seq(Recordings)
    BY <1>2, <1>3, SubSeqProperties
  <2>a. \A r \in Recordings : Of(r, rec.buffer) = Of(r, batch) + Of(r, rest)
    BY <1>2, <1>3, OfSplit
  <2> HIDE DEF rest, batch
  <2>4. rec' \in RecType /\ rec'.path = rec.path /\ rec'.enabled = rec.enabled
        /\ rec'.buffer = rest
    BY <1>2, <2>1, <2>3 DEF RecType
  <2>5. chain' \in Seq(JobType) /\ (chain' # <<>> => Head(chain').count <= Len(rest))
        /\ asks' \subseteq AskType /\ IsFiniteSet(asks')
        /\ \A b \in asks' :
             \E a \in asks : b.phase = a.phase /\ b.kind = a.kind /\ b.path = a.path
    BY <1>1, <2>3, <2>4, WriteOverOK
  <2>6. \A r \in Recordings :
          files' \in [Recordings -> FileType] /\ Saved(r)' = Saved(r) + Of(r, batch)
    <3> HIDE DEF job
    <3> QED BY <1>3, <2>2, <2>3, WrittenSaved
  <2>7. files' \in [Recordings -> FileType]
    BY <1>3, <2>6
  <2>8. RecorderOK'
    BY <2>4, <2>5, <2>7 DEF RecorderOK
  <2>9. HeadFits'
    BY <2>4, <2>5 DEF HeadFits
  <2>10. ASSUME NEW r \in Recordings PROVE Kept(r) <= Kept(r)'
    <3>1. Kept(r) = Saved(r) + Of(r, rec.buffer) /\ Kept(r)' = Saved(r)' + Of(r, rest)
      BY <2>4 DEF Kept, Of
    <3>2. Saved(r) \in Nat /\ Of(r, batch) \in Nat /\ Of(r, rest) \in Nat
      BY <2>3, OfType, KeptType
    <3> QED BY <2>6, <2>a, <3>1, <3>2
  <2> QED BY <2>8, <2>9, <2>10 DEF RecorderKept
<1> QED BY <1>4, <1>5

\* A write that fails keeps its batch in the buffer, whatever part is in the file.
LEMMA WriteFailsKept ==
  ASSUME RecorderOK, HeadFits, WriteFails
  PROVE  RecorderKept
<1> DEFINE job == Head(chain)
<1>1. chain # <<>> /\ WriteOver(rec.buffer)
  BY DEF WriteFails
<1>2. rec \in RecType /\ rec.buffer \in Seq(Recordings) /\ chain \in Seq(JobType)
      /\ files \in [Recordings -> FileType]
  BY DEF RecorderOK, RecType
<1>3. job \in JobType /\ job.count \in 0..Len(rec.buffer) /\ job.target \in Recordings
  <2>1. job \in JobType
    BY <1>1, <1>2
  <2>2. job.count <= Len(rec.buffer)
    BY <1>1 DEF HeadFits
  <2> QED BY <1>2, <2>1, <2>2 DEF JobType
<1>4. rec' \in RecType /\ rec'.path = rec.path /\ ~rec'.enabled /\ rec'.buffer = rec.buffer
  BY <1>2 DEF WriteFails, RecType
<1>5. chain' \in Seq(JobType) /\ (chain' # <<>> => Head(chain').count <= Len(rec.buffer))
      /\ asks' \subseteq AskType /\ IsFiniteSet(asks')
      /\ \A b \in asks' :
           \E a \in asks : b.phase = a.phase /\ b.kind = a.kind /\ b.path = a.path
  BY <1>1, <1>2, WriteOverOK
<1>6. HeadFits'
  BY <1>4, <1>5 DEF HeadFits
<1>7. PICK part \in 0..(job.count - 1) :
        files' = [files EXCEPT ![job.target] =
                    IF part = 0 THEN @ ELSE Longer(@, SubSeq(rec.buffer, 1, part))]
  BY DEF WriteFails
<1>8. CASE part = 0
  <2>1. files' = files
    BY <1>2, <1>7, <1>8
  <2>2. RecorderOK'
    BY <1>2, <1>4, <1>5, <2>1 DEF RecorderOK
  <2> QED BY <1>4, <1>6, <2>1, <2>2, QuietKept
<1>9. CASE part # 0
  <2> DEFINE batch == SubSeq(rec.buffer, 1, part)
  <2>1. batch \in Seq(Recordings)
    BY <1>2, <1>3, SubSeqProperties
  <2>2. files' = [files EXCEPT ![job.target] = Longer(files[job.target], batch)]
    BY <1>7, <1>9
  <2> HIDE DEF batch, job
  <2>3. \A r \in Recordings :
          files' \in [Recordings -> FileType] /\ Saved(r)' = Saved(r) + Of(r, batch)
    BY <1>3, <2>1, <2>2, WrittenSaved
  <2>4. RecorderOK'
    BY <1>3, <1>4, <1>5, <2>3 DEF RecorderOK
  <2>5. ASSUME NEW r \in Recordings PROVE Kept(r) <= Kept(r)'
    <3>1. Kept(r) = Saved(r) + Of(r, rec.buffer) /\ Kept(r)' = Saved(r)' + Of(r, rec.buffer)
      BY <1>4 DEF Kept, Of
    <3>2. Saved(r) \in Nat /\ Of(r, batch) \in Nat /\ Of(r, rec.buffer) \in Nat
      BY <2>1, OfType, KeptType
    <3> QED BY <2>3, <3>1, <3>2
  <2> QED BY <1>6, <2>4, <2>5 DEF RecorderKept
<1> QED BY <1>8, <1>9
\* A sample made is in the buffer, and counts for the recording it was made in.
LEMMA SampleKept ==
  ASSUME RecorderOK, HeadFits, Record \/ Tick
  PROVE  /\ RecorderOK' /\ HeadFits' /\ rec.path \in Recordings
         /\ \A r \in Recordings : Kept(r)' = IF r = rec.path THEN Kept(r) + 1 ELSE Kept(r)
<1> DEFINE more == Append(rec.buffer, rec.path)
<1>1. rec \in RecType /\ rec.buffer \in Seq(Recordings) /\ chain \in Seq(JobType)
      /\ rec.enabled /\ rec.path \in Recordings /\ rec.path \in Names
  BY DEF RecorderOK, RecType, Record, Tick, Names
<1>2. more \in Seq(Recordings) /\ Len(more) = Len(rec.buffer) + 1 /\ Len(rec.buffer) \in Nat
  BY <1>1
<1>a. \A r \in Recordings :
        Of(r, more) = IF rec.path = r THEN Of(r, rec.buffer) + 1 ELSE Of(r, rec.buffer)
  BY <1>1, OfAppend
<1>3. rec' = [rec EXCEPT !.buffer = more] /\ UNCHANGED <<files, asks>>
      /\ chain' \in {chain, Flush(chain, more, rec.path)}
  <2>1. CASE Record
    BY <2>1 DEF Record
  <2>2. CASE Tick
    <3>1. rec' = [rec EXCEPT !.buffer = more] /\ UNCHANGED <<files, asks>>
          /\ chain' = Flush(chain, rec'.buffer, rec.path)
      BY <2>2 DEF Tick
    <3>2. rec'.buffer = more
      BY <1>1, <3>1 DEF RecType
    <3> QED BY <3>1, <3>2
  <2> QED BY <2>1, <2>2
<1> HIDE DEF more
<1>4. rec' \in RecType /\ rec'.path = rec.path /\ rec'.buffer = more
  BY <1>1, <1>2, <1>3 DEF RecType
<1>5. chain # <<>> => Head(chain).count <= Len(more)
  <2> SUFFICES ASSUME chain # <<>> PROVE Head(chain).count <= Len(more)
    OBVIOUS
  <2>1. Head(chain) \in JobType
    BY <1>1
  <2> QED BY <1>2, <2>1 DEF HeadFits, JobType
<1>6. chain' \in Seq(JobType) /\ (chain' # <<>> => Head(chain').count <= Len(more))
  BY <1>1, <1>2, <1>3, <1>5, FlushOK
<1>7. RecorderOK'
  BY <1>1, <1>3, <1>4, <1>6 DEF RecorderOK
<1>8. HeadFits'
  BY <1>4, <1>6 DEF HeadFits
<1>9. ASSUME NEW r \in Recordings
      PROVE  Kept(r)' = IF r = rec.path THEN Kept(r) + 1 ELSE Kept(r)
  <2>1. Kept(r) = Saved(r) + Of(r, rec.buffer) /\ Kept(r)' = Saved(r) + Of(r, more)
    BY <1>3, <1>4 DEF Kept, Of, Saved
  <2>2. Saved(r) \in Nat /\ Of(r, rec.buffer) \in Nat
    BY KeptType
  <2> QED BY <1>a, <2>1, <2>2
<1> QED BY <1>1, <1>7, <1>8, <1>9

-----------------------------------------------------------------------------
(* The app *)

\* What is spent was there (Spend, Disk).
LEMMA SpendOK ==
  ASSUME budget \in [Things -> Nat], NEW thing \in Things \ {"disk"}, NEW ok \in BOOLEAN,
         Spend(thing, ok)
  PROVE  budget' \in [Things -> Nat] /\ budget'[thing] < budget[thing]
<1> DEFINE disk == IF ok THEN budget["disk"] ELSE budget["disk"] - 1
           once == [budget EXCEPT ![thing] = budget[thing] - 1]
<1>1. "disk" \in Things
  BY DEF Things
<1>2. budget[thing] \in Nat \ {0} /\ disk \in Nat
  BY <1>1 DEF Spend
<1>3. once \in [Things -> Nat] /\ once[thing] = budget[thing] - 1
  BY <1>2
<1>4. budget' = [once EXCEPT !["disk"] = disk]
  BY <1>1 DEF Spend
<1> HIDE DEF once, disk
<1> QED BY <1>1, <1>2, <1>3, <1>4

\* A failure of the disk is paid from the bounds.
LEMMA DiskOK ==
  ASSUME budget \in [Things -> Nat], NEW ok \in BOOLEAN, Disk(ok)
  PROVE  budget' \in [Things -> Nat]
<1>1. "disk" \in Things
  BY DEF Things
<1> QED BY <1>1 DEF Disk

\* What leaves a part of the app alone keeps what is known of it.
LEMMA RecorderIdle ==
  ASSUME LifeInv, UNCHANGED recorder, past'.made = past.made
  PROVE  RecorderOK' /\ SamplesInv'
<1>1. RecorderOK'
  BY DEF LifeInv, TypeOK, RecorderOK, recorder
<1>2. HeadFits'
  BY DEF LifeInv, SamplesInv, HeadFits, recorder
<1>3. NoSampleDropped'
  BY DEF LifeInv, SamplesInv, NoSampleDropped, recorder, Saved
<1> QED BY <1>1, <1>2, <1>3 DEF SamplesInv

\* The same of the settings in memory and on disk.
LEMMA StoreIdle ==
  ASSUME LifeInv, UNCHANGED store, app' = "up" => app = "up", past'.durable = past.durable
  PROVE  StoreOK' /\ FileInv'
BY DEF LifeInv, TypeOK, StoreOK, FileInv, store

\* The same of the updater.
LEMMA UpdateIdle ==
  ASSUME LifeInv, UNCHANGED update, app' \in {app, "up"}, past'.told = past.told,
         past'.tried = past.tried, past'.unrecorded = past.unrecorded
  PROVE  UpdaterOK' /\ UpdateInv'
<1>1. UNCHANGED <<updater, pending, library, version, latest>>
  BY DEF update
<1>2. UpdaterOK'
  BY <1>1 DEF LifeInv, TypeOK, UpdaterOK
<1>3. DisplayInv'
  BY <1>1 DEF LifeInv, UpdateInv, DisplayInv
<1>4. QuitInv'
  BY <1>1 DEF LifeInv, UpdateInv, QuitInv, HandsOff
<1>5. ToldInv'
  BY <1>1 DEF LifeInv, UpdateInv, ToldInv
<1> QED BY <1>2, <1>3, <1>4, <1>5 DEF UpdateInv

\* An operation of the recorder that makes no sample.
LEMMA RecorderWorks ==
  ASSUME LifeInv, RecorderKept, past'.made = past.made
  PROVE  RecorderOK' /\ SamplesInv'
<1>1. ASSUME NEW r \in Recordings PROVE past'.made[r] <= Saved(r)' + Of(r, rec.buffer)'
  <2>1. past.made[r] \in Nat /\ past.made[r] <= Kept(r)
    BY DEF LifeInv, TypeOK, PastType, SamplesInv, NoSampleDropped, Kept
  <2>2. Kept(r) \in Nat
    BY KeptType DEF LifeInv, TypeOK
  <2>3. Kept(r)' \in Nat
    BY KeptTypeNext DEF RecorderKept
  <2>4. Kept(r)' = Saved(r)' + Of(r, rec.buffer)'
    BY DEF Kept
  <2> QED BY <2>1, <2>2, <2>3, <2>4 DEF RecorderKept
<1> QED BY <1>1 DEF SamplesInv, NoSampleDropped, RecorderKept

-----------------------------------------------------------------------------
(* The settings file *)

SettingsType == [token : Nat, value : Values]

\* persist: the file is what was last written (Persist).
LEMMA PersistOK ==
  ASSUME LifeInv, NEW s \in SettingsType, NEW ok \in BOOLEAN, Persist(s, ok)
  PROVE  /\ StoreOK' /\ FileInv' /\ past' \in PastType /\ settings' = s
         /\ past'.told = past.told /\ past'.tried = past.tried
         /\ past'.unrecorded = past.unrecorded /\ past'.made = past.made
<1> DEFINE durable == IF ok THEN s ELSE past.durable
           tokens == IF s.token > past.tokens THEN s.token ELSE past.tokens
<1>1. past \in PastType /\ file \in Contents \union {Absent, Corrupt} /\ s \in Contents
  BY DEF LifeInv, TypeOK, StoreOK, SettingsType, Contents
<1>2. durable \in Contents \union {None, Corrupt} /\ tokens \in Nat
  BY <1>1 DEF PastType, SettingsType
<1>3. past' = [past EXCEPT !.durable = durable, !.tokens = tokens]
  BY DEF Persist
<1>4. settings' = s /\ file' = IF ok THEN s ELSE file
  BY DEF Persist, NotWritten
<1>5. file' = durable \/ (file' = Absent /\ durable = None)
  BY <1>4 DEF LifeInv, FileInv
<1> HIDE DEF durable, tokens
<1>6. past' \in PastType /\ past'.durable = durable /\ past'.told = past.told
      /\ past'.tried = past.tried /\ past'.unrecorded = past.unrecorded
      /\ past'.made = past.made
  BY <1>1, <1>2, <1>3 DEF PastType
<1>7. StoreOK'
  <2>1. s # None
    BY <1>1, ValuesAssumption
  <2> QED BY <1>1, <1>4, <2>1 DEF StoreOK, SettingsType
<1> QED BY <1>4, <1>5, <1>6, <1>7 DEF FileInv

\* What the next run starts with (Loaded).
LEMMA LoadedType ==
  ASSUME LifeInv, NEW locked \in BOOLEAN
  PROVE  Loaded(locked) \in SettingsType
<1>1. Default \in Values /\ FreshToken \in Nat
  BY ValuesAssumption DEF LifeInv, TypeOK, PastType, FreshToken
<1>2. file \in Contents \union {Absent, Corrupt}
  BY DEF LifeInv, TypeOK, StoreOK
<1>3. file \notin {Absent, Corrupt} => file.token \in Nat \union {None} /\ file.value \in Values
  BY <1>2 DEF Contents
<1>4. file \notin {Absent, Corrupt} /\ file.token # None => file \in SettingsType
  BY <1>2 DEF Contents, SettingsType
<1> QED BY <1>1, <1>3, <1>4 DEF Loaded, Content, SettingsType

\* The settings change only by being written: Patch, Reset and RegenerateMcpToken.
LEMMA CallsOfSettings ==
  ASSUME LifeInv, (\E v \in Values : Patch(v)) \/ Reset \/ RegenerateMcpToken
  PROVE  LifeInv'
<1>1. app = "up" /\ app' = app /\ UNCHANGED <<update, recorder>>
  BY DEF Patch, Reset, RegenerateMcpToken
<1>2. settings \in SettingsType /\ FreshToken \in Nat /\ Default \in Values
  BY <1>1, ValuesAssumption
     DEF LifeInv, TypeOK, StoreOK, SettingsType, PastType, FreshToken
<1>3. PICK thing \in {"patch", "reset", "renew"}, ok \in BOOLEAN, s \in SettingsType :
        Spend(thing, ok) /\ Persist(s, ok)
  <2>1. \A v \in Values : [settings EXCEPT !.value = v] \in SettingsType
    BY <1>2 DEF SettingsType
  <2>2. ResetTo \in SettingsType
    BY <1>2 DEF ResetTo, Content, SettingsType
  <2>3. [settings EXCEPT !.token = FreshToken] \in SettingsType
    BY <1>2 DEF SettingsType
  <2> QED BY <2>1, <2>2, <2>3 DEF Patch, Reset, RegenerateMcpToken
<1>4. budget' \in [Things -> Nat]
  BY <1>3, SpendOK DEF LifeInv, TypeOK, Things
<1>5. StoreOK' /\ FileInv' /\ past' \in PastType /\ past'.told = past.told
      /\ past'.tried = past.tried /\ past'.unrecorded = past.unrecorded
      /\ past'.made = past.made
  BY <1>3, PersistOK
<1>6. RecorderOK' /\ SamplesInv'
  BY <1>1, <1>5, RecorderIdle
<1>7. UpdaterOK' /\ UpdateInv'
  BY <1>1, <1>5, UpdateIdle
<1> QED BY <1>1, <1>4, <1>5, <1>6, <1>7 DEF LifeInv, TypeOK

\* Harm from outside is done to file and history alike.
LEMMA SpoilOK ==
  ASSUME LifeInv, Spoil
  PROVE  LifeInv'
<1>1. app = "down" /\ app' = app /\ UNCHANGED <<settings, update, recorder>>
  BY DEF Spoil
<1>2. file' \in Contents \union {Corrupt} /\ file' = past'.durable
      /\ past' = [past EXCEPT !.durable = file']
  <2>1. file \in Contents
    BY DEF LifeInv, TypeOK, StoreOK, Spoil
  <2>2. Content(None, file.value) \in Contents
    BY <2>1 DEF Content, Contents
  <2>3. past' = [past EXCEPT !.durable = file'] /\ past \in PastType
    BY DEF LifeInv, TypeOK, Spoil
  <2> QED BY <2>2, <2>3 DEF Spoil, PastType
<1>3. past' \in PastType /\ past'.told = past.told /\ past'.tried = past.tried
      /\ past'.unrecorded = past.unrecorded /\ past'.made = past.made
  BY <1>2 DEF LifeInv, TypeOK, PastType
<1>4. budget' \in [Things -> Nat]
  BY SpendOK DEF Spoil, LifeInv, TypeOK, Things
<1>5. StoreOK' /\ FileInv'
  BY <1>1, <1>2 DEF LifeInv, TypeOK, StoreOK, FileInv
<1>6. RecorderOK' /\ SamplesInv'
  BY <1>1, <1>3, RecorderIdle
<1>7. UpdaterOK' /\ UpdateInv'
  BY <1>1, <1>3, UpdateIdle
<1> QED BY <1>1, <1>3, <1>4, <1>5, <1>6, <1>7 DEF LifeInv, TypeOK

\* A start loads the settings, or falls back, and saves what it made of them.
LEMMA StartOK ==
  ASSUME LifeInv, Start
  PROVE  LifeInv'
<1>1. app' = "up" /\ UNCHANGED <<update, recorder>>
  BY DEF Start
<1>2. PICK ok \in BOOLEAN, locked \in BOOLEAN :
        Spend(IF locked THEN "lock" ELSE "again", ok) /\ Persist(Loaded(locked), ok)
  BY DEF Start
<1>3. budget' \in [Things -> Nat]
  BY <1>2, SpendOK DEF LifeInv, TypeOK, Things
<1>4. Loaded(locked) \in SettingsType
  BY LoadedType
<1>5. StoreOK' /\ FileInv' /\ past' \in PastType /\ past'.told = past.told
      /\ past'.tried = past.tried /\ past'.unrecorded = past.unrecorded
      /\ past'.made = past.made
  BY <1>2, <1>4, PersistOK
<1>6. RecorderOK' /\ SamplesInv'
  BY <1>1, <1>5, RecorderIdle
<1>7. UpdaterOK' /\ UpdateInv'
  BY <1>1, <1>5, UpdateIdle
<1> QED BY <1>1, <1>3, <1>5, <1>6, <1>7 DEF LifeInv, TypeOK

-----------------------------------------------------------------------------
(* Updates *)

\* Nothing is emitted once disposed (Emit).
LEMMA EmitOK ==
  ASSUME updater \in UpdaterType, NEW v \in Versions,
         NEW state \in {"checking", "available", "not-available", "downloaded", "error"},
         Emit(state, v)
  PROVE  /\ updater' \in UpdaterType
         /\ updater'.started = updater.started /\ updater'.disposed = updater.disposed
         /\ updater'.failed = updater.failed
         /\ IF updater.disposed THEN updater' = updater
            ELSE updater'.state = state /\ updater'.version = v
BY DEF Emit, UpdaterType

\* An event that shows "downloaded" only for what the library got, and gets only what
\* is published and newer, keeps what is known of updates.
LEMMA EventOK ==
  ASSUME UpdaterOK, UpdateInv, past \in PastType,
         UNCHANGED <<app, pending, version, latest>>, past'.told = past.told,
         past'.tried = past.tried, past'.unrecorded = past.unrecorded,
         NEW v \in Versions,
         NEW state \in {"checking", "available", "not-available", "downloaded", "error"},
         Emit(state, v), library' \in LibraryType, updater.started,
         state = "downloaded" =>
           library'.doing = "nothing" /\ library'.got = v /\ v # None,
         library'.doing = "downloading" => version < latest,
         library'.got = library.got \/ (library'.got = latest /\ version < latest),
         updater.disposed /\ updater.state = "downloaded" => library' = library
  PROVE  UpdaterOK' /\ UpdateInv'
<1>1. /\ updater' \in UpdaterType
      /\ updater'.started /\ updater'.disposed = updater.disposed
      /\ IF updater.disposed THEN updater' = updater
         ELSE updater'.state = state /\ updater'.version = v
  BY EmitOK DEF UpdaterOK
<1>2. UpdaterOK'
  BY <1>1 DEF UpdaterOK
<1>3. version \in Nat /\ latest \in Nat /\ past.told \in Versions /\ None \notin Nat
  BY RecordingAssumption DEF UpdaterOK, PastType
<1>4. updater'.state = "downloaded" =>
        library'.doing = "nothing" /\ updater'.version = library'.got /\ library'.got # None
  BY <1>1 DEF UpdateInv, DisplayInv
<1>5. library'.got # None =>
        /\ version < library'.got /\ library'.got <= latest
        /\ past.told # None => past.told <= library'.got
  <2>1. CASE library'.got = library.got
    BY <2>1 DEF UpdateInv, DisplayInv
  <2>2. CASE library'.got = latest /\ version < latest
    BY <1>3, <2>2 DEF UpdateInv, DisplayInv
  <2> QED BY <2>1, <2>2
<1>6. DisplayInv'
  BY <1>1, <1>4, <1>5 DEF UpdateInv, DisplayInv
<1>7. QuitInv'
  BY <1>1 DEF UpdateInv, QuitInv, HandsOff
<1>8. ToldInv'
  BY <1>1 DEF UpdateInv, ToldInv
<1> QED BY <1>2, <1>6, <1>7, <1>8 DEF UpdateInv

\* A check leaves the installs that failed on display.
LEMMA CheckNowOK ==
  ASSUME UpdaterOK, UpdateInv, past \in PastType, CheckNow
  PROVE  UpdaterOK' /\ UpdateInv'
<1>1. Emit("checking", None) /\ updater.started /\ ~updater.disposed
      /\ UNCHANGED <<app, pending, version, latest, past>>
  BY DEF CheckNow
<1>2. library' \in LibraryType /\ library'.got = library.got /\ library'.doing = "checking"
  BY DEF CheckNow, UpdaterOK, LibraryType
<1>3. None \in Versions
  BY DEF Versions
<1> QED BY <1>1, <1>2, <1>3, EventOK

\* The answer to a check decides what is downloaded, not what is told.
LEMMA CheckAnsweredOK ==
  ASSUME UpdaterOK, UpdateInv, past \in PastType, CheckAnswered
  PROVE  UpdaterOK' /\ UpdateInv'
<1>1. UNCHANGED <<app, pending, version, latest, past>> /\ library.doing = "checking"
  BY DEF CheckAnswered
<1>2. updater.started /\ updater.state # "downloaded" /\ None \in Versions
      /\ latest \in Versions
  BY <1>1 DEF UpdateInv, DisplayInv, Versions, UpdaterOK
<1>3. CASE latest > version /\ library' = [library EXCEPT !.doing = "downloading"]
           /\ Emit("available", latest)
  <2>1. library' \in LibraryType /\ library'.got = library.got
    BY <1>3 DEF UpdaterOK, LibraryType
  <2>2. version < latest
    BY <1>3 DEF UpdaterOK
  <2> QED BY <1>1, <1>2, <1>3, <2>1, <2>2, EventOK
<1>4. CASE library' = [library EXCEPT !.doing = "nothing"] /\ Emit("not-available", None)
  <2>1. library' \in LibraryType /\ library'.got = library.got /\ library'.doing = "nothing"
    BY <1>4 DEF UpdaterOK, LibraryType
  <2> QED BY <1>1, <1>2, <1>4, <2>1, EventOK
<1> QED BY <1>3, <1>4 DEF CheckAnswered

\* What was downloaded waits for the quit.
LEMMA DownloadedOK ==
  ASSUME UpdaterOK, UpdateInv, past \in PastType, Downloaded
  PROVE  UpdaterOK' /\ UpdateInv'
<1>1. UNCHANGED <<app, pending, version, latest, past>> /\ library.doing = "downloading"
      /\ Emit("downloaded", latest)
  BY DEF Downloaded
<1>2. updater.started /\ updater.state # "downloaded" /\ version < latest
  BY <1>1 DEF UpdateInv, DisplayInv
<1>3. latest \in Versions /\ latest # None
  BY RecordingAssumption DEF UpdaterOK, Versions
<1>4. library' \in LibraryType /\ library'.got = latest /\ library'.doing = "nothing"
  BY <1>3 DEF Downloaded, LibraryType
<1> QED BY <1>1, <1>2, <1>3, <1>4, EventOK

\* A check or a download that fails says so, and the failed install stays told.
LEMMA CheckFailsOK ==
  ASSUME UpdaterOK, UpdateInv, past \in PastType, CheckFails
  PROVE  UpdaterOK' /\ UpdateInv'
<1>1. UNCHANGED <<app, pending, version, latest, past>> /\ library.doing # "nothing"
      /\ Emit("error", updater.version)
  BY DEF CheckFails
<1>2. updater.started /\ updater.state # "downloaded" /\ updater.version \in Versions
  BY <1>1 DEF UpdateInv, DisplayInv, UpdaterOK, UpdaterType
<1>3. library' \in LibraryType /\ library'.got = library.got /\ library'.doing = "nothing"
  BY DEF CheckFails, UpdaterOK, LibraryType
<1> QED BY <1>1, <1>2, <1>3, EventOK

\* A newer version makes what was got older than the latest, and nothing else.
LEMMA PublishOK ==
  ASSUME UpdaterOK, UpdateInv, past \in PastType, Publish
  PROVE  UpdaterOK' /\ UpdateInv'
<1>1. UNCHANGED <<app, updater, pending, library, version, past>> /\ latest' = latest + 1
      /\ library.doing = "nothing"
  BY DEF Publish
<1>2. UpdaterOK'
  BY <1>1 DEF UpdaterOK
<1>3. DisplayInv'
  <2>1. pending \in Versions /\ past.told \in Versions /\ library.got \in Versions
        /\ latest \in Nat
    BY DEF UpdaterOK, PastType, LibraryType
  <2>2. \A v \in Versions : v # None /\ v <= latest => v <= latest'
    BY <1>1, <2>1 DEF Versions
  <2> QED BY <1>1, <2>1, <2>2 DEF UpdateInv, DisplayInv
<1>4. QuitInv'
  BY <1>1 DEF UpdateInv, QuitInv, HandsOff
<1>5. ToldInv'
  BY <1>1 DEF UpdateInv, ToldInv
<1> QED BY <1>2, <1>3, <1>4, <1>5 DEF UpdateInv

\* What the updater tells at the start of a run it keeps on record, and what the last
\* quit tried is told now or runs by now.
LEMMA StartUpdaterOK ==
  ASSUME UpdaterOK, UpdateInv, past \in PastType, StartUpdater
  PROVE  past' \in PastType /\ UpdaterOK' /\ UpdateInv'
<1> DEFINE failed == IF pending # None /\ version < pending THEN pending ELSE None
<1>1. app = "up" /\ ~updater.started /\ UNCHANGED <<app, library, version, latest>>
      /\ updater' = [updater EXCEPT !.started = TRUE, !.failed = failed]
      /\ past' = [past EXCEPT !.told = failed, !.tried = None, !.unrecorded = FALSE]
      /\ pending' = Reconciled
  BY DEF StartUpdater
<1>2. failed \in Versions /\ pending' \in Versions /\ None \in Versions
  BY <1>1 DEF UpdaterOK, Reconciled, Versions
<1>3. pending' # None => pending' = pending
  BY <1>1 DEF Reconciled
<1>4. failed # None => failed = pending /\ version < pending /\ pending' = pending
  <2>1. pending \in Nat \/ pending = None
    BY DEF UpdaterOK, Versions
  <2>2. version \in Nat
    BY DEF UpdaterOK
  <2> QED BY <1>1, <2>1, <2>2 DEF Reconciled
<1> HIDE DEF failed
<1>5. updater' \in UpdaterType /\ updater'.started /\ updater'.state = updater.state
      /\ updater'.version = updater.version
  BY <1>1, <1>2 DEF UpdaterOK, UpdaterType
<1>6. past' \in PastType /\ past'.told = failed /\ past'.tried = None /\ ~past'.unrecorded
  BY <1>1, <1>2 DEF PastType
<1>7. UpdaterOK'
  BY <1>1, <1>2, <1>5 DEF UpdaterOK
<1>8. DisplayInv'
  <2>1. library.got = None /\ library.doing = "nothing" /\ updater.state # "downloaded"
    BY <1>1 DEF UpdateInv, DisplayInv
  <2> QED BY <1>1, <1>3, <1>4, <1>5, <1>6, <2>1 DEF UpdateInv, DisplayInv
<1>9. QuitInv'
  BY <1>1 DEF QuitInv
<1>10. ToldInv'
  <2>1. past'.told # None => pending' # None /\ past'.told <= pending'
    BY <1>4, <1>6 DEF UpdaterOK, Versions
  <2> QED BY <1>5, <2>1 DEF ToldInv
<1> QED BY <1>6, <1>7, <1>8, <1>9, <1>10 DEF UpdateInv

\* What is on display when the app quits is on record, unless the disk failed
\* (MarkInstallHandoff).
LEMMA MarkOK ==
  ASSUME UpdaterOK, UpdateInv, past \in PastType, NEW ok \in BOOLEAN,
         MarkInstallHandoff(ok), UNCHANGED <<library, version, latest>>,
         updater' \in {updater, [updater EXCEPT !.disposed = TRUE]}, updater'.disposed
  PROVE  /\ past' \in PastType /\ UpdaterOK' /\ UpdateInv'
         /\ past'.durable = past.durable /\ past'.made = past.made
<1>1. updater' \in UpdaterType /\ updater'.started = updater.started
      /\ updater'.state = updater.state /\ updater'.version = updater.version
  BY DEF UpdaterOK, UpdaterType
<1>2. HandsOff' = HandsOff
  BY <1>1 DEF HandsOff
<1>3. CASE ~HandsOff
  <2>1. UNCHANGED <<pending, past>>
    BY <1>3 DEF MarkInstallHandoff
  <2>2. UpdaterOK'
    BY <1>1, <2>1 DEF UpdaterOK
  <2>3. DisplayInv'
    BY <1>1, <2>1 DEF UpdateInv, DisplayInv
  <2>4. QuitInv'
    BY <1>2, <1>3 DEF QuitInv
  <2>5. ToldInv'
    BY <1>1, <2>1 DEF UpdateInv, ToldInv
  <2> QED BY <2>1, <2>2, <2>3, <2>4, <2>5 DEF UpdateInv
<1>4. CASE HandsOff
  <2>1. pending' = (IF ok THEN updater.version ELSE None)
        /\ past' = [past EXCEPT !.unrecorded = ~ok]
    BY <1>4 DEF MarkInstallHandoff
  <2>2. past' \in PastType /\ past'.told = past.told /\ past'.tried = past.tried
        /\ past'.durable = past.durable /\ past'.made = past.made /\ past'.unrecorded = ~ok
    BY <2>1 DEF PastType
  <2>3. updater.started /\ updater.version = library.got /\ library.got # None
        /\ library.got <= latest /\ (past.told # None => past.told <= library.got)
    BY <1>4 DEF UpdateInv, DisplayInv, HandsOff
  <2>4. UpdaterOK'
    BY <1>1, <2>1 DEF UpdaterOK, UpdaterType, Versions
  <2>5. DisplayInv'
    BY <1>1, <2>1, <2>2, <2>3 DEF UpdateInv, DisplayInv
  <2>6. QuitInv'
    BY <1>1, <2>1, <2>2 DEF QuitInv
  <2>7. ToldInv'
    BY <1>1, <2>1, <2>2, <2>3 DEF ToldInv
  <2> QED BY <2>2, <2>4, <2>5, <2>6, <2>7 DEF UpdateInv
<1> QED BY <1>3, <1>4

-----------------------------------------------------------------------------
(* Quitting *)

\* The first quit records the install to come and disposes of the recorder.
LEMMA QuitOK ==
  ASSUME LifeInv, Quit
  PROVE  LifeInv'
<1>1. app' = "finishing" /\ StopRecording("dispose") /\ UNCHANGED <<store, library, version, latest>>
      /\ updater' = [updater EXCEPT !.disposed = TRUE]
  BY DEF Quit
<1>2. PICK ok \in BOOLEAN : Spend("quit", ok) /\ MarkInstallHandoff(ok)
  BY DEF Quit
<1>3. budget' \in [Things -> Nat]
  BY <1>2, SpendOK DEF LifeInv, TypeOK, Things
<1>4. updater'.disposed
  BY <1>1 DEF LifeInv, TypeOK, UpdaterOK, UpdaterType
<1>5. past' \in PastType /\ UpdaterOK' /\ UpdateInv' /\ past'.durable = past.durable
      /\ past'.made = past.made
  BY <1>1, <1>2, <1>4, MarkOK DEF LifeInv, TypeOK
<1>6. StoreOK' /\ FileInv'
  BY <1>1, <1>5, StoreIdle
<1>7. RecorderKept
  BY <1>1, StopRecordingKept DEF LifeInv, TypeOK, SamplesInv
<1>8. RecorderOK' /\ SamplesInv'
  BY <1>5, <1>7, RecorderWorks
<1> QED BY <1>1, <1>3, <1>5, <1>6, <1>8 DEF LifeInv, TypeOK

\* A second quit only records the install once more.
LEMMA QuitAgainOK ==
  ASSUME LifeInv, QuitAgain
  PROVE  LifeInv'
<1>1. app = "finishing" /\ app' = app
      /\ UNCHANGED <<store, updater, library, version, latest, recorder>>
  BY DEF QuitAgain
<1>2. PICK ok \in BOOLEAN : Spend("quit", ok) /\ MarkInstallHandoff(ok)
  BY DEF QuitAgain
<1>3. budget' \in [Things -> Nat]
  BY <1>2, SpendOK DEF LifeInv, TypeOK, Things
<1>4. updater'.disposed
  BY <1>1 DEF LifeInv, UpdateInv, QuitInv
<1>5. past' \in PastType /\ UpdaterOK' /\ UpdateInv' /\ past'.durable = past.durable
      /\ past'.made = past.made
  BY <1>1, <1>2, <1>4, MarkOK DEF LifeInv, TypeOK
<1>6. StoreOK' /\ FileInv'
  BY <1>1, <1>5, StoreIdle
<1>7. RecorderOK' /\ SamplesInv'
  BY <1>1, <1>5, RecorderIdle
<1> QED BY <1>1, <1>3, <1>5, <1>6, <1>7 DEF LifeInv, TypeOK

\* The quit goes through once the recorder is disposed of.
LEMMA DisposedOK ==
  ASSUME LifeInv, NEW a \in asks, Disposed(a)
  PROVE  LifeInv'
<1>1. app = "finishing" /\ app' = "finished" /\ asks' = asks \ {a}
      /\ UNCHANGED <<store, updater, library, version, latest, rec, chain, files>>
  BY DEF Disposed
<1>2. PICK ok \in BOOLEAN : Disk(ok) /\ MarkInstallHandoff(ok)
  BY DEF Disposed
<1>3. budget' \in [Things -> Nat]
  BY <1>2, DiskOK DEF LifeInv, TypeOK
<1>4. updater'.disposed
  BY <1>1 DEF LifeInv, UpdateInv, QuitInv
<1>5. past' \in PastType /\ UpdaterOK' /\ UpdateInv' /\ past'.durable = past.durable
      /\ past'.made = past.made
  BY <1>1, <1>2, <1>4, MarkOK DEF LifeInv, TypeOK
<1>6. StoreOK' /\ FileInv'
  BY <1>1, <1>5, StoreIdle
<1>7. RecorderKept
  BY <1>1, StopEndsKept DEF LifeInv, TypeOK, SamplesInv
<1>8. RecorderOK' /\ SamplesInv'
  BY <1>5, <1>7, RecorderWorks
<1> QED BY <1>1, <1>3, <1>5, <1>6, <1>8 DEF LifeInv, TypeOK

\* With the process goes what it had in memory: of a new run no sample is made (Gone).
LEMMA GoneOK ==
  ASSUME LifeInv, Gone, past'.made = PastInit.made, past'.durable = past.durable
  PROVE  /\ RecorderOK' /\ SamplesInv' /\ StoreOK' /\ FileInv'
         /\ updater' \in UpdaterType /\ library' \in LibraryType
         /\ ~updater'.started /\ updater'.state = "idle"
         /\ library'.doing = "nothing" /\ library'.got = None
<1>1. rec' = Off /\ chain' = <<>> /\ asks' = {} /\ files' = [r \in Recordings |-> NoFile]
      /\ settings' = None /\ updater' = NotStarted /\ library' = Idle /\ app' = "down"
      /\ file' = file
  BY DEF Gone
<1>2. RecorderOK'
  <2>1. NoFile \in FileType /\ Off \in RecType /\ ~Off.enabled
    BY DEF NoFile, FileType, Off, RecType, Names
  <2>2. IsFiniteSet({})
    BY FS_EmptySet
  <2> QED BY <1>1, <2>1, <2>2 DEF RecorderOK
<1>3. SamplesInv'
  <2>1. HeadFits'
    BY <1>1 DEF HeadFits
  <2>2. ASSUME NEW r \in Recordings PROVE past'.made[r] <= Saved(r)' + Of(r, rec.buffer)'
    <3>1. past'.made[r] = 0
      BY DEF PastInit
    <3>2. Kept(r)' \in Nat
      BY <1>2, KeptTypeNext
    <3>3. Kept(r)' = Saved(r)' + Of(r, rec.buffer)'
      BY DEF Kept
    <3> QED BY <3>1, <3>2, <3>3
  <2> QED BY <2>1, <2>2 DEF SamplesInv, NoSampleDropped
<1>4. StoreOK' /\ FileInv'
  BY <1>1 DEF LifeInv, TypeOK, StoreOK, FileInv
<1>5. updater' \in UpdaterType /\ library' \in LibraryType
      /\ ~updater'.started /\ updater'.state = "idle"
      /\ library'.doing = "nothing" /\ library'.got = None
  BY <1>1 DEF NotStarted, Idle, UpdaterType, LibraryType, Versions
<1> QED BY <1>2, <1>3, <1>4, <1>5

\* The version that a quit with a download on display tried is the one on record (Leave).
LEMMA LeaveOK ==
  ASSUME LifeInv, Leave
  PROVE  LifeInv'
<1> DEFINE tried == IF ~updater.started THEN past.tried
                    ELSE IF updater.state = "downloaded" THEN library.got ELSE None
<1>1. app = "finished" /\ Gone /\ UNCHANGED <<pending, budget>> /\ latest' = latest
      /\ app' = "down" /\ version' \in {version, library.got}
      /\ (version' # version => library.got # None)
      /\ past' = [past EXCEPT !.tried = tried, !.made = PastInit.made]
  BY DEF Leave, Gone
<1>2. updater \in UpdaterType /\ library \in LibraryType /\ past \in PastType
      /\ pending \in Versions /\ version \in Nat /\ latest \in Nat
  BY DEF LifeInv, TypeOK, UpdaterOK
<1>3. tried \in Versions /\ PastInit.made \in [Recordings -> Nat]
  BY <1>2 DEF LibraryType, PastType, Versions, PastInit
<1>4. version' \in Nat /\ version <= version'
  BY <1>1, <1>2 DEF LifeInv, UpdateInv, DisplayInv, LibraryType, Versions
<1>5. QuitInv /\ ToldInv /\ DisplayInv
  BY DEF LifeInv, UpdateInv
<1>6. updater.started /\ updater.state = "downloaded" /\ ~past.unrecorded =>
        pending = library.got
  BY <1>1, <1>5 DEF QuitInv, DisplayInv, HandsOff
<1> HIDE DEF tried
<1>7. past' \in PastType /\ past'.tried = tried /\ past'.made = PastInit.made
      /\ past'.told = past.told /\ past'.durable = past.durable
      /\ past'.unrecorded = past.unrecorded
  <2> DEFINE made == PastInit.made
  <2> HIDE DEF made
  <2>1. past' = [past EXCEPT !.tried = tried, !.made = made] /\ made \in [Recordings -> Nat]
    BY <1>1, <1>3 DEF made
  <2>2. past' \in PastType /\ past'.tried = tried /\ past'.made = made
        /\ past'.told = past.told /\ past'.durable = past.durable
        /\ past'.unrecorded = past.unrecorded
    BY <1>2, <1>3, <2>1 DEF PastType
  <2> QED BY <2>2 DEF made
<1>8. RecorderOK' /\ SamplesInv' /\ StoreOK' /\ FileInv'
      /\ updater' \in UpdaterType /\ library' \in LibraryType
      /\ ~updater'.started /\ updater'.state = "idle"
      /\ library'.doing = "nothing" /\ library'.got = None
  BY <1>1, <1>7, GoneOK
<1>9. UpdaterOK'
  BY <1>1, <1>2, <1>4, <1>8 DEF UpdaterOK
<1>10. DisplayInv'
  BY <1>1, <1>5, <1>7, <1>8 DEF DisplayInv
<1>11. QuitInv'
  BY <1>1 DEF QuitInv
<1>12. ToldInv'
  <2> SUFFICES ASSUME ~past.unrecorded PROVE
        /\ past.told # None /\ version' < past.told => pending # None /\ past.told <= pending
        /\ tried # None /\ version' < tried => pending = tried
    BY <1>1, <1>7 DEF ToldInv
  <2>1. past.told \in Versions /\ past.tried \in Versions
    BY <1>2 DEF PastType
  <2>2. past.told # None /\ version' < past.told => pending # None /\ past.told <= pending
    BY <1>2, <1>4, <1>5, <2>1 DEF ToldInv, Versions
  <2>3. ASSUME tried # None, version' < tried PROVE pending = tried
    <3>1. CASE ~updater.started
      <4>1. tried = past.tried
        BY <3>1 DEF tried
      <4>2. version < past.tried
        BY <1>2, <1>4, <2>1, <2>3, <4>1 DEF Versions
      <4> QED BY <1>5, <2>3, <3>1, <4>1, <4>2 DEF ToldInv
    <3>2. CASE updater.started
      BY <1>6, <2>3, <3>2 DEF tried
    <3> QED BY <3>1, <3>2
  <2> QED BY <2>2, <2>3
<1> QED BY <1>1, <1>7, <1>8, <1>9, <1>10, <1>11, <1>12 DEF LifeInv, TypeOK, UpdateInv

\* A crash empties memory; what is on disk stays.
LEMMA CrashOK ==
  ASSUME LifeInv, Crash
  PROVE  LifeInv'
<1> DEFINE tried == IF updater.started THEN None ELSE past.tried
<1>1. Gone /\ UNCHANGED <<pending, version>> /\ latest' = latest /\ app' = "down"
      /\ past' = [past EXCEPT !.tried = tried, !.made = PastInit.made]
  BY DEF Crash, Gone
<1>2. past \in PastType /\ pending \in Versions /\ version \in Nat /\ latest \in Nat
  BY DEF LifeInv, TypeOK, UpdaterOK
<1>3. tried \in Versions /\ PastInit.made \in [Recordings -> Nat]
  BY <1>2 DEF PastType, Versions, PastInit
<1>4. ToldInv /\ DisplayInv
  BY DEF LifeInv, UpdateInv
<1>5. tried # None => ~updater.started /\ tried = past.tried
  OBVIOUS
<1> HIDE DEF tried
<1>6. past' \in PastType /\ past'.tried = tried /\ past'.made = PastInit.made
      /\ past'.told = past.told /\ past'.durable = past.durable
      /\ past'.unrecorded = past.unrecorded
  <2> DEFINE made == PastInit.made
  <2> HIDE DEF made
  <2>1. past' = [past EXCEPT !.tried = tried, !.made = made] /\ made \in [Recordings -> Nat]
    BY <1>1, <1>3 DEF made
  <2>2. past' \in PastType /\ past'.tried = tried /\ past'.made = made
        /\ past'.told = past.told /\ past'.durable = past.durable
        /\ past'.unrecorded = past.unrecorded
    BY <1>2, <1>3, <2>1 DEF PastType
  <2> QED BY <2>2 DEF made
<1>7. RecorderOK' /\ SamplesInv' /\ StoreOK' /\ FileInv'
      /\ updater' \in UpdaterType /\ library' \in LibraryType
      /\ ~updater'.started /\ updater'.state = "idle"
      /\ library'.doing = "nothing" /\ library'.got = None
  BY <1>1, <1>6, GoneOK
<1>8. UpdaterOK'
  BY <1>1, <1>2, <1>7 DEF UpdaterOK
<1>9. DisplayInv'
  BY <1>1, <1>4, <1>6, <1>7 DEF DisplayInv
<1>10. QuitInv'
  BY <1>1 DEF QuitInv
<1>11. ToldInv'
  BY <1>1, <1>4, <1>5, <1>6 DEF ToldInv
<1>12. budget' \in [Things -> Nat]
  BY SpendOK DEF Crash, LifeInv, TypeOK, Things
<1> QED BY <1>1, <1>6, <1>7, <1>8, <1>9, <1>10, <1>11, <1>12 DEF LifeInv, TypeOK, UpdateInv

-----------------------------------------------------------------------------
(* Every step *)

\* The updater's steps leave the settings and the recorder alone.
LEMMA UpdatesOK ==
  ASSUME LifeInv, Updates
  PROVE  LifeInv'
<1>1. UpdaterOK /\ UpdateInv /\ past \in PastType /\ budget \in [Things -> Nat]
  BY DEF LifeInv, TypeOK
<1>2. app' = app /\ UNCHANGED <<store, recorder>> /\ past'.durable = past.durable
      /\ past'.made = past.made
  <2>1. CASE StartUpdater
    BY <1>1, <2>1 DEF StartUpdater, PastType
  <2>2. CASE CheckNow \/ CheckAnswered \/ Downloaded \/ CheckFails \/ Publish
    BY <2>2 DEF CheckNow, CheckAnswered, Downloaded, CheckFails, Publish
  <2> QED BY <2>1, <2>2 DEF Updates
<1>3. past' \in PastType /\ UpdaterOK' /\ UpdateInv'
  <2>1. CASE StartUpdater
    BY <1>1, <2>1, StartUpdaterOK
  <2>2. CASE CheckNow
    BY <1>1, <2>2, CheckNowOK DEF CheckNow
  <2>3. CASE CheckAnswered
    BY <1>1, <2>3, CheckAnsweredOK DEF CheckAnswered
  <2>4. CASE Downloaded
    BY <1>1, <2>4, DownloadedOK DEF Downloaded
  <2>5. CASE CheckFails
    BY <1>1, <2>5, CheckFailsOK DEF CheckFails
  <2>6. CASE Publish
    BY <1>1, <2>6, PublishOK DEF Publish
  <2> QED BY <2>1, <2>2, <2>3, <2>4, <2>5, <2>6 DEF Updates
<1>4. budget' \in [Things -> Nat]
  <2>1. CASE \E thing \in {"check", "fetch", "release"} : Spend(thing, TRUE)
    BY <1>1, <2>1, SpendOK DEF Things
  <2>2. CASE UNCHANGED budget
    BY <1>1, <2>2
  <2> QED BY <2>1, <2>2 DEF Updates, StartUpdater, CheckNow, CheckAnswered, Downloaded,
                            CheckFails, Publish
<1>5. RecorderOK' /\ SamplesInv'
  BY <1>2, RecorderIdle
<1>6. StoreOK' /\ FileInv'
  BY <1>2, StoreIdle
<1> QED BY <1>2, <1>3, <1>4, <1>5, <1>6 DEF LifeInv, TypeOK

\* Each sample made is in the buffer, and made counts it once.
LEMMA SamplesOK ==
  ASSUME LifeInv, Record \/ Tick, Sampled
  PROVE  /\ RecorderOK' /\ SamplesInv' /\ past' \in PastType
         /\ past'.durable = past.durable /\ past'.told = past.told
         /\ past'.tried = past.tried /\ past'.unrecorded = past.unrecorded
<1>1. RecorderOK /\ HeadFits /\ past \in PastType
  BY DEF LifeInv, TypeOK, SamplesInv
<1>2. RecorderOK' /\ HeadFits' /\ rec.path \in Recordings
      /\ \A r \in Recordings : Kept(r)' = IF r = rec.path THEN Kept(r) + 1 ELSE Kept(r)
  BY <1>1, SampleKept
<1> DEFINE made == [past.made EXCEPT ![rec.path] = past.made[rec.path] + 1]
<1>3. made \in [Recordings -> Nat]
      /\ \A r \in Recordings :
           made[r] = IF r = rec.path THEN past.made[r] + 1 ELSE past.made[r]
  BY <1>1, <1>2 DEF PastType
<1>4. past' = [past EXCEPT !.made = made]
  BY DEF Sampled
<1> HIDE DEF made
<1>5. past' \in PastType /\ past'.made = made
      /\ past'.durable = past.durable /\ past'.told = past.told
      /\ past'.tried = past.tried /\ past'.unrecorded = past.unrecorded
  BY <1>1, <1>3, <1>4 DEF PastType
<1>6. ASSUME NEW r \in Recordings PROVE past'.made[r] <= Saved(r)' + Of(r, rec.buffer)'
  <2>1. past.made[r] \in Nat /\ past.made[r] <= Kept(r)
    BY DEF LifeInv, TypeOK, PastType, SamplesInv, NoSampleDropped, Kept
  <2>2. Kept(r) \in Nat
    BY <1>1, KeptType
  <2>3. made[r] <= Kept(r)'
    BY <1>2, <1>3, <2>1, <2>2
  <2> QED BY <1>5, <2>3 DEF Kept
<1> QED BY <1>2, <1>5, <1>6 DEF SamplesInv, NoSampleDropped

\* The recorder's calls, samples, answers and failures keep the whole invariant.
LEMMA RecordingOK ==
  ASSUME LifeInv, Recording, UNCHANGED <<app, store, update>>
  PROVE  LifeInv'
<1>1. RecorderOK /\ HeadFits /\ past \in PastType /\ budget \in [Things -> Nat]
  BY DEF LifeInv, TypeOK, SamplesInv
<1>2. ASSUME RecorderOK', SamplesInv', past' \in PastType, budget' \in [Things -> Nat],
             past'.durable = past.durable, past'.told = past.told,
             past'.tried = past.tried, past'.unrecorded = past.unrecorded
      PROVE  LifeInv'
  <2>1. StoreOK' /\ FileInv'
    BY <1>2, StoreIdle
  <2>2. UpdaterOK' /\ UpdateInv'
    BY <1>2, UpdateIdle
  <2> QED BY <1>2, <2>1, <2>2 DEF LifeInv, TypeOK
<1>3. CASE Calls
  <2>1. UNCHANGED past
    BY <1>3 DEF Calls
  <2>2. budget' \in [Things -> Nat]
    BY <1>1, <1>3, SpendOK DEF Calls, Things
  <2>3. RecorderKept
    BY <1>1, <1>3, StartRecordingKept, StopRecordingKept, PrepareExportKept DEF Calls
  <2>4. RecorderOK' /\ SamplesInv'
    BY <2>1, <2>3, RecorderWorks
  <2> QED BY <1>1, <1>2, <2>1, <2>2, <2>4
<1>4. CASE Samples
  <2>1. budget' \in [Things -> Nat]
    BY <1>1, <1>4, SpendOK DEF Samples, Things
  <2> QED BY <1>2, <1>4, <2>1, SamplesOK DEF Samples
<1>5. CASE Answers
  <2>1. UNCHANGED <<past, budget>>
    BY <1>5 DEF Answers
  <2>2. RecorderKept
    BY <1>1, <1>5, WriteEndsKept, DirectoryMadeKept, FileCreatedKept, SummaryWrittenKept
       DEF Answers
  <2>3. RecorderOK' /\ SamplesInv'
    BY <2>1, <2>2, RecorderWorks
  <2> QED BY <1>1, <1>2, <2>1, <2>3
<1>6. CASE Failures
  <2>1. UNCHANGED past /\ Disk(FALSE)
    BY <1>6 DEF Failures
  <2>2. budget' \in [Things -> Nat]
    BY <1>1, <2>1, DiskOK
  <2>3. RecorderKept
    BY <1>1, <1>6, WriteFailsKept, SummaryFailsKept DEF Failures
  <2>4. RecorderOK' /\ SamplesInv'
    BY <2>1, <2>3, RecorderWorks
  <2> QED BY <1>1, <1>2, <2>1, <2>2, <2>4
<1> QED BY <1>3, <1>4, <1>5, <1>6 DEF Recording

\* So do the continuations of its calls.
LEMMA ContinuationsOK ==
  ASSUME LifeInv, Continuations, UNCHANGED <<app, store, update>>
  PROVE  LifeInv'
<1>1. RecorderOK /\ HeadFits
  BY DEF LifeInv, TypeOK, SamplesInv
<1>2. UNCHANGED <<past, budget>>
  BY DEF Continuations
<1>3. RecorderKept
  <2>1. PICK a \in asks : StopEnds(a) \/ ExportFlushed(a) \/ DisposeGoesOn(a)
    BY DEF Continuations
  <2>2. CASE StopEnds(a)
    BY <1>1, <2>2, StopEndsKept DEF StopEnds
  <2>3. CASE ExportFlushed(a)
    BY <1>1, <2>3, ExportFlushedKept
  <2>4. CASE DisposeGoesOn(a)
    BY <1>1, <2>4, DisposeGoesOnKept
  <2> QED BY <2>1, <2>2, <2>3, <2>4
<1>4. RecorderOK' /\ SamplesInv'
  BY <1>2, <1>3, RecorderWorks
<1>5. StoreOK' /\ FileInv'
  BY <1>2, StoreIdle
<1>6. UpdaterOK' /\ UpdateInv'
  BY <1>2, UpdateIdle
<1> QED BY <1>2, <1>4, <1>5, <1>6 DEF LifeInv, TypeOK

\* The first start of a new installation.
LEMMA InitLife == Init => LifeInv
<1> SUFFICES ASSUME Init PROVE LifeInv
  OBVIOUS
<1>1. None \notin Nat /\ None \in Versions /\ None \in Names
  BY RecordingAssumption DEF Versions, Names
<1>2. RecorderOK
  <2>1. NoFile \in FileType /\ Off \in RecType /\ ~Off.enabled
    BY DEF NoFile, FileType, Off, RecType, Names
  <2>2. IsFiniteSet({})
    BY FS_EmptySet
  <2> QED BY <2>1, <2>2 DEF Init, RecorderInit, RecorderOK
<1>3. StoreOK /\ FileInv
  BY DEF Init, StoreOK, FileInv, PastInit
<1>4. UpdaterOK
  BY <1>1 DEF Init, UpdaterOK, UpdaterType, LibraryType, NotStarted, Idle
<1>5. past \in PastType /\ budget \in [Things -> Nat] /\ app = "down"
  BY <1>1, LifeBudgetAssumption DEF Init, PastInit, PastType
<1>6. SamplesInv
  <2>1. HeadFits
    BY DEF Init, RecorderInit, HeadFits
  <2>2. ASSUME NEW r \in Recordings PROVE past.made[r] <= Saved(r) + Of(r, rec.buffer)
    <3>1. past.made[r] = 0
      BY DEF Init, PastInit
    <3>2. Saved(r) \in Nat /\ Of(r, rec.buffer) \in Nat
      BY <1>2, KeptType
    <3> QED BY <3>1, <3>2
  <2> QED BY <2>1, <2>2 DEF SamplesInv, NoSampleDropped
<1>7. UpdateInv
  BY DEF Init, PastInit, NotStarted, Idle, UpdateInv, DisplayInv, QuitInv, ToldInv
<1> QED BY <1>2, <1>3, <1>4, <1>5, <1>6, <1>7 DEF LifeInv, TypeOK

\* Every step keeps the invariant.
LEMMA NextLife == LifeInv /\ [Next]_vars => LifeInv'
<1> SUFFICES ASSUME LifeInv, [Next]_vars PROVE LifeInv'
  OBVIOUS
<1>1. CASE Settings
  BY <1>1, CallsOfSettings, SpoilOK DEF Settings
<1>2. CASE Updates
  BY <1>2, UpdatesOK
<1>3. CASE Start
  BY <1>3, StartOK
<1>4. CASE Quitting
  BY <1>4, QuitOK, QuitAgainOK, LeaveOK, DisposedOK DEF Quitting
<1>5. CASE Recording /\ UNCHANGED <<app, store, update>>
  BY <1>5, RecordingOK
<1>6. CASE Continuations /\ UNCHANGED <<app, store, update>>
  BY <1>6, ContinuationsOK
<1>7. CASE Crash
  BY <1>7, CrashOK
<1>8. CASE UNCHANGED vars
  <2>1. UNCHANGED <<app, store, update, recorder, past, budget>>
    BY <1>8 DEF vars
  <2>2. RecorderOK' /\ SamplesInv'
    BY <2>1, RecorderIdle
  <2>3. StoreOK' /\ FileInv'
    BY <2>1, StoreIdle
  <2>4. UpdaterOK' /\ UpdateInv'
    BY <2>1, UpdateIdle
  <2> QED BY <2>1, <2>2, <2>3, <2>4 DEF LifeInv, TypeOK
<1> QED BY <1>1, <1>2, <1>3, <1>4, <1>5, <1>6, <1>7, <1>8 DEF Next

-----------------------------------------------------------------------------
(* The theorems *)

\* Settings, recorder, updater and history have their types, a recording that is on or
\* about to be has its name, and the bounds are never overdrawn.
THEOREM TypeCorrect == Spec => []TypeOK
<1>1. LifeInv => TypeOK
  BY DEF LifeInv
<1> QED BY <1>1, InitLife, NextLife, PTL DEF Spec

\* Whatever writes fail, and whatever calls, exports and stops overlap, a sample is in
\* the buffer or in a file for as long as the run lasts.
THEOREM SamplesAreKept == Spec => []NoSampleDropped
<1>1. LifeInv => NoSampleDropped
  BY DEF LifeInv, SamplesInv
<1> QED BY <1>1, InitLife, NextLife, PTL DEF Spec

\* The next run starts with the settings last written, by whichever run wrote them, but
\* when the file is locked.
THEOREM SettingsOutlive == Spec => SettingsSurvive
<1> DEFINE P == (app = "down" /\ app' = "up" /\ past.durable \notin {None, Corrupt}) =>
                  \/ settings'.value = past.durable.value
                  \/ budget'["lock"] < budget["lock"]
<1>1. LifeInv /\ [Next]_vars => [P]_vars
  <2> SUFFICES ASSUME LifeInv, Next, app = "down", app' = "up",
                      past.durable \notin {None, Corrupt}
               PROVE  \/ settings'.value = past.durable.value
                      \/ budget'["lock"] < budget["lock"]
    OBVIOUS
  <2>1. Start
    BY DEF Next, Settings, Patch, Reset, RegenerateMcpToken, Spoil, Updates, StartUpdater,
           CheckNow, CheckAnswered, Downloaded, CheckFails, Publish, Quitting, Quit,
           QuitAgain, Leave, Disposed, Gone, Crash
  <2>2. past.durable \in Contents /\ file = past.durable /\ file \notin {Absent, Corrupt}
    BY ValuesAssumption DEF LifeInv, TypeOK, PastType, FileInv
  <2>3. PICK ok \in BOOLEAN, locked \in BOOLEAN :
          Spend(IF locked THEN "lock" ELSE "again", ok) /\ Persist(Loaded(locked), ok)
    BY <2>1 DEF Start
  <2>4. CASE locked
    BY <2>3, <2>4, SpendOK DEF LifeInv, TypeOK, Things
  <2>5. CASE ~locked
    <3>1. settings' = Loaded(locked)
      BY <2>3 DEF Persist
    <3>2. Loaded(locked).value = file.value
      BY <2>2, <2>5 DEF Loaded, Content
    <3> QED BY <2>2, <3>1, <3>2
  <2> QED BY <2>4, <2>5
<1>2. Spec => [][P]_vars
  BY <1>1, InitLife, NextLife, PTL DEF Spec
<1> QED BY <1>2 DEF SettingsSurvive

\* An install that a quit tried and that did not take is told at the next start, and at
\* every start after it, until that version or a newer one runs.
THEOREM FailuresAreTold == Spec => FailureTold
<1> DEFINE P == (updater'.started /\ ~updater.started /\ ~past.unrecorded) =>
                  /\ past.tried # None /\ version < past.tried =>
                       updater'.failed = past.tried
                  /\ past.told # None /\ version < past.told =>
                       updater'.failed # None /\ updater'.failed >= past.told
<1>1. LifeInv /\ [Next]_vars => [P]_vars
  <2> SUFFICES ASSUME LifeInv, Next, updater'.started, ~updater.started, ~past.unrecorded
               PROVE  P
    OBVIOUS
  <2>1. UpdaterOK /\ ToldInv /\ past \in PastType
    BY DEF LifeInv, TypeOK, UpdateInv
  <2>2. StartUpdater
    <3>1. ~(CheckNow \/ CheckAnswered \/ Downloaded \/ CheckFails)
      <4> SUFFICES ASSUME CheckNow \/ CheckAnswered \/ Downloaded \/ CheckFails PROVE FALSE
        OBVIOUS
      <4>1. updater.started
        BY DEF LifeInv, UpdateInv, DisplayInv, CheckNow, CheckAnswered, Downloaded, CheckFails
      <4> QED BY <4>1
    <3>2. ~Quit
      BY <2>1 DEF Quit, UpdaterOK, UpdaterType
    <3>3. ~Leave /\ ~Crash
      <4>1. Gone => ~updater'.started
        BY DEF Gone, NotStarted
      <4> QED BY <4>1 DEF Leave, Crash
    <3> QED BY <3>1, <3>2, <3>3
            DEF Next, Settings, Patch, Reset, RegenerateMcpToken, Spoil, Updates, Publish,
                Start, Quitting, QuitAgain, Disposed, update
  <2>3. updater'.failed = IF pending # None /\ version < pending THEN pending ELSE None
    BY <2>1, <2>2 DEF StartUpdater, UpdaterOK, UpdaterType
  <2>4. past.tried # None /\ version < past.tried => updater'.failed = past.tried
    BY <2>1, <2>3 DEF ToldInv
  <2>5. past.told # None /\ version < past.told =>
          updater'.failed # None /\ updater'.failed >= past.told
    <3>1. past.told \in Versions /\ pending \in Versions /\ version \in Nat
      BY <2>1 DEF PastType, UpdaterOK
    <3> QED BY <2>1, <2>3, <3>1 DEF ToldInv, Versions
  <2> QED BY <2>4, <2>5
<1>2. Spec => [][P]_vars
  BY <1>1, InitLife, NextLife, PTL DEF Spec
<1> QED BY <1>2 DEF FailureTold
=============================================================================
