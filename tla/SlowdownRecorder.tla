--------------------------- MODULE SlowdownRecorder ---------------------------
(***************************************************************************)
(* The local slowdown recording, src/main/state/performance-diagnostics.ts:*)
(* samples are buffered and appended to one file per recording by a chain  *)
(* of writes, of which one runs at a time and each may fail.               *)
(*                                                                         *)
(* setEnabled and readyToExport are asynchronous and nothing in the main   *)
(* process keeps two calls apart; the card that makes them does, until it  *)
(* is mounted again (DiagnosticsCard.tsx).  A sample is known by the       *)
(* recording it was made in; slow intervals and pings are left out.        *)
(***************************************************************************)
EXTENDS Naturals, Sequences, FiniteSets

CONSTANTS Recordings,   \* names of recordings, in the order they are given
          None          \* null

ASSUME RecordingAssumption ==
  Recordings \subseteq Nat /\ IsFiniteSet(Recordings) /\ None \notin Nat

VARIABLES
  rec,    \* the recorder's fields
  chain,  \* pendingWrite: the writes that have not ended, the first one running
  files,  \* what is on the disk
  asks    \* calls of setEnabled, readyToExport and dispose under way

NoFile == [exists |-> FALSE, samples |-> [r \in Recordings |-> 0], summaries |-> 0]
Off == [enabled |-> FALSE, path |-> None, buffer |-> <<>>, writeError |-> FALSE, ready |-> None]

\* Samples of recording r in a sequence of samples, and a file with more of them.
Of(r, samples) == Cardinality({i \in 1..Len(samples) : samples[i] = r})
Longer(f, samples) ==
  [f EXCEPT !.exists = TRUE, !.samples = [r \in Recordings |-> f.samples[r] + Of(r, samples)]]

\* A call, and how many writes must end before it goes on.
Ask(kind, phase, path, wait) ==
  [id |-> CHOOSE i \in 0..Cardinality(asks) : \A a \in asks : a.id # i,
   kind |-> kind, phase |-> phase, path |-> path, wait |-> wait]
Move(a, phase, wait) == (asks \ {a}) \union {[a EXCEPT !.phase = phase, !.wait = wait]}
Goes(a, kind, phase) == a.kind = kind /\ a.phase = phase /\ a.wait = 0
\* Continuations run before anything else happens.
Settled == \A a \in asks : a.phase = "flush" => a.wait > 0

-----------------------------------------------------------------------------
(* Writing *)

\* A write takes what is in the buffer when its turn comes.
Turn(jobs, buffer) ==
  IF jobs = <<>> THEN jobs ELSE [jobs EXCEPT ![1].count = Len(buffer)]

\* flush: one more write at the end of the chain, unless there is nothing to write.
Flush(jobs, buffer, target) ==
  LET more == Append(jobs, [target |-> target, count |-> 0])
  IN IF target = None \/ buffer = <<>> THEN jobs
     ELSE IF jobs = <<>> THEN Turn(more, buffer) ELSE more

\* (mutated form: whoever waits for a write waits for one that succeeds)
MutantReleased == asks
\* Those who wait for the write that ends.
Released == {[a EXCEPT !.wait = IF @ = 0 THEN 0 ELSE @ - 1] : a \in asks}
WriteOver(buffer) ==
  /\ chain' = Turn(Tail(chain), buffer)
  /\ asks' = Released

\* (mutated form: samples recorded while the write ran go with it)
MutantSpliced(buffer, n) == <<>>
Spliced(buffer, n) == SubSeq(buffer, n + 1, Len(buffer))

WriteEnds ==
  /\ chain # <<>>
  /\ LET job == Head(chain)
         rest == Spliced(rec.buffer, job.count)
     IN /\ rec' = IF job.count = 0 THEN rec ELSE [rec EXCEPT !.buffer = rest, !.writeError = FALSE]
        /\ files' = IF job.count = 0 THEN files
                    ELSE [files EXCEPT ![job.target] = Longer(@, SubSeq(rec.buffer, 1, job.count))]
        /\ WriteOver(rec'.buffer)

\* A failure keeps the batch, of which a part may be in the file, and stops the
\* recording that is under way by then.
WriteFails ==
  /\ chain # <<>> /\ Head(chain).count > 0
  /\ \E part \in 0..(Head(chain).count - 1) :
       files' = [files EXCEPT ![Head(chain).target] =
                   IF part = 0 THEN @ ELSE Longer(@, SubSeq(rec.buffer, 1, part))]
  /\ rec' = [rec EXCEPT !.writeError = TRUE, !.enabled = FALSE]
  /\ WriteOver(rec.buffer)

-----------------------------------------------------------------------------
(* Recording *)

\* A WSL call has ended or a frame was late.
Record ==
  /\ rec.enabled
  /\ rec' = [rec EXCEPT !.buffer = Append(@, rec.path)]
  /\ UNCHANGED <<chain, files, asks>>

\* Every second: samples of its own, and a flush.
Tick ==
  /\ rec.enabled
  /\ rec' = [rec EXCEPT !.buffer = Append(@, rec.path)]
  /\ chain' = Flush(chain, rec'.buffer, rec.path)
  /\ UNCHANGED <<files, asks>>

\* "A new recording cannot start until the failed recording is exported."
MayStart == ~rec.enabled /\ ~rec.writeError

\* setEnabled(true): the directory, then the file, then the recording is on.
StartRecording ==
  /\ MayStart
  /\ asks' = asks \union {Ask("start", "mkdir", None, 0)}
  /\ UNCHANGED <<rec, chain, files>>

\* The name of the file has the time and a random part: it is new.
DirectoryMade(a) ==
  /\ Goes(a, "start", "mkdir")
  /\ \/ \E r \in Recordings :
          /\ r \notin {rec.path} \union {b.path : b \in asks} /\ ~files[r].exists
          /\ \A q \in Recordings : q < r => files[q].exists \/ q = rec.path
          /\ rec' = [rec EXCEPT !.path = r]
          /\ asks' = (asks \ {a}) \union {[a EXCEPT !.phase = "create", !.path = r]}
     \/ UNCHANGED rec /\ asks' = asks \ {a}
  /\ UNCHANGED <<chain, files>>

\* Flag wx: a file that is there already is an error, as the disk may be.
FileCreated(a) ==
  /\ Goes(a, "start", "create")
  /\ \/ /\ ~files[a.path].exists
        /\ files' = [files EXCEPT ![a.path].exists = TRUE]
        /\ rec' = [rec EXCEPT !.enabled = TRUE, !.ready = None]
     \/ UNCHANGED <<rec, files>>
  /\ asks' = asks \ {a}
  /\ UNCHANGED chain

\* setEnabled(false) waits for every write asked for so far.
StopRecording(kind) ==
  /\ rec' = [rec EXCEPT !.enabled = FALSE]
  /\ chain' = IF rec.enabled THEN Flush(chain, rec.buffer, rec.path) ELSE chain
  /\ asks' = asks \union {Ask(kind, "flush", rec.path, IF rec.enabled THEN Len(chain') ELSE 0)}
  /\ UNCHANGED files

StopEnds(a) ==
  /\ Goes(a, "stop", "flush")
  /\ asks' = asks \ {a}
  /\ UNCHANGED <<rec, chain, files>>

\* dispose: stops the recording and flushes once more.
DisposeGoesOn(a) ==
  /\ Goes(a, "dispose", "flush")
  /\ chain' = Flush(chain, rec.buffer, rec.path)
  /\ asks' = Move(a, "flushed", Len(chain'))
  /\ UNCHANGED <<rec, files>>

-----------------------------------------------------------------------------
(* Export *)

\* readyToExport: one preparation per recording, however often it is asked for.
\* With nothing to write the summary comes next.
PrepareExport ==
  /\ ~rec.enabled /\ rec.path # None /\ rec.ready = None
  /\ rec' = [rec EXCEPT !.ready = rec.path]
  /\ chain' = Flush(chain, rec.buffer, rec.path)
  /\ asks' = asks \union {Ask("export", IF chain' = <<>> THEN "summary" ELSE "flush",
                              rec.path, Len(chain'))}
  /\ UNCHANGED files

AllWritten == rec.buffer = <<>>

ExportFlushed(a) ==
  /\ Goes(a, "export", "flush")
  /\ \/ AllWritten /\ asks' = Move(a, "summary", 0) /\ UNCHANGED rec
     \/ ~AllWritten /\ asks' = asks \ {a} /\ rec' = [rec EXCEPT !.ready = None]
  /\ UNCHANGED <<chain, files>>

SummaryWritten(a) ==
  /\ Goes(a, "export", "summary")
  /\ files' = [files EXCEPT ![a.path].exists = TRUE, ![a.path].summaries = @ + 1]
  /\ rec' = [rec EXCEPT !.writeError = FALSE]
  /\ asks' = asks \ {a}
  /\ UNCHANGED chain

SummaryLost(r) == [r EXCEPT !.ready = None, !.writeError = TRUE]
SummaryFails(a) ==
  /\ Goes(a, "export", "summary")
  /\ rec' = SummaryLost(rec)
  /\ asks' = asks \ {a}
  /\ UNCHANGED <<chain, files>>

-----------------------------------------------------------------------------

RecorderInit ==
  /\ rec = Off /\ chain = <<>> /\ asks = {}
  /\ files = [r \in Recordings |-> NoFile]
=============================================================================
