----------------------------- MODULE WslSettings -----------------------------
(***************************************************************************)
(* Declared and effective WSL settings (main/wsl/wsl-config.ts): what the  *)
(* two files ask for, what the running system shows, and the verdict on    *)
(* each key, while the user edits the files and restarts WSL.              *)
(*                                                                         *)
(* WSL itself is external. It reads .wslconfig when the VM starts and      *)
(* /etc/wsl.conf when the distro does, and the last declaration of a key   *)
(* in its own section counts. Values are names, those of sizes with a      *)
(* number beside; WSL releases and instants are numbers.                   *)
(***************************************************************************)
EXTENDS Integers, FiniteSets, SequencesExt

CONSTANTS
  Null,       \* null
  Contents,   \* contents the files may have: sets of sequences of lines, by scope
  Refused,    \* values WSL does not honour on this machine
  Size, Total, \* of a name of a size: what it declares, what the guest shows of it
  Releases,   \* releases of WSL the machine may have
  Grace,      \* RESTART_GRACE_MS
  MaxTime, MaxEdits   \* bounds

ASSUME GraceAssumption == Grace \in Nat
ASSUME NullAssumption == Null \notin Int

\* sizeMatches, and for swap that is off: the kernel keeps a slice for itself.
SizeMatches(a, b) == IF a = 0 THEN b = 0 ELSE 100 * b <= 102 * a /\ 100 * b >= 80 * a

ByMachine == "by machine"
ASSUME SizesAssumption ==
  ByMachine \in DOMAIN Size /\ \A v \in DOMAIN Size : SizeMatches(Size[v], Total[v])

Scopes == {"windows", "linux"}

VARIABLES
  now,        \* the clock of Windows, and of the guest while nothing sleeps
  files,      \* .wslconfig and /etc/wsl.conf: lines and time of the last change, if there
  vm,         \* what runs: the release, when the VM started, and what was read when
  collector,  \* the collection under way: what it has read so far
  quiet,      \* history: nothing was saved or restarted since the collection began
  report,     \* the WslConfigInfo last collected
  edits

settingsVars == <<now, files, vm, collector, quiet, report, edits>>

-----------------------------------------------------------------------------
(* Files: headings, pairs, and lines that are neither *)

Heading(section) == [kind |-> "heading", section |-> section]
Pair(key, value) == [kind |-> "pair", key |-> key, value |-> value]
Remark == [kind |-> "remark"]

\* parseIni: every pair with the heading it stands under, in the order of the file.
ParseIni(lines) ==
  LET Read(line, acc) ==
        CASE line.kind = "heading" -> [acc EXCEPT !.section = line.section]
          [] line.kind = "pair" ->
               [acc EXCEPT !.entries =
                  Append(@, [section |-> acc.section, key |-> line.key, value |-> line.value])]
          [] OTHER -> acc
      upto[i \in 0..Len(lines)] ==
        IF i = 0 THEN [section |-> "", entries |-> <<>>] ELSE Read(lines[i], upto[i - 1])
  IN upto[Len(lines)].entries

\* A file that is missing or cannot be read has no entries.
Entries(lines) == IF lines = Null THEN <<>> ELSE ParseIni(lines)
NoFile == [lines |-> Null, mtime |-> Null]

-----------------------------------------------------------------------------
(* The catalog: one key of every kind KNOWN_KEYS has *)

Known(key, section, scope, default, movedFrom, since, readable) ==
  [key |-> key, section |-> section, scope |-> scope, default |-> default,
   movedFrom |-> movedFrom, since |-> since, readable |-> readable]

\* readable: observeEffective has a way to read it back from the running system.
KnownKeys == <<
  Known("processors",     "wsl2",         "windows", Null,       {},               0, TRUE),
  Known("memory",         "wsl2",         "windows", Null,       {},               0, TRUE),
  Known("networkingMode", "wsl2",         "windows", "nat",      {"experimental"}, 2, TRUE),
  Known("dnsTunneling",   "wsl2",         "windows", "true",     {"experimental"}, 2, FALSE),
  Known("reclaim",        "experimental", "windows", "disabled", {},               2, FALSE),
  Known("systemd",        "boot",         "linux",   "false",    {},               1, TRUE),
  Known("enabled",        "automount",    "linux",   "true",     {},               0, TRUE),
  Known("enabled",        "interop",      "linux",   "true",     {},               0, FALSE)>>

\* resolveKnown: the first catalog entry among those a declared key most plausibly meant.
ResolveKnown(key, section, scope) ==
  LET named == {i \in DOMAIN KnownKeys : KnownKeys[i].key = key}
      here == {i \in named : KnownKeys[i].section = section}
      inFile == {i \in named : KnownKeys[i].scope = scope}
      best == IF here \intersect inFile # {} THEN here \intersect inFile
              ELSE IF here # {} THEN here ELSE IF inFile # {} THEN inFile ELSE named
  IN IF best = {} THEN Null ELSE KnownKeys[Min(best)]

\* (mutated form: the first declaration counts)
MutantDeclared(entries, section, key) ==
  LET found == {i \in DOMAIN entries : entries[i].section = section /\ entries[i].key = key}
  IN IF found = {} THEN Null ELSE entries[Min(found)].value
\* collapseDuplicates, declaredEntry: the last declaration of a key counts.
Declared(entries, section, key) ==
  LET found == {i \in DOMAIN entries : entries[i].section = section /\ entries[i].key = key}
  IN IF found = {} THEN Null ELSE entries[Max(found)].value

\* valuesMatch
ValuesMatch(key, declared, observed) ==
  IF key \in {"memory", "swap"}
  THEN declared \in DOMAIN Size /\ SizeMatches(Size[declared], Total[observed])
  ELSE declared = observed

-----------------------------------------------------------------------------
(* WSL (external) *)

\* What is in force for a key, by what was read at the start; a default that
\* depends on the machine is some value that no file declares.
Initially(k) == IF k.default = Null THEN ByMachine ELSE k.default

Given(lines, k) ==
  LET said == Entries(lines)
      mine == {i \in DOMAIN said : said[i].section = k.section /\ said[i].key = k.key}
  IN IF mine = {} THEN Null ELSE said[Max(mine)].value

Able(k) == vm.release >= k.since
Honours(k, value) ==
  value # Null /\ Able(k) /\ value \notin Refused /\ (k.key = "memory" => value \in DOMAIN Size)
InForce(k) ==
  LET value == Given(vm.read[k.scope], k)
  IN IF Honours(k, value) THEN value ELSE Initially(k)

\* A file is written, or deleted.
Edit(scope) ==
  /\ edits < MaxEdits /\ edits' = edits + 1
  /\ \E lines \in Contents[scope] \union {Null} :
       /\ lines # files[scope].lines
       /\ files' = [files EXCEPT ![scope] =
            IF lines = Null THEN NoFile ELSE [lines |-> lines, mtime |-> now]]
  /\ quiet' = FALSE
  /\ UNCHANGED <<now, vm, collector, report>>

Elapse == now < MaxTime /\ now' = now + 1 /\ UNCHANGED <<files, vm, collector, quiet, report, edits>>

Lines == [s \in Scopes |-> files[s].lines]
\* wsl --shutdown, and the distro started again.
RestartVm ==
  /\ vm' = [vm EXCEPT !.startedAt = now, !.read = Lines, !.distroAt = now]
  /\ quiet' = FALSE
  /\ UNCHANGED <<now, files, collector, report, edits>>
\* wsl --terminate, and the distro started again in a VM that others keep running.
RestartDistro ==
  /\ vm' = [vm EXCEPT !.read["linux"] = files["linux"].lines, !.distroAt = now]
  /\ quiet' = FALSE
  /\ UNCHANGED <<now, files, collector, report, edits>>

-----------------------------------------------------------------------------
(* The collector: two reads, some time apart. The next one starts from nothing but *)
(* the release, which stays, so a behaviour ends with the first report (a bound).  *)

Nothing == [at |-> "idle"]

\* readWindowsConfig: "a missing or unreadable .wslconfig is a fact"; null either way.
ReadWindowsFile ==
  /\ collector.at = "idle" /\ report = Null
  /\ \E file \in {files["windows"], NoFile} :
       collector' = [at |-> "read", began |-> now, windows |-> file]
  /\ quiet' = TRUE
  /\ UNCHANGED <<now, files, vm, report, edits>>

\* The script in the distro answers, or it does not; the uptime may be unreadable, the
\* text of wsl.conf without its time, and a value whose key is newer than WSL.  Then
\* wsl --version, or no answer.
Probed(linux, uptime, values, version) ==
  [at |-> "probed", began |-> collector.began, windows |-> collector.windows,
   linux |-> linux, uptime |-> uptime, values |-> values, version |-> version]

NoValues == [i \in DOMAIN KnownKeys |-> Null]
InForceNow ==
  [i \in DOMAIN KnownKeys |->
     IF KnownKeys[i].readable /\ Able(KnownKeys[i]) THEN InForce(KnownKeys[i]) ELSE Null]

Probe ==
  /\ collector.at = "read"
  /\ \E version \in {vm.release, Null} :
     \/ \E uptime \in {now - vm.startedAt, Null}, lines \in {files["linux"].lines, Null} :
          collector' = Probed([files["linux"] EXCEPT !.lines = lines], uptime, InForceNow, version)
     \/ collector' = Probed(NoFile, Null, NoValues, version)
  /\ UNCHANGED <<now, files, vm, quiet, report, edits>>

\* (mutated form: the grace is given to the wrong side)
MutantNewer(mtime, startedAt) ==
  mtime # Null /\ startedAt # Null /\ mtime > startedAt - Grace
Newer(mtime, startedAt) ==
  mtime # Null /\ startedAt # Null /\ mtime > startedAt + Grace

\* The value observed is not the one declared: "timing decides the reading".
Unlike(newer, startKnown) ==
  IF newer THEN "pending-restart" ELSE IF startKnown THEN "unsupported" ELSE "unknown"

Observed(k) == collector.values[CHOOSE i \in DOMAIN KnownKeys : KnownKeys[i] = k]

\* WSL was read to be older than the key.
TooOld(k) == collector.version # Null /\ collector.version < k.since

\* declaredSetting
Verdict(section, key, value, scope, newer, startKnown) ==
  LET k == ResolveKnown(key, section, scope)
  IN CASE k = Null -> "unknown-key"
       [] k # Null /\ (k.section # section \/ k.scope # scope) -> "wrong-section"
       [] OTHER ->
            LET observed == Observed(k)
            IN IF TooOld(k) THEN "unsupported"
               ELSE IF observed # Null
               THEN IF ValuesMatch(key, value, observed) THEN "applied" ELSE Unlike(newer, startKnown)
               ELSE IF newer THEN "pending-restart" ELSE "unknown"

Row(known, scope, section, key, declared, effective, provenance, verdict) ==
  [known |-> known, scope |-> scope, section |-> section, key |-> key, declared |-> declared,
   effective |-> effective, provenance |-> provenance, verdict |-> verdict]

DeclaredRows(entries, scope, newer, startKnown) ==
  { LET value == Declared(entries, e.section, e.key)
        k == ResolveKnown(e.key, e.section, scope)
        verdict == Verdict(e.section, e.key, value, scope, newer, startKnown)
    IN Row(k, scope, e.section, e.key, value,
           IF k = Null \/ verdict = "wrong-section" \/ TooOld(k)
           THEN Null ELSE Observed(k),
           "user", verdict) : e \in ToSet(entries) }

\* defaultSetting, defaultProvenance
DefaultRow(k) ==
  LET observed == Observed(k)
  IN Row(k, k.scope, k.section, k.key, Null, IF observed # Null THEN observed ELSE k.default,
         IF observed = Null
         THEN IF k.default = Null THEN "unknown" ELSE "wsl-default"
         ELSE IF k.default = Null THEN "computed"
         ELSE IF ValuesMatch(k.key, k.default, observed) THEN "wsl-default" ELSE "unknown",
         "not-set")

Covered(k, rows) == \E r \in rows : r.known = k

\* reconcileSettings, of what was read; now() is called once all of it has been.
Reconcile ==
  /\ collector.at = "probed"
  /\ LET c == collector
         startedAt == IF c.uptime = Null THEN Null ELSE now - c.uptime
         windowsNewer == Newer(c.windows.mtime, startedAt)
         linuxNewer == Newer(c.linux.mtime, startedAt)
         declared == DeclaredRows(Entries(c.windows.lines), "windows", windowsNewer, startedAt # Null) \union
                     DeclaredRows(Entries(c.linux.lines), "linux", linuxNewer, startedAt # Null)
     IN report' =
          [rows |-> declared \union
                      {DefaultRow(k) : k \in {k \in ToSet(KnownKeys) : ~Covered(k, declared)}},
           restartPending |-> windowsNewer \/ linuxNewer,
           vmStartedAt |-> startedAt]
  /\ collector' = Nothing
  /\ UNCHANGED <<now, files, vm, quiet, edits>>

-----------------------------------------------------------------------------

SettingsInit ==
  /\ now = 0
  /\ \E windows \in Contents["windows"] \union {Null}, linux \in Contents["linux"] :
       files = [s \in Scopes |->
         CASE s = "linux" -> [lines |-> linux, mtime |-> 0]
           [] s = "windows" /\ windows = Null -> NoFile
           [] OTHER -> [lines |-> windows, mtime |-> 0]]
  /\ \E release \in Releases :
       vm = [release |-> release, startedAt |-> 0, read |-> Lines, distroAt |-> 0]
  /\ collector = Nothing /\ quiet = FALSE /\ report = Null /\ edits = 0

SettingsNext ==
  \/ report = Null /\ (Elapse \/ RestartVm \/ RestartDistro \/ \E s \in Scopes : Edit(s))
  \/ ReadWindowsFile \/ Probe \/ Reconcile

SettingsSpec == SettingsInit /\ [][SettingsNext]_settingsVars

-----------------------------------------------------------------------------
(* Properties, of what a collection reports when nothing changed under it *)

\* Saved so soon after the start that the code's instants cannot tell which was
\* first: the grace, and the time the collection itself takes.
SavedAtStart(s) ==
  /\ files[s].mtime # Null /\ files[s].mtime >= vm.startedAt
  /\ files[s].mtime <= vm.startedAt + Grace + (now - collector.began)

\* The collection has no time for the file: it is missing, or could not be read.
Undated(s) == collector[s].mtime = Null

\* Two sizes the code cannot tell apart: what the guest shows of the one is between
\* 0.8 and 1.02 of the other.
AreClose(key, declared, running) == key = "memory" /\ ValuesMatch(key, declared, running)

\* Where the system tells the value in force, a key is reported as applied if its file
\* would give it that value, and only then, whatever the file declares twice; but a size
\* is also called applied while another one runs that is up to a fifth smaller: 8GB
\* saved while 7GB runs.
AppliedIsInForce == [][(report' # report /\ quiet) =>
  \A r \in report'.rows :
    (r.declared # Null /\ r.known # Null /\ r.effective # Null) =>
      LET given == Given(files[r.scope].lines, r.known)
          runs == InForce(r.known)
      IN /\ runs = given => r.verdict = "applied"
         /\ r.verdict = "applied" =>
              runs = given \/ AreClose(r.known.key, given, runs)]_settingsVars

\* A restart is said to be pending only after a save that the running VM is older
\* than, and never missed when what runs was read from another text ("can only
\* make restartPending conservative"), but for a save at the start and for a file that
\* was deleted or could not be read: it has no time, and no restart is then said to be
\* pending for it.
RestartPendingIsRight == [][(report' # report /\ quiet) =>
  /\ report'.restartPending =>
       \E s \in Scopes : files[s].mtime # Null /\ files[s].mtime > vm.startedAt
  /\ (~report'.restartPending /\ report'.vmStartedAt # Null) =>
       \A s \in Scopes :
         files[s].lines = vm.read[s] \/ SavedAtStart(s) \/ Undated(s)]_settingsVars
=============================================================================
