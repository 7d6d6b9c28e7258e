---------------------------- MODULE HostQueries ----------------------------
(***************************************************************************)
(* Queries answered by Windows: the list of distros, the disk image of a    *)
(* distro, the Terminal's settings (src/main/wsl), and the package search   *)
(* and updates of src/main/tools/service.ts, which asks providers of both   *)
(* sides.  Same form as DistroQueries.                                      *)
(***************************************************************************)
EXTENDS SystemQueries

CONSTANTS
  Candidates,     \* the Terminal's settings files, a sequence
  Providers,      \* the package providers, a sequence
  MaxListed,      \* the cap on what one provider's parser returns, small
  MaxResults      \* the cap of 100 on a discovery, small

-----------------------------------------------------------------------------
(* distros.ts: two runs of wsl.exe --list; the second only tells who runs.   *)
DistroListWorlds == [{"Ubuntu", "Debian"} -> {"absent", "Stopped", "Running"}]
Present(w) == {d \in DOMAIN w : w[d] # "absent"}

PrintVerbose(w) ==
  When(Present(w) # {}, <<<<"HEADER", "">>>>)
  \o [i \in 1..Cardinality(Present(w)) |-> <<"DISTRO", SetToSeq(Present(w))[i]>>]
PrintRunning(w) ==
  LET up == {d \in DOMAIN w : w[d] = "Running"} IN
  [i \in 1..Cardinality(up) |-> <<"RUNNING", SetToSeq(up)[i]>>]
\* wsl.exe exits with a code when no distro is installed.
ListEnds(w, r) == IF Present(w) = {} /\ r.ends = "whole" THEN [r EXCEPT !.ends = "stopped"] ELSE r
ReadList(verbose, running) ==
  IF Threw(verbose) \/ Threw(running) THEN None
  ELSE LET names == IF running.ends = "whole" THEN Range(Section(running.out, "RUNNING")) ELSE {}
       IN [d \in Range(Section(verbose.out, "DISTRO")) |-> IF d \in names THEN "Running" ELSE "Stopped"]
TrueList(w, v) == v = [d \in Present(w) |-> w[d]]

-----------------------------------------------------------------------------
(* disk.ts: the registry entry, the image it names, fsutil and df.           *)
DiskWorlds ==
  {w \in [registry : {"unreadable", "no entry", "no folder", "wsl1", "wsl2"},
          declared : {"none", "custom"},           \* VhdFileName
          folder : SUBSET {"custom", "ext4", "backup"}, listed : BOOLEAN,
          allocated : BOOLEAN, sparse : BOOLEAN, used : {1, 9}] :
     /\ w.registry # "wsl2" =>
          (w.declared = "none" /\ w.folder = {} /\ w.listed /\ w.allocated /\ w.sparse)
     /\ w.folder = {} => (w.allocated /\ w.sparse)}

ImageSize(name) == CASE name = "custom" -> 5 [] name = "ext4" -> 6 [] OTHER -> 7
\* The image WSL mounts: the one it recorded, ext4.vhdx unless it recorded another.
Image(w) == IF w.declared = "custom" THEN "custom" ELSE "ext4"

LocateImage(w) ==
  IF w.declared = "custom" /\ "custom" \in w.folder THEN [path |-> "custom", error |-> FALSE]
  ELSE IF "ext4" \in w.folder THEN [path |-> "ext4", error |-> FALSE]
  ELSE IF w.listed /\ Cardinality(w.folder) = 1
       THEN [path |-> CHOOSE name \in w.folder : TRUE, error |-> FALSE]
  ELSE [path |-> None, error |-> TRUE]
ComputeReclaimable(vhdx, used) ==
  IF vhdx = None \/ used = None \/ vhdx <= used THEN None ELSE vhdx - used

PrintUsage(w) == <<<<"DF", w.used>>>>
NoDisk(used, error) ==
  [path |-> None, vhdx |-> None, allocated |-> None, sparse |-> None, used |-> used,
   reclaimable |-> None, error |-> error]
ReadDisk(w, r) ==
  LET used == IF Threw(r) THEN None ELSE First(r.out, "DF")
      image == IF w.registry = "wsl2" THEN LocateImage(w) ELSE [path |-> None, error |-> TRUE]
      size == IF image.path = None THEN None ELSE ImageSize(image.path)
  IN IF image.error THEN NoDisk(used, TRUE)
     ELSE [path |-> image.path, vhdx |-> size,
           allocated |-> IF w.allocated THEN size - 1 ELSE None,
           sparse |-> IF w.sparse THEN "set" ELSE None,
           used |-> used, reclaimable |-> ComputeReclaimable(size, used),
           error |-> used = None \/ ~w.allocated \/ ~w.sparse]
\* Every unknown is named in error, and a number is the number of this distro's image.
TrueDisk(w, v) ==
  /\ (v.vhdx = None \/ v.allocated = None \/ v.sparse = None \/ v.used = None) => v.error
  /\ v.path # None => v.path = Image(w)
  /\ v.reclaimable # None => (v.used = w.used /\ v.reclaimable = v.vhdx - w.used)

-----------------------------------------------------------------------------
(* terminal-profiles.ts: the first settings file that can be read and parsed. *)
TerminalWorlds == [DOMAIN Candidates -> {"absent", "locked", "broken", "good"}]
Good(w) == {i \in DOMAIN Candidates : w[i] = "good"}
ReadTerminal(w) ==
  IF Good(w) # {} THEN [settings |-> Candidates[Min(Good(w))], installed |-> TRUE, error |-> FALSE]
  ELSE LET broken == \E i \in DOMAIN Candidates : w[i] = "broken" IN
       [settings |-> None, installed |-> broken, error |-> broken]
TrueTerminal(w, v) ==
  /\ v.installed = (\E i \in DOMAIN Candidates : w[i] # "absent")
  /\ v.settings # None =>
       \E i \in Good(w) : v.settings = Candidates[i] /\ \A j \in Good(w) : i <= j
  /\ v.error => v.settings = None

-----------------------------------------------------------------------------
(* memory.ts: the three sides of the VM's memory.  The guest's is the first      *)
(* run; the working set of the VM process, which is cached, the second.          *)
MemoryWorlds ==
  [vm : {"none", "legacy", "both"}, declared : {"unset", "8GB", "a bare number"}, host : BOOLEAN]

PrintMeminfo(w) ==
  <<<<"MemTotal", 10>>, <<"MemFree", 3>>, <<"Buffers", 1>>, <<"Cached", 2>>, <<"SReclaimable", 1>>>>
\* free(1)'s split; a kernel that does not print SReclaimable has none.
ParseGuestMemory(out) ==
  LET slab == IF Has(out, "SReclaimable") THEN First(out, "SReclaimable") ELSE 0
      cache == IF Has(out, "Cached") THEN First(out, "Buffers") + First(out, "Cached") + slab ELSE None
  IN [total |-> First(out, "MemTotal"), cache |-> cache,
      used |-> IF cache = None THEN None ELSE First(out, "MemTotal") - First(out, "MemFree") - cache]
CeilingOf(w) ==
  IF w.declared = "8GB" THEN "wslconfig" ELSE IF w.host THEN "computed-default" ELSE "unknown"
ReadMemory(w, r) ==
  ParseGuestMemory(IF Threw(r) THEN <<>> ELSE r.out) @@ [vmLimitSource |-> CeilingOf(w)]
TrueMemory(w, v) ==
  /\ v.total \in {None, 10} /\ v.cache \in {None, 4} /\ v.used \in {None, 3}
  /\ v.vmLimitSource = "computed-default" => w.declared = "unset"

\* vmmemWSL before a legacy vmmem; a tasklist that fails is an answer, and kept.
PrintTasklist(w) ==
  When(w.vm # "none", <<<<"vmmem", "legacy">>>>) \o When(w.vm = "both", <<<<"vmmemWSL", "current">>>>)
ReadVmProcess(r) ==
  [workingSet |-> IF r.ends # "whole" THEN None
                  ELSE IF Has(r.out, "vmmemWSL") THEN First(r.out, "vmmemWSL") ELSE First(r.out, "vmmem")]
TrueVmProcess(w, v) ==
  v.workingSet # None => v.workingSet = IF w.vm = "both" THEN "current" ELSE "legacy"

-----------------------------------------------------------------------------
(* tools/service.ts: one question to every provider at once.  What a           *)
(* provider's command does is its part of the world: it may list something    *)
(* and exit with a code, as npm outdated does, and find nothing with one.      *)
PackageWorlds ==
  [op : {"search", "updates"},
   does : [Range(Providers) -> {"several", "later names", "nothing", "several, with a code",
                                "nothing, with a code", "garbled", "hangs", "not installed",
                                "cannot start"}]]
Listing == {"several", "later names", "several, with a code"}

\* Which output is JSON, which operation is not offered, and where a parser cuts its rows.
IsJson(p, op) == p = "npm" \/ (p = "brew" /\ op = "updates")
Offers(p, op) == p # "cargo" \/ op = "search"
Rows(p, op) == IF op = "search" /\ p # "winget" THEN MaxListed ELSE MaxListed + 1

Parse(p, w) ==
  [i \in 1..(IF w.does[p] \in Listing THEN Rows(p, w.op) ELSE 0) |->
     [provider |-> p, name |-> IF w.does[p] = "later names" THEN i + 10 ELSE i]]
Throws(p, w) == IsJson(p, w.op) /\ w.does[p] \in {"garbled", "nothing, with a code"}

Outcome(state, items) == [state |-> state, items |-> items]
RunOperation(p, w) ==
  IF w.does[p] = "cannot start" THEN Outcome("error", <<>>)
  ELSE IF w.does[p] = "not installed" THEN Outcome("unavailable", <<>>)
  ELSE IF ~Offers(p, w.op) THEN Outcome("unsupported", <<>>)
  ELSE IF w.does[p] = "hangs" THEN Outcome("timed-out", <<>>)
  ELSE IF Throws(p, w) \/ w.does[p] = "nothing, with a code" THEN Outcome("error", <<>>)
  ELSE Outcome("ready", Parse(p, w))

\* discover sorts by name and cuts; updates sorts by provider and does not.
Place(p) == CHOOSE i \in DOMAIN Providers : Providers[i] = p
Before(op, a, b) ==
  LET earlier == Place(a.provider) < Place(b.provider) IN
  IF op = "search" THEN a.name < b.name \/ (a.name = b.name /\ earlier)
  ELSE earlier \/ (a.provider = b.provider /\ a.name < b.name)
ReadPackages(w) ==
  LET items == FlattenSeq([i \in DOMAIN Providers |-> RunOperation(Providers[i], w).items])
      sorted == SortSeq(items, LAMBDA a, b : Before(w.op, a, b)) IN
  [results |-> IF w.op = "updates" \/ Len(sorted) <= MaxResults THEN sorted
               ELSE SubSeq(sorted, 1, MaxResults),
   states |-> [p \in Range(Providers) |-> RunOperation(p, w).state]]
TruePackages(w, v) ==
  \A p \in Range(Providers) :
    /\ v.states[p] = "ready" => w.does[p] \in Listing \cup {"nothing"}
    /\ v.states[p] = "timed-out" => w.does[p] = "hangs"
    /\ v.states[p] = "unavailable" <=> w.does[p] = "not installed"
    \* Another provider's trouble hides nothing; only a list that is full may.
    /\ (w.does[p] \in Listing /\ Offers(p, w.op)) =>
         \/ \E i \in DOMAIN v.results : v.results[i].provider = p
         \/ w.op = "search" /\ Len(v.results) = MaxResults
=============================================================================
