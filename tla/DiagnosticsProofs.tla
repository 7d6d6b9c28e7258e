-------------------------- MODULE DiagnosticsProofs --------------------------
(***************************************************************************)
(* Proofs about what asks a distro.  Diagnostics: the log is in order and  *)
(* within its cap, it tells only of changes that happened, and a recovery  *)
(* check is about one distro.  Collectors: the caches, the kept samples    *)
(* and docker's two halves say nothing false when the parsers do not, and  *)
(* polling starts no daemon the script did not see running.                *)
(***************************************************************************)
EXTENDS Diagnostics, Collectors, SequenceTheorems, FiniteSetTheorems, TLAPS

-----------------------------------------------------------------------------
(* Types *)

States == {"Running", "Stopped"}
DashFacets == {"liveness", "network-mode", "dns"}
Facts == States \union Answers \union Modes \union Resolvers \union Consoles \union {Nil}
Servers == [distro : Distros, role : {"server-main", "other"}]
CheckKinds == {"network-check", "recovery-check"}

Snapshots ==
  [selected : Distros \union {Nil}, states : [Distros -> States],
   dash : [DashFacets -> Facts], probed : Distros \union {Nil},
   console : [distro : Distros \union {Nil}, status : Consoles], servers : SUBSET Servers]
Observations == [distro : Distros \union {Nil}, facts : [Facets -> Facts]]

Kinds ==
  {"monitoring-started", "distro-selected", "distro-state", "distro-unresponsive",
   "distro-recovered", "console-failed", "console-recovered", "network-mode", "dns",
   "power-suspend", "power-resume"} \union CheckKinds
Causes == Facts \union {"info", "warning"} \union Nat
Events == [kind : Kinds, distro : Distros \union {Nil}, from : Causes, to : Causes]
Entries == [id : Nat \ {0}, event : Events]

ProbeResults == UNION {[Probes(port) -> {"pass", "fail", "unknown"}] : port \in BOOLEAN}
Flights == [snapshot : Snapshots, port : BOOLEAN, began : Nat]
NetworkChecks == [distro : Distros, probes : ProbeResults]
RecoverySteps ==
  [status : {"unavailable", "recommended", "last-resort", "available"},
   stops : SUBSET (Distros \union Servers)]
RecoveryChecks ==
  [distro : Distros, recommendedStep : StepIds, steps : [StepIds -> RecoverySteps],
   vscodeServerInstalled : BOOLEAN, began : Nat, resumedAt : Nat \union {Nil},
   resumeChanges : SUBSET Facets]

\* The log: newest first, each number given once, and no more than the cap.
LogIsOrdered ==
  /\ Len(incidents) <= MaxIncidents
  /\ \A i \in DOMAIN incidents : incidents[i].id < nextId
  /\ \A i, j \in DOMAIN incidents : i < j => incidents[i].id > incidents[j].id

LogOK == incidents \in Seq(Entries) /\ nextId \in Nat \ {0} /\ LogIsOrdered

ShownOK ==
  last \in [network : NetworkChecks \union {Nil}, recovery : RecoveryChecks \union {Nil}]

TypeOK ==
  /\ snapshot \in Snapshots /\ late \in Distros \union {Nil}
  /\ previous \in Observations \union {Nil} /\ suspended \in Observations \union {Nil}
  /\ clock \in Nat /\ resumedAt \in Nat \union {Nil}
  /\ LogOK /\ ShownOK
  /\ flights \in [CheckKinds -> Flights \union {Nil}]

-----------------------------------------------------------------------------
(* The log *)

\* What is in the log after an add was there before, or has just been added.
LEMMA AddOK ==
  ASSUME LogOK, NEW events \in Seq(Events), Add(events)
  PROVE  /\ LogOK'
         /\ \A i \in DOMAIN incidents' :
              \/ \E j \in DOMAIN incidents : incidents'[i].event = incidents[j].event
              \/ \E k \in DOMAIN events : incidents'[i].event = events[k]
<1> DEFINE n == Len(events)
           numbered == [i \in DOMAIN events |-> [id |-> nextId + i - 1, event |-> events[i]]]
           newest == Reverse(numbered)
           all == newest \o incidents
           m == IF Len(all) < MaxIncidents THEN Len(all) ELSE MaxIncidents
<1>1. /\ n \in Nat /\ DOMAIN events = 1..n /\ nextId \in Nat \ {0}
      /\ incidents \in Seq(Entries) /\ MaxIncidents \in Nat \ {0}
      /\ \A i \in 1..n : events[i] \in Events
  BY LenProperties, DiagnosticsAssumption DEF LogOK
<1>2. numbered \in [1..n -> Entries]
  BY <1>1 DEF Entries
<1>3. \A i \in 1..n : numbered[i].id = nextId + i - 1 /\ numbered[i].event = events[i]
  BY <1>1
<1> HIDE DEF numbered
<1>31. numbered \in Seq(Entries) /\ Len(numbered) = n
  BY <1>1, <1>2
<1>4. newest \in [1..n -> Entries] /\ \A i \in 1..n : newest[i] = numbered[n - i + 1]
  <2>1. newest = [i \in 1..n |-> numbered[n - i + 1]]
    BY <1>31 DEF Reverse
  <2>2. \A i \in 1..n : n - i + 1 \in 1..n
    BY <1>1
  <2> HIDE DEF newest
  <2> QED BY <2>1, <2>2, <1>2
<1> HIDE DEF newest
<1>5. \A i \in 1..n : newest[i].id = nextId + (n - i) /\ newest[i].event = events[n - i + 1]
  <2> SUFFICES ASSUME NEW i \in 1..n
               PROVE  newest[i].id = nextId + (n - i) /\ newest[i].event = events[n - i + 1]
    OBVIOUS
  <2>1. n - i + 1 \in 1..n /\ nextId + (n - i + 1) - 1 = nextId + (n - i)
    BY <1>1
  <2> QED BY <2>1, <1>3, <1>4
<1>6. newest \in Seq(Entries) /\ Len(newest) = n
  BY <1>1, <1>4
<1>7. incidents' = SubSeq(all, 1, m) /\ nextId' = nextId + n
  BY DEF Add, Capped, newest, numbered
<1>8. /\ all \in Seq(Entries) /\ Len(all) = n + Len(incidents)
      /\ \A i \in 1..Len(all) : all[i] = IF i <= n THEN newest[i] ELSE incidents[i - n]
  <2>1. /\ all \in Seq(Entries) /\ Len(all) = Len(newest) + Len(incidents)
        /\ \A i \in 1..(Len(newest) + Len(incidents)) :
             all[i] = IF i <= Len(newest) THEN newest[i] ELSE incidents[i - Len(newest)]
    BY <1>1, <1>6, ConcatProperties
  <2> HIDE DEF all
  <2> QED BY <2>1, <1>6
<1>9. Len(incidents) \in Nat /\ DOMAIN incidents = 1..Len(incidents)
      /\ \A i \in 1..Len(incidents) : incidents[i] \in Entries
  BY <1>1, LenProperties
<1> HIDE DEF all, n
<1>10. m \in 0..Len(all) /\ m <= MaxIncidents /\ Len(all) \in Nat
  BY <1>1, <1>8, <1>9
<1>11. \A i \in 1..Len(all) : all[i] \in Entries
  BY <1>8, LenProperties
<1> HIDE DEF m
<1>12. /\ incidents' \in Seq(Entries) /\ Len(incidents') = m /\ DOMAIN incidents' = 1..m
       /\ \A i \in 1..m : incidents'[i] = all[i]
  <2>1. \A i \in 1..m : all[i] \in Entries
    BY <1>10, <1>11
  <2>2. /\ SubSeq(all, 1, m) \in Seq(Entries)
        /\ Len(SubSeq(all, 1, m)) = IF 1 <= m THEN m - 1 + 1 ELSE 0
        /\ \A i \in 1..(m - 1 + 1) : SubSeq(all, 1, m)[i] = all[1 + i - 1]
    BY <2>1, <1>10, SubSeqProperties
  <2>3. Len(incidents') = m /\ DOMAIN incidents' = 1..m
    BY <2>2, <1>7, <1>10, LenProperties
  <2>4. \A i \in 1..m : incidents'[i] = all[i]
    BY <2>2, <1>7, <1>10
  <2> QED BY <2>2, <2>3, <2>4, <1>7
<1>13. \A i \in 1..m : /\ i <= n => /\ incidents'[i].id = nextId + (n - i)
                                    /\ incidents'[i].event = events[n - i + 1]
                       /\ i > n => i - n \in DOMAIN incidents /\ incidents'[i] = incidents[i - n]
  <2> SUFFICES ASSUME NEW i \in 1..m
               PROVE  /\ i <= n => /\ incidents'[i].id = nextId + (n - i)
                                   /\ incidents'[i].event = events[n - i + 1]
                      /\ i > n => i - n \in DOMAIN incidents /\ incidents'[i] = incidents[i - n]
    OBVIOUS
  <2>1. i \in 1..Len(all) /\ incidents'[i] = IF i <= n THEN newest[i] ELSE incidents[i - n]
    BY <1>1, <1>8, <1>10, <1>12
  <2>2. CASE i <= n
    <3>1. i \in 1..n /\ ~(i > n)
      BY <1>1, <1>10, <2>2
    <3> QED BY <2>1, <2>2, <3>1, <1>5
  <2>3. CASE i > n
    <3>1. i - n \in 1..Len(incidents) /\ ~(i <= n)
      BY <1>1, <1>8, <1>9, <1>10, <2>1, <2>3
    <3> QED BY <2>1, <2>3, <3>1, <1>9
  <2> QED BY <2>2, <2>3, <1>1, <1>10
<1>14. /\ \A i \in DOMAIN incidents : incidents[i].id < nextId /\ incidents[i].id \in Nat
       /\ \A i, j \in DOMAIN incidents : i < j => incidents[i].id > incidents[j].id
  BY <1>9 DEF LogOK, LogIsOrdered, Entries
<1>15. \A i \in DOMAIN incidents' : incidents'[i].id < nextId'
  <2> SUFFICES ASSUME NEW i \in 1..m PROVE incidents'[i].id < nextId + n
    BY <1>7, <1>12
  <2>0. i \in Nat /\ i >= 1 /\ n \in Nat /\ nextId \in Nat
    BY <1>1, <1>10
  <2>1. CASE i <= n
    BY <2>0, <2>1, <1>13
  <2>2. CASE i > n
    BY <2>0, <2>2, <1>13, <1>14
  <2> QED BY <2>0, <2>1, <2>2
<1>16. \A i, j \in DOMAIN incidents' : i < j => incidents'[i].id > incidents'[j].id
  <2> SUFFICES ASSUME NEW i \in 1..m, NEW j \in 1..m, i < j
               PROVE  incidents'[i].id > incidents'[j].id
    BY <1>12
  <2>0. i \in Nat /\ j \in Nat /\ n \in Nat /\ nextId \in Nat
    BY <1>1, <1>10
  <2>1. CASE j <= n
    BY <2>0, <2>1, <1>13
  <2>2. CASE i <= n /\ j > n
    BY <2>0, <2>2, <1>13, <1>14
  <2>3. CASE i > n
    <3>1. i - n < j - n /\ j > n
      BY <2>0, <2>3
    <3> QED BY <3>1, <2>3, <1>13, <1>14
  <2> QED BY <2>0, <2>1, <2>2, <2>3
<1>17. LogOK'
  BY <1>1, <1>7, <1>10, <1>12, <1>15, <1>16 DEF LogOK, LogIsOrdered
<1>18. \A i \in DOMAIN incidents' :
         \/ \E j \in DOMAIN incidents : incidents'[i].event = incidents[j].event
         \/ \E k \in DOMAIN events : incidents'[i].event = events[k]
  <2> SUFFICES ASSUME NEW i \in 1..m
               PROVE  \/ \E j \in DOMAIN incidents : incidents'[i].event = incidents[j].event
                      \/ \E k \in 1..n : incidents'[i].event = events[k]
    BY <1>1, <1>12
  <2>1. CASE i <= n
    <3>1. n - i + 1 \in 1..n
      BY <2>1, <1>1, <1>10
    <3> QED BY <3>1, <2>1, <1>13
  <2>2. CASE i > n
    BY <2>2, <1>13
  <2> QED BY <2>1, <2>2, <1>1, <1>10
<1> QED BY <1>17, <1>18

-----------------------------------------------------------------------------
(* What a snapshot adds *)

\* What is kept of a snapshot is an observation.
LEMMA ObservedType ==
  ASSUME NEW s \in Snapshots
  PROVE  ObserveState(s) \in Observations
<1> DEFINE facts == [f \in Facets |->
             CASE f = "distro-state" -> IF s.selected = Nil THEN Nil ELSE s.states[s.selected]
               [] f = "console" -> s.console.status
               [] OTHER -> s.dash[f]]
<1>1. ASSUME NEW f \in Facets
      PROVE  facts[f] \in Facts
  <2>1. CASE f = "distro-state"
    BY <2>1 DEF Snapshots, Facts
  <2>2. CASE f = "console"
    BY <2>2 DEF Snapshots, Facts
  <2>3. CASE f \in DashFacets
    <3>1. facts[f] = s.dash[f]
      BY <2>3 DEF DashFacets
    <3> QED BY <3>1, <2>3 DEF Snapshots
  <2> QED BY <2>1, <2>2, <2>3 DEF Facets, DashFacets
<1>2. facts \in [Facets -> Facts]
  BY <1>1
<1>3. ObserveState(s) = [distro |-> s.selected, facts |-> facts]
  BY DEF ObserveState
<1> HIDE DEF facts
<1> QED BY <1>2, <1>3 DEF Observations, Snapshots

\* What a change of a facet is called is one of the kinds of a change, if anything.
LEMMA KindsOK ==
  ASSUME NEW f \in Facets, NEW was, NEW is
  PROVE  KindOf(f, was, is) \in ChangeKinds \union {Nil} /\ ChangeKinds \subseteq Kinds
BY DEF KindOf, Kinds, Facets, ChangeKinds

\* An event e of a change tells of a facet's, from one observation to the next.
TellsOf(e, f, prev, next) ==
  /\ e.kind = KindOf(f, prev.facts[f], next.facts[f])
  /\ e.from = prev.facts[f] /\ e.to = next.facts[f]

\* A change is told of the distro both observations are of.
Tells(events, prev, next) ==
  \A k \in DOMAIN events :
    events[k].kind \in ChangeKinds =>
      /\ prev # Nil /\ next.distro # Nil /\ prev.distro = next.distro
      /\ events[k].distro = next.distro
      /\ \E f \in Facets : TellsOf(events[k], f, prev, next)

\* The event for one facet tells a change that happened.
LEMMA ChangeOK ==
  ASSUME NEW prev \in Observations, NEW next \in Observations, NEW f \in Facets,
         prev # Nil, next.distro # Nil, prev.distro = next.distro
  PROVE  Change(f, prev, next) \in Seq(Events) /\ Tells(Change(f, prev, next), prev, next)
<1> DEFINE kind == KindOf(f, prev.facts[f], next.facts[f])
<1>1. kind \in Kinds \union {Nil}
  BY KindsOK
<1>2. next.distro \in Distros \union {Nil} /\ prev.facts[f] \in Causes /\ next.facts[f] \in Causes
  BY DEF Observations, Causes
<1> HIDE DEF kind
<1>3. CASE kind = Nil
  <2>1. Change(f, prev, next) = <<>>
    BY <1>3 DEF Change, kind
  <2> QED BY <2>1 DEF Tells
<1>4. CASE kind # Nil
  <2> DEFINE e == Incident(kind, next.distro, prev.facts[f], next.facts[f])
  <2>1. Change(f, prev, next) = <<e>>
    BY <1>4 DEF Change, kind
  <2>2. e \in Events
    BY <1>1, <1>2, <1>4 DEF Incident, Events
  <2>3. e.distro = next.distro /\ TellsOf(e, f, prev, next)
    BY DEF Incident, TellsOf, kind
  <2> HIDE DEF e
  <2>4. <<e>> \in Seq(Events) /\ DOMAIN <<e>> = {1} /\ <<e>>[1] = e
    BY <2>2
  <2> QED BY <2>1, <2>3, <2>4 DEF Tells
<1> QED BY <1>3, <1>4

\* Two lists of events that tell what happened do so one after the other.
LEMMA TellsBoth ==
  ASSUME NEW s \in Seq(Events), NEW t \in Seq(Events), NEW prev, NEW next,
         Tells(s, prev, next), Tells(t, prev, next)
  PROVE  s \o t \in Seq(Events) /\ Tells(s \o t, prev, next)
<1>1. /\ s \o t \in Seq(Events) /\ Len(s \o t) = Len(s) + Len(t)
      /\ \A i \in 1..(Len(s) + Len(t)) : (s \o t)[i] = IF i <= Len(s) THEN s[i] ELSE t[i - Len(s)]
  BY ConcatProperties
<1>2. /\ Len(s) \in Nat /\ Len(t) \in Nat
      /\ DOMAIN s = 1..Len(s) /\ DOMAIN t = 1..Len(t) /\ DOMAIN (s \o t) = 1..Len(s \o t)
  BY <1>1, LenProperties
<1> DEFINE all == s \o t
<1> HIDE DEF all
<1>3. ASSUME NEW k \in DOMAIN all
      PROVE  (\E i \in DOMAIN s : all[k] = s[i]) \/ (\E i \in DOMAIN t : all[k] = t[i])
  <2>1. k \in 1..(Len(s) + Len(t)) /\ all[k] = IF k <= Len(s) THEN s[k] ELSE t[k - Len(s)]
    BY <1>1, <1>2, <1>3 DEF all
  <2>2. CASE k <= Len(s)
    <3>1. k \in 1..Len(s)
      BY <2>1, <2>2, <1>2
    <3> QED BY <3>1, <2>1, <2>2, <1>2
  <2>3. CASE ~(k <= Len(s))
    <3>1. k - Len(s) \in 1..Len(t)
      BY <2>1, <2>3, <1>2
    <3> QED BY <3>1, <2>1, <2>3, <1>2
  <2> QED BY <2>2, <2>3
<1>4. Tells(all, prev, next)
  BY <1>3 DEF Tells
<1> QED BY <1>1, <1>4 DEF all

\* The events for all five facets tell changes that happened.
LEMMA ChangesOK ==
  ASSUME NEW prev \in Observations, NEW next \in Observations,
         prev # Nil, prev.distro = next.distro
  PROVE  ChangesOf(prev, next) \in Seq(Events) /\ Tells(ChangesOf(prev, next), prev, next)
<1>1. CASE next.distro = Nil
  BY <1>1 DEF ChangesOf, Tells
<1>2. CASE next.distro # Nil
  <2> DEFINE c(f) == Change(f, prev, next)
             s1 == c("distro-state") \o c("liveness")
             s2 == s1 \o c("network-mode")
             s3 == s2 \o c("dns")
             s4 == s3 \o c("console")
  <2>1. \A f \in Facets : c(f) \in Seq(Events) /\ Tells(c(f), prev, next)
    BY <1>2, ChangeOK
  <2>2. ChangesOf(prev, next) = s4
    BY <1>2 DEF ChangesOf
  <2> HIDE DEF c
  <2>3. s1 \in Seq(Events) /\ Tells(s1, prev, next)
    BY <2>1, TellsBoth DEF Facets
  <2> HIDE DEF s1
  <2>4. s2 \in Seq(Events) /\ Tells(s2, prev, next)
    BY <2>1, <2>3, TellsBoth DEF Facets
  <2> HIDE DEF s2
  <2>5. s3 \in Seq(Events) /\ Tells(s3, prev, next)
    BY <2>1, <2>4, TellsBoth DEF Facets
  <2> HIDE DEF s3
  <2>6. s4 \in Seq(Events) /\ Tells(s4, prev, next)
    BY <2>1, <2>5, TellsBoth DEF Facets
  <2> QED BY <2>2, <2>6
<1> QED BY <1>1, <1>2

\* A new selection tells no change of state.
LEMMA SelectedOK ==
  ASSUME NEW d \in Distros \union {Nil}, NEW prev, NEW next
  PROVE  Selected(d) \in Seq(Events) /\ Tells(Selected(d), prev, next)
<1>1. CASE d = Nil
  BY <1>1 DEF Selected, Tells
<1>2. CASE d # Nil
  <2> DEFINE e == Incident("distro-selected", d, Nil, Nil)
  <2>1. e \in Events /\ e.kind = "distro-selected"
    BY DEF Incident, Events, Kinds, Causes, Facts
  <2>2. Selected(d) = <<e>>
    BY <1>2 DEF Selected
  <2> HIDE DEF e
  <2>3. <<e>> \in Seq(Events) /\ DOMAIN <<e>> = {1} /\ <<e>>[1] = e
    BY <2>1
  <2>4. e.kind \notin ChangeKinds
    BY <2>1 DEF ChangeKinds
  <2> QED BY <2>2, <2>3, <2>4 DEF Tells
<1> QED BY <1>1, <1>2

\* Observing a snapshot, first or later, tells what happened.
LEMMA ObservedOK ==
  ASSUME NEW prev \in Observations \union {Nil}, NEW next \in Observations
  PROVE  Observed(prev, next) \in Seq(Events) /\ Tells(Observed(prev, next), prev, next)
<1>0. next.distro \in Distros \union {Nil}
  BY DEF Observations
<1>1. CASE prev = Nil
  <2> DEFINE e == Incident("monitoring-started", Nil, Nil, Nil)
  <2>1. e \in Events /\ e.kind = "monitoring-started"
    BY DEF Incident, Events, Kinds, Causes, Facts
  <2>2. Observed(prev, next) = <<e>> \o Selected(next.distro)
    BY <1>1 DEF Observed
  <2> HIDE DEF e
  <2>3. <<e>> \in Seq(Events) /\ DOMAIN <<e>> = {1} /\ <<e>>[1] = e
    BY <2>1
  <2>4. Tells(<<e>>, prev, next)
    BY <2>1, <2>3 DEF Tells, ChangeKinds
  <2>5. Selected(next.distro) \in Seq(Events) /\ Tells(Selected(next.distro), prev, next)
    BY <1>0, SelectedOK
  <2>6. /\ <<e>> \o Selected(next.distro) \in Seq(Events)
        /\ Tells(<<e>> \o Selected(next.distro), prev, next)
    BY <2>3, <2>4, <2>5, TellsBoth
  <2> QED BY <2>2, <2>6
<1>2. CASE prev # Nil /\ prev.distro # next.distro
  BY <1>0, <1>2, SelectedOK DEF Observed
<1>3. CASE prev # Nil /\ prev.distro = next.distro
  BY <1>3, ChangesOK DEF Observed
<1> QED BY <1>1, <1>2, <1>3

-----------------------------------------------------------------------------
(* Snapshots and what is kept of them *)

\* The processes a snapshot lists are the selected distro's.
Owned(s) == \A p \in s.servers : p.distro = s.selected

\* A snapshot published owns its sections if the one before did.
LEMMA PublishedIs ==
  ASSUME TypeOK, Published
  PROVE  \E s \in Snapshots : Publish(s) /\ (Owned(snapshot) => Owned(s))
<1>1. snapshot \in Snapshots
  BY DEF TypeOK
<1>2. CASE Refresh
  BY <1>1, <1>2 DEF Refresh
<1>3. CASE \E d \in Distros \union {Nil} : SelectDistro(d)
  <2>1. PICK d \in Distros \union {Nil} : SelectDistro(d)
    BY <1>3
  <2> DEFINE s == [snapshot EXCEPT !.selected = d, !.dash = Unknown, !.probed = Nil,
                                 !.servers = {}]
  <2>2. Unknown \in [DashFacets -> Facts]
    BY DEF Unknown, DashFacets, Facts
  <2>3. s \in Snapshots /\ s.servers = {}
    BY <1>1, <2>2 DEF Snapshots
  <2>4. Publish(s)
    BY <2>1 DEF SelectDistro
  <2> HIDE DEF s
  <2> QED BY <2>3, <2>4 DEF Owned
<1>4. CASE \E d \in Distros, state \in {"Running", "Stopped"} : DistroState(d, state)
  <2>1. PICK d \in Distros, state \in {"Running", "Stopped"} : DistroState(d, state)
    BY <1>4
  <2> DEFINE s == [snapshot EXCEPT !.states[d] = state]
  <2>2. s \in Snapshots /\ s.servers = snapshot.servers /\ s.selected = snapshot.selected
    BY <1>1 DEF Snapshots, States
  <2>3. Publish(s)
    BY <2>1 DEF DistroState
  <2> HIDE DEF s
  <2> QED BY <2>2, <2>3 DEF Owned
<1>5. CASE \/ \E m \in Modes : Collected("network-mode", m)
           \/ \E r \in Resolvers : Collected("dns", r)
  <2>1. PICK f \in DashFacets, value \in Facts : Collected(f, value)
    BY <1>5 DEF DashFacets, Facts
  <2> DEFINE s == [snapshot EXCEPT !.dash[f] = value]
  <2>2. s \in Snapshots /\ s.servers = snapshot.servers /\ s.selected = snapshot.selected
    BY <1>1 DEF Snapshots
  <2>3. Publish(s)
    BY <2>1 DEF Collected
  <2> HIDE DEF s
  <2> QED BY <2>2, <2>3 DEF Owned
<1>6. CASE \E d \in Distros, status \in Consoles : ConsoleStatus(d, status)
  <2>1. PICK d \in Distros, status \in Consoles : ConsoleStatus(d, status)
    BY <1>6
  <2> DEFINE c == [distro |-> d, status |-> status]
             s == [snapshot EXCEPT !.console = c]
  <2>2. s \in Snapshots /\ s.servers = snapshot.servers /\ s.selected = snapshot.selected
    BY <1>1 DEF Snapshots
  <2>3. Publish(s)
    BY <2>1 DEF ConsoleStatus
  <2> HIDE DEF s
  <2> QED BY <2>2, <2>3 DEF Owned
<1>8. CASE \E answer \in Answers : Probe(answer) \/ LateProbe(answer)
  <2>1. PICK answer \in Answers : Probe(answer) \/ LateProbe(answer)
    BY <1>8
  <2>2. PICK d \in Distros \union {Nil} : Probed(d, answer)
    BY <1>1, <2>1 DEF Probe, LateProbe, TypeOK, Snapshots
  <2> DEFINE s == [snapshot EXCEPT !.dash["liveness"] = answer, !.probed = d]
  <2>3. answer \in Facts /\ "liveness" \in DashFacets
    BY DEF Facts, DashFacets
  <2>4. s \in Snapshots /\ s.servers = snapshot.servers /\ s.selected = snapshot.selected
    BY <1>1, <2>3 DEF Snapshots
  <2>5. Publish(s)
    BY <2>2 DEF Probed
  <2> HIDE DEF s
  <2> QED BY <2>4, <2>5 DEF Owned
<1>7. CASE \E roles \in SUBSET {"server-main", "other"} : ServersFound(roles)
  <2>1. PICK roles \in SUBSET {"server-main", "other"} : ServersFound(roles)
    BY <1>7
  <2> DEFINE found == {Server(snapshot.selected, r) : r \in roles}
             s == [snapshot EXCEPT !.servers = found]
  <2>2. snapshot.selected \in Distros
    BY <1>1, <2>1 DEF ServersFound, Snapshots
  <2>3. found \subseteq Servers /\ \A p \in found : p.distro = snapshot.selected
    <3>1. \A r \in roles : /\ Server(snapshot.selected, r) \in Servers
                           /\ Server(snapshot.selected, r).distro = snapshot.selected
      BY <2>2 DEF Server, Servers
    <3> QED BY <3>1
  <2>4. Publish(s)
    BY <2>1 DEF ServersFound
  <2> HIDE DEF found
  <2>5. s \in Snapshots /\ s.servers = found /\ s.selected = snapshot.selected
    BY <1>1, <2>3 DEF Snapshots
  <2> HIDE DEF s
  <2> QED BY <2>3, <2>4, <2>5 DEF Owned
<1> QED BY <1>2, <1>3, <1>4, <1>5, <1>6, <1>7, <1>8 DEF Published

\* The probe left over from before a switch asks some distro, if there is one.
LEMMA PublishedLate ==
  ASSUME TypeOK, Published
  PROVE  late' \in Distros \union {Nil}
<1>1. late \in Distros \union {Nil} /\ snapshot.selected \in Distros \union {Nil}
  BY DEF TypeOK, Snapshots
<1>2. late' \in {late, Nil, snapshot.selected}
  BY DEF Published, Refresh, SelectDistro, DistroState, Collected, Probe, LateProbe,
         ConsoleStatus, ServersFound
<1> QED BY <1>1, <1>2

\* Publishing keeps the types and makes the last observation that of the snapshot.
LEMMA PublishOK ==
  ASSUME TypeOK, NEW s \in Snapshots, Publish(s), late' \in Distros \union {Nil}
  PROVE  TypeOK' /\ previous' = ObserveState(snapshot')
<1>1. previous \in Observations \union {Nil} /\ ObserveState(s) \in Observations
  BY ObservedType DEF TypeOK
<1>2. LogOK'
  BY <1>1, ObservedOK, AddOK DEF TypeOK, Publish
<1> QED BY <1>1, <1>2 DEF TypeOK, ShownOK, Publish

\* Sleep and wake add no change.
LEMMA PowerOK ==
  ASSUME TypeOK, NEW kind \in {"power-suspend", "power-resume"}, Power(kind)
  PROVE  /\ TypeOK'
         /\ \A i \in DOMAIN incidents' :
              \/ \E j \in DOMAIN incidents : incidents'[i].event = incidents[j].event
              \/ incidents'[i].event.kind \notin ChangeKinds
<1> DEFINE e == Incident(kind, snapshot.selected, Nil, Nil)
<1>1. e \in Events /\ e.kind = kind
  BY DEF Incident, Events, Kinds, Causes, Facts, TypeOK, Snapshots
<1>2. Add(<<e>>)
  BY DEF Power
<1> HIDE DEF e
<1>3. <<e>> \in Seq(Events) /\ DOMAIN <<e>> = {1} /\ <<e>>[1] = e
  BY <1>1
<1>4. /\ LogOK'
      /\ \A i \in DOMAIN incidents' :
           \/ \E j \in DOMAIN incidents : incidents'[i].event = incidents[j].event
           \/ \E k \in DOMAIN <<e>> : incidents'[i].event = <<e>>[k]
  BY <1>2, <1>3, AddOK DEF TypeOK
<1>5. /\ clock' \in Nat /\ resumedAt' \in Nat \union {Nil}
      /\ suspended' \in Observations \union {Nil}
  BY ObservedType DEF TypeOK, Power
<1>6. TypeOK'
  BY <1>4, <1>5 DEF TypeOK, ShownOK, Power
<1>7. e.kind \notin ChangeKinds
  BY <1>1 DEF ChangeKinds
<1> QED BY <1>3, <1>4, <1>6, <1>7

-----------------------------------------------------------------------------
(* Checks *)

\* The outcomes of a network check count its failures.
LEMMA ProbeResultsOK ==
  ASSUME NEW flight \in Flights, NEW probes \in NetworkResults(flight)
  PROVE  probes \in ProbeResults /\ Cardinality(Failed(probes)) \in Nat
<1>1. probes \in [Probes(flight.port) -> {"pass", "fail", "unknown"}] /\ flight.port \in BOOLEAN
  BY DEF NetworkResults, Flights
<1>2. probes \in ProbeResults
  BY <1>1 DEF ProbeResults
<1>3. IsFiniteSet({"distro", "wsl-dns", "default-route", "windows-dns", "windows-localhost"})
  <2>1. IsFiniteSet({} \union {"distro"})
    BY FS_EmptySet, FS_AddElement
  <2>2. IsFiniteSet(({} \union {"distro"}) \union {"wsl-dns"})
    BY <2>1, FS_AddElement
  <2>3. IsFiniteSet((({} \union {"distro"}) \union {"wsl-dns"}) \union {"default-route"})
    BY <2>2, FS_AddElement
  <2>4. IsFiniteSet({"distro", "wsl-dns", "default-route"} \union {"windows-dns"})
    <3>1. (({} \union {"distro"}) \union {"wsl-dns"}) \union {"default-route"}
            = {"distro", "wsl-dns", "default-route"}
      OBVIOUS
    <3> QED BY <2>3, <3>1, FS_AddElement
  <2>5. IsFiniteSet(({"distro", "wsl-dns", "default-route"} \union {"windows-dns"})
                      \union {"windows-localhost"})
    BY <2>4, FS_AddElement
  <2>6. ({"distro", "wsl-dns", "default-route"} \union {"windows-dns"}) \union {"windows-localhost"}
          = {"distro", "wsl-dns", "default-route", "windows-dns", "windows-localhost"}
    OBVIOUS
  <2> QED BY <2>5, <2>6
<1>4. Failed(probes) \subseteq
        {"distro", "wsl-dns", "default-route", "windows-dns", "windows-localhost"}
  BY <1>1 DEF Failed, Probes, InDistro
<1>5. IsFiniteSet(Failed(probes))
  BY <1>3, <1>4, FS_Subset
<1> QED BY <1>2, <1>5, FS_CardinalityType

\* The steps are for the distro of the snapshot, and the recommended one is on offer.
LEMMA StepsOK ==
  ASSUME NEW s \in Snapshots, s.selected \in Distros, Owned(s), NEW probes,
         NEW r, r = RecommendedStep(s, probes)
  PROVE  /\ r \in StepIds /\ Steps(s, r) \in [StepIds -> RecoverySteps]
         /\ Steps(s, r)[r].status = "recommended"
         /\ Steps(s, r)["terminate-distro"].stops = {s.selected}
         /\ \A p \in Steps(s, r)["restart-vscode-server"].stops : p.distro = s.selected
<1> DEFINE targets == Targets(s.servers)
<1>1. targets \subseteq s.servers /\ s.servers \subseteq Servers
  BY DEF Targets, Snapshots
<1>2. r \in {"terminate-distro", "restart-vscode-server", "reload-window"}
  BY DEF RecommendedStep
<1>3. r = "restart-vscode-server" => targets # {}
  BY DEF RecommendedStep, Targets
<1> HIDE DEF targets
<1>4. \A id \in StepIds, available \in BOOLEAN, stops \in SUBSET (Distros \union Servers) :
        Step(id, r, available, stops) \in RecoverySteps
  BY DEF Step, RecoverySteps
<1>5. /\ Steps(s, r)["reload-window"] = Step("reload-window", r, TRUE, {})
      /\ Steps(s, r)["restart-vscode-server"] =
           Step("restart-vscode-server", r, targets # {}, targets)
      /\ Steps(s, r)["terminate-distro"] = Step("terminate-distro", r, TRUE, {s.selected})
      /\ Steps(s, r)["shutdown-wsl"] = Step("shutdown-wsl", r, TRUE, Distros)
  BY DEF Steps, StepIds, targets
<1>6. Steps(s, r) \in [StepIds -> RecoverySteps]
  <2>1. \A id \in StepIds : Steps(s, r)[id] \in RecoverySteps
    <3>1. /\ Step("reload-window", r, TRUE, {}) \in RecoverySteps
          /\ Step("restart-vscode-server", r, targets # {}, targets) \in RecoverySteps
          /\ Step("terminate-distro", r, TRUE, {s.selected}) \in RecoverySteps
          /\ Step("shutdown-wsl", r, TRUE, Distros) \in RecoverySteps
      BY <1>1, <1>4 DEF StepIds
    <3> QED BY <1>5, <3>1 DEF StepIds
  <2> DEFINE step(id) == CASE id = "reload-window" -> Step(id, r, TRUE, {})
                           [] id = "restart-vscode-server" -> Step(id, r, targets # {}, targets)
                           [] id = "terminate-distro" -> Step(id, r, TRUE, {s.selected})
                           [] id = "shutdown-wsl" -> Step(id, r, TRUE, Distros)
  <2>2. Steps(s, r) = [id \in StepIds |-> step(id)]
    BY DEF Steps, targets
  <2> HIDE DEF step
  <2>3. \A id \in StepIds : step(id) \in RecoverySteps
    BY <2>1, <2>2
  <2> QED BY <2>2, <2>3
<1>7. Steps(s, r)[r].status = "recommended"
  BY <1>2, <1>3, <1>5 DEF Step
<1>8. /\ Steps(s, r)["terminate-distro"].stops = {s.selected}
      /\ Steps(s, r)["restart-vscode-server"].stops = targets
  BY <1>5 DEF Step
<1> QED BY <1>1, <1>2, <1>6, <1>7, <1>8 DEF StepIds, Owned

\* A recovery plan stops the checked distro alone, and recommends one of its steps.
LEMMA RecoveryOK ==
  ASSUME TypeOK, NEW flight \in Flights, flight.snapshot.selected # Nil,
         Owned(flight.snapshot), NEW probes
  PROVE  LET r == BuildRecoveryCheck(flight, probes)
         IN  /\ r \in RecoveryChecks
             /\ r.steps[r.recommendedStep].status = "recommended"
             /\ r.steps["terminate-distro"].stops = {r.distro}
             /\ \A p \in r.steps["restart-vscode-server"].stops : p.distro = r.distro
<1> DEFINE s == flight.snapshot
           step == RecommendedStep(s, probes)
           b == BuildRecoveryCheck(flight, probes)
           changes == ResumeChanges(s)
<1>1. s \in Snapshots /\ s.selected \in Distros /\ flight.began \in Nat
  BY DEF Flights, Snapshots
<1>2. /\ step \in StepIds /\ Steps(s, step) \in [StepIds -> RecoverySteps]
      /\ Steps(s, step)[step].status = "recommended"
      /\ Steps(s, step)["terminate-distro"].stops = {s.selected}
      /\ \A p \in Steps(s, step)["restart-vscode-server"].stops : p.distro = s.selected
  <2> HIDE DEF s, step
  <2> SUFFICES step = RecommendedStep(s, probes)
    BY <1>1, StepsOK DEF s
  <2> QED BY DEF step
<1>3. changes \in SUBSET Facets
  BY DEF ResumeChanges
<1>4. resumedAt \in Nat \union {Nil}
  BY DEF TypeOK
<1>5. b = [distro |-> s.selected, recommendedStep |-> step, steps |-> Steps(s, step),
           vscodeServerInstalled |-> s.servers # {}, began |-> flight.began,
           resumedAt |-> resumedAt, resumeChanges |-> changes]
  BY DEF BuildRecoveryCheck, Judged
<1> HIDE DEF b, s, step, changes
<1>6. b \in RecoveryChecks
  BY <1>1, <1>2, <1>3, <1>4, <1>5 DEF RecoveryChecks
<1>7. b.distro = s.selected /\ b.recommendedStep = step /\ b.steps = Steps(s, step)
  BY <1>5
<1> QED BY <1>2, <1>6, <1>7 DEF b

\* A check started captures the snapshot of now.
LEMMA RunCheckOK ==
  ASSUME TypeOK, NEW kind \in CheckKinds, NEW port \in BOOLEAN, RunCheck(kind, port)
  PROVE  /\ TypeOK'
         /\ \A k \in CheckKinds : flights'[k] = flights[k] \/ flights'[k].snapshot = snapshot
<1> DEFINE flight == [snapshot |-> snapshot, port |-> port, began |-> clock]
<1>1. flight \in Flights /\ flight.snapshot = snapshot
  BY DEF TypeOK, Flights
<1>2. flights' = [flights EXCEPT ![kind] = flight]
  BY DEF RunCheck
<1> HIDE DEF flight
<1>3. /\ flights' \in [CheckKinds -> Flights \union {Nil}]
      /\ \A k \in CheckKinds : flights'[k] = flights[k] \/ flights'[k].snapshot = snapshot
  BY <1>1, <1>2 DEF TypeOK
<1> QED BY <1>3 DEF TypeOK, LogOK, LogIsOrdered, ShownOK, RunCheck

\* A check that ends adds no change.
LEMMA CheckDoneOK ==
  ASSUME TypeOK, NEW kind \in CheckKinds, CheckDone(kind), Owned(flights[kind].snapshot)
  PROVE  /\ TypeOK'
         /\ \A k \in CheckKinds : flights'[k] \in {flights[k], Nil}
         /\ \A i \in DOMAIN incidents' :
              \/ \E j \in DOMAIN incidents : incidents'[i].event = incidents[j].event
              \/ incidents'[i].event.kind \notin ChangeKinds
         /\ RecoveryIsNarrow => RecoveryIsNarrow'
<1> DEFINE flight == flights[kind]
<1>1. /\ flight \in Flights /\ UNCHANGED <<snapshot, late, previous, suspended, resumedAt, clock>>
      /\ Owned(flight.snapshot)
  BY DEF CheckDone, TypeOK
<1>2. flights' = [flights EXCEPT ![kind] = Nil]
  BY DEF CheckDone, Released
<1>3. /\ flights' \in [CheckKinds -> Flights \union {Nil}]
      /\ \A k \in CheckKinds : flights'[k] \in {flights[k], Nil}
  BY <1>2 DEF TypeOK
<1>4. CASE flight.snapshot.selected = Nil
  <2>1. UNCHANGED <<last, incidents, nextId>>
    BY <1>4 DEF CheckDone
  <2> QED BY <1>1, <1>3, <2>1 DEF TypeOK, LogOK, LogIsOrdered, ShownOK, RecoveryIsNarrow
<1>5. CASE flight.snapshot.selected # Nil
  <2>1. PICK probes \in NetworkResults(flight) :
          /\ last' = Shown(kind, flight, probes)
          /\ Add(<<Incident(kind, flight.snapshot.selected, Severity(probes),
                            Cardinality(Failed(probes)))>>)
    BY <1>5 DEF CheckDone
  <2> HIDE DEF flight
  <2>2. flight.snapshot.selected \in Distros
    BY <1>1, <1>5 DEF Flights, Snapshots
  <2> DEFINE count == Cardinality(Failed(probes))
             severity == Severity(probes)
             e == Incident(kind, flight.snapshot.selected, severity, count)
             network == Network(flight, probes)
             recovery == BuildRecoveryCheck(flight, probes)
  <2>3. probes \in ProbeResults /\ count \in Nat /\ severity \in {"info", "warning"}
    BY <1>1, ProbeResultsOK DEF Severity
  <2>4. network \in NetworkChecks
    BY <2>2, <2>3 DEF Network, NetworkChecks
  <2> HIDE DEF count, severity, network
  <2>5. e \in Events /\ e.kind = kind
    BY <2>2, <2>3 DEF Incident, Events, Kinds, Causes
  <2>6. Add(<<e>>)
    BY <2>1 DEF count, severity
  <2> HIDE DEF e
  <2>7. <<e>> \in Seq(Events) /\ DOMAIN <<e>> = {1} /\ <<e>>[1] = e
    BY <2>5
  <2>8. /\ LogOK'
        /\ \A i \in DOMAIN incidents' :
             \/ \E j \in DOMAIN incidents : incidents'[i].event = incidents[j].event
             \/ \E k \in DOMAIN <<e>> : incidents'[i].event = <<e>>[k]
    BY <2>6, <2>7, AddOK DEF TypeOK
  <2>9. \A i \in DOMAIN incidents' :
          \/ \E j \in DOMAIN incidents : incidents'[i].event = incidents[j].event
          \/ incidents'[i].event.kind \notin ChangeKinds
    BY <2>5, <2>7, <2>8 DEF CheckKinds, ChangeKinds
  <2>10. /\ recovery \in RecoveryChecks
         /\ recovery.steps[recovery.recommendedStep].status = "recommended"
         /\ recovery.steps["terminate-distro"].stops = {recovery.distro}
         /\ \A p \in recovery.steps["restart-vscode-server"].stops : p.distro = recovery.distro
    BY <1>1, <1>5, RecoveryOK
  <2> HIDE DEF recovery
  <2>11. last' = [last EXCEPT !.network = network,
                              !.recovery = IF kind = "recovery-check" THEN recovery ELSE last.recovery]
    BY <2>1 DEF Shown, network, recovery
  <2> DEFINE said == IF kind = "recovery-check" THEN recovery ELSE last.recovery
  <2>12. said \in RecoveryChecks \union {Nil} /\ said \in {recovery, last.recovery}
    BY <2>10 DEF TypeOK, ShownOK
  <2>13. last' = [last EXCEPT !.network = network, !.recovery = said]
    BY <2>11
  <2> HIDE DEF said
  <2>14. ShownOK' /\ last'.recovery = said
    BY <2>4, <2>12, <2>13 DEF TypeOK, ShownOK
  <2>15. RecoveryIsNarrow => RecoveryIsNarrow'
    <3>1. CASE said = recovery
      BY <2>10, <2>14, <3>1 DEF RecoveryIsNarrow
    <3>2. CASE said = last.recovery
      BY <2>14, <3>2 DEF RecoveryIsNarrow
    <3> QED BY <2>12, <3>1, <3>2
  <2>16. TypeOK'
    BY <1>1, <1>3, <2>8, <2>14 DEF TypeOK
  <2> QED BY <1>3, <2>9, <2>15, <2>16
<1> QED BY <1>4, <1>5

-----------------------------------------------------------------------------
(* The invariants *)

\* What is compared with the next snapshot is this one.
SeenInv == previous # Nil => previous = ObserveState(snapshot)
OwnedInv ==
  /\ Owned(snapshot)
  /\ \A kind \in CheckKinds : flights[kind] # Nil => Owned(flights[kind].snapshot)
LogInv == SeenInv /\ OwnedInv /\ ChangesHappened /\ RecoveryIsNarrow

\* Entries that are not changes of state leave the log as true as it was.
LEMMA LogStays ==
  ASSUME ChangesHappened, happened' = happened,
         \A i \in DOMAIN incidents' :
           \/ \E j \in DOMAIN incidents : incidents'[i].event = incidents[j].event
           \/ incidents'[i].event.kind \notin ChangeKinds
  PROVE  ChangesHappened'
BY DEF ChangesHappened

\* An event is of a change among those given, as ChangesHappened has it.
Happens(e, changes) ==
  \E h \in changes :
    /\ h.distro = e.distro /\ h.from = e.from /\ h.to = e.to
    /\ KindOf(h.facet, e.from, e.to) = e.kind
    /\ h.own \/ h.facet \in MayBeForeign

\* What happened stays so.
LEMMA HappensStill ==
  ASSUME ChangesHappened, happened \subseteq happened',
         NEW j \in DOMAIN incidents, incidents[j].event.kind \in ChangeKinds
  PROVE  Happens(incidents[j].event, happened')
<1>1. Happens(incidents[j].event, happened)
  BY DEF ChangesHappened, Happens
<1> QED BY <1>1 DEF Happens

\* Publishing logs only changes between the two snapshots.
LEMMA PublishLog ==
  ASSUME TypeOK, LogInv, NEW s \in Snapshots, Publish(s)
  PROVE  ChangesHappened'
<1> DEFINE next == ObserveState(s)
           added == Observed(previous, next)
<1>1. previous \in Observations \union {Nil} /\ next \in Observations
  BY ObservedType DEF TypeOK
<1>2. added \in Seq(Events) /\ Tells(added, previous, next)
  BY <1>1, ObservedOK
<1>3. Add(added) /\ happened \subseteq happened' /\ Differences(snapshot, s) \subseteq happened'
  BY DEF Publish
<1> HIDE DEF added
<1>4. \A i \in DOMAIN incidents' :
        \/ \E j \in DOMAIN incidents : incidents'[i].event = incidents[j].event
        \/ \E k \in DOMAIN added : incidents'[i].event = added[k]
  BY <1>2, <1>3, AddOK DEF TypeOK
<1>5. ASSUME NEW k \in DOMAIN added, added[k].kind \in ChangeKinds
      PROVE  Happens(added[k], happened')
  <2>1. /\ previous # Nil /\ next.distro # Nil /\ previous.distro = next.distro
        /\ added[k].distro = next.distro
        /\ \E f \in Facets : TellsOf(added[k], f, previous, next)
    BY <1>2, <1>5 DEF Tells
  <2>2. previous = ObserveState(snapshot)
    BY <2>1 DEF LogInv, SeenInv
  <2>3. PICK f \in Facets : TellsOf(added[k], f, previous, next)
    BY <2>1
  <2> DEFINE h == [facet |-> f, distro |-> s.selected, from |-> ObserveState(snapshot).facts[f],
                   to |-> ObserveState(s).facts[f],
                   own |-> Of(f, snapshot) \in {Nil, s.selected} /\ Of(f, s) = s.selected]
  <2>4. next.distro = s.selected /\ previous.distro = snapshot.selected
    BY <2>2 DEF ObserveState
  <2>5. h \in Differences(snapshot, s)
    BY <2>1, <2>4 DEF Differences
  <2>6. /\ h.facet = f /\ h.distro = s.selected
        /\ h.from = previous.facts[f] /\ h.to = next.facts[f]
        /\ h.own <=> Of(f, snapshot) \in {Nil, s.selected} /\ Of(f, s) = s.selected
    BY <2>2
  <2>7. f \in MayBeForeign \/ (Of(f, snapshot) = snapshot.selected /\ Of(f, s) = s.selected)
    BY DEF MayBeForeign, Of
  <2>8. h.own \/ h.facet \in MayBeForeign
    BY <2>1, <2>4, <2>6, <2>7
  <2> HIDE DEF h
  <2>9. h.distro = added[k].distro /\ h.from = added[k].from /\ h.to = added[k].to
        /\ KindOf(h.facet, added[k].from, added[k].to) = added[k].kind
    BY <2>1, <2>3, <2>4, <2>6 DEF TellsOf
  <2> QED BY <1>3, <2>5, <2>8, <2>9 DEF Happens
<1>6. ASSUME NEW i \in DOMAIN incidents', incidents'[i].event.kind \in ChangeKinds
      PROVE  Happens(incidents'[i].event, happened')
  <2>1. CASE \E j \in DOMAIN incidents : incidents'[i].event = incidents[j].event
    BY <1>3, <1>6, <2>1, HappensStill DEF LogInv
  <2>2. CASE \E k \in DOMAIN added : incidents'[i].event = added[k]
    BY <1>5, <1>6, <2>2
  <2> QED BY <1>4, <2>1, <2>2
<1> QED BY <1>6 DEF ChangesHappened, Happens

\* The log is empty at the start.
LEMMA TypeInit == Init => TypeOK /\ LogInv
<1> SUFFICES ASSUME Init PROVE TypeOK /\ LogInv
  OBVIOUS
<1>1. Unknown \in [DashFacets -> Facts]
  BY DEF Unknown, DashFacets, Facts
<1>2. [d \in Distros |-> "Running"] \in [Distros -> States]
  BY DEF States
<1>3. snapshot \in Snapshots /\ snapshot.servers = {}
  BY <1>1, <1>2 DEF Init, Snapshots, Consoles
<1>4. LogOK
  <2>1. incidents = <<>> /\ nextId = 1 /\ <<>> \in Seq(Entries)
    BY DEF Init
  <2> QED BY <2>1, DiagnosticsAssumption DEF LogOK, LogIsOrdered
<1>5. TypeOK
  BY <1>3, <1>4 DEF Init, TypeOK, ShownOK, CheckKinds
<1>6. LogInv
  BY <1>3 DEF Init, LogInv, SeenInv, OwnedInv, Owned, CheckKinds, ChangesHappened, RecoveryIsNarrow
<1> QED BY <1>5, <1>6

\* Every step keeps types and log.
LEMMA LogNext == TypeOK /\ LogInv /\ [Next]_vars => TypeOK' /\ LogInv'
<1> SUFFICES ASSUME TypeOK, LogInv, [Next]_vars PROVE TypeOK' /\ LogInv'
  OBVIOUS
<1>1. CASE UNCHANGED vars
  BY <1>1 DEF vars, service, TypeOK, LogOK, LogIsOrdered, ShownOK, LogInv, SeenInv, OwnedInv,
              ChangesHappened, RecoveryIsNarrow
<1>2. CASE Published
  <2>1. PICK s \in Snapshots : Publish(s) /\ (Owned(snapshot) => Owned(s))
    BY <1>2, PublishedIs
  <2>2. snapshot' = s /\ flights' = flights /\ last' = last
    BY <2>1 DEF Publish
  <2>3. late' \in Distros \union {Nil}
    BY <1>2, PublishedLate
  <2>31. TypeOK' /\ SeenInv'
    BY <2>1, <2>3, PublishOK DEF SeenInv
  <2>4. OwnedInv' /\ RecoveryIsNarrow'
    BY <2>1, <2>2 DEF LogInv, OwnedInv, RecoveryIsNarrow
  <2> QED BY <2>1, <2>31, <2>4, PublishLog DEF LogInv
<1>3. CASE \E kind \in {"power-suspend", "power-resume"} : Power(kind)
  <2>1. PICK kind \in {"power-suspend", "power-resume"} : Power(kind)
    BY <1>3
  <2>2. UNCHANGED <<snapshot, previous, last, flights, happened>>
    BY <2>1 DEF Power
  <2>3. SeenInv' /\ OwnedInv' /\ RecoveryIsNarrow'
    BY <2>2 DEF LogInv, SeenInv, OwnedInv, RecoveryIsNarrow
  <2> QED BY <2>1, <2>2, <2>3, PowerOK, LogStays DEF LogInv
<1>4. CASE \E kind \in CheckKinds, port \in BOOLEAN : RunCheck(kind, port)
  <2>1. PICK kind \in CheckKinds, port \in BOOLEAN : RunCheck(kind, port)
    BY <1>4
  <2>2. UNCHANGED <<snapshot, previous, incidents, last, happened>>
    BY <2>1 DEF RunCheck
  <2>3. TypeOK' /\ \A k \in CheckKinds : flights'[k] = flights[k] \/ flights'[k].snapshot = snapshot
    BY <2>1, RunCheckOK
  <2>4. OwnedInv'
    BY <2>2, <2>3 DEF LogInv, OwnedInv
  <2>5. SeenInv' /\ ChangesHappened' /\ RecoveryIsNarrow'
    BY <2>2 DEF LogInv, SeenInv, ChangesHappened, RecoveryIsNarrow
  <2> QED BY <2>3, <2>4, <2>5 DEF LogInv
<1>5. CASE \E kind \in CheckKinds : CheckDone(kind)
  <2>1. PICK kind \in CheckKinds : CheckDone(kind)
    BY <1>5
  <2>2. UNCHANGED <<snapshot, previous, happened>> /\ flights[kind] # Nil
    BY <2>1 DEF CheckDone
  <2>3. Owned(flights[kind].snapshot)
    BY <2>2 DEF LogInv, OwnedInv
  <2>4. /\ TypeOK' /\ \A k \in CheckKinds : flights'[k] \in {flights[k], Nil}
        /\ \A i \in DOMAIN incidents' :
             \/ \E j \in DOMAIN incidents : incidents'[i].event = incidents[j].event
             \/ incidents'[i].event.kind \notin ChangeKinds
        /\ RecoveryIsNarrow => RecoveryIsNarrow'
    BY <2>1, <2>3, CheckDoneOK
  <2>5. ChangesHappened'
    BY <2>2, <2>4, LogStays DEF LogInv
  <2>6. SeenInv' /\ OwnedInv'
    BY <2>2, <2>4 DEF LogInv, SeenInv, OwnedInv
  <2> QED BY <2>4, <2>5, <2>6 DEF LogInv
<1>6. DOMAIN flights = CheckKinds
  BY DEF TypeOK
<1> QED BY <1>1, <1>2, <1>3, <1>4, <1>5, <1>6 DEF Next, Checks

\* Whatever is published, slept through and checked, the service's state keeps its
\* shape (diagnostics.ts).
THEOREM TypeCorrect == Spec => []TypeOK
BY TypeInit, LogNext, PTL DEF Spec

\* The log is newest first, gives each number once and never exceeds MAX_INCIDENTS,
\* however many incidents one snapshot adds (add, in diagnostics.ts).
THEOREM LogKeepsOrder == Spec => []LogIsOrdered
<1>1. TypeOK => LogIsOrdered
  BY DEF TypeOK, LogOK
<1> QED BY <1>1, TypeCorrect, PTL

\* A change of state in the log happened to the distro it names: the selection may
\* change between any two snapshots (observe, in diagnostics.ts).
THEOREM TellsWhatHappened == Spec => []ChangesHappened
<1>1. LogInv => ChangesHappened
  BY DEF LogInv
<1> QED BY <1>1, TypeInit, LogNext, PTL DEF Spec

\* A recovery check recommends a step it offers and stops nothing of another distro,
\* whatever is selected while its probes run (recovery.ts).
THEOREM RecoveryStaysNarrow == Spec => []RecoveryIsNarrow
<1>1. LogInv => RecoveryIsNarrow
  BY DEF LogInv
<1> QED BY <1>1, TypeInit, LogNext, PTL DEF Spec

-----------------------------------------------------------------------------
(* Collectors: the invariant *)

\* An answer that the second question of s, or Docker's script, may have given.
IsEntry(s, d, e) ==
  /\ e = [of |-> d, v |-> e.v, from |-> e.from, ends |-> e.ends, age |-> e.age]
  /\ e.age \in Nat /\ SecondIsTrue(s, e)

\* What is kept of a distro is its own, and true of what it was read in.
CacheInv ==
  /\ DOMAIN cache = Places[subject]
  /\ \A d \in Places[subject] : cache[d] = None \/ IsEntry(subject, d, cache[d])

\* A sample is of an earlier world of the same distro.
SampleInv ==
  /\ DOMAIN sample = Places[subject]
  /\ \A d \in Places[subject] : sample[d] = None \/
       \E b \in ResourceWorlds : \E q \in RunsOf("resources", b) :
         /\ subject = "resources" /\ NotAfter(b, world[d])
         /\ sample[d] = [v |-> Sample(q), from |-> b]

\* Docker's script between its halves: what it has printed is of a world like the
\* present one, or the connection has been made.
ProbingInv ==
  probing # None =>
    /\ subject = "docker" /\ probing.distro \in Places[subject]
    /\ \E w \in DockerWorlds :
         LET out == PrintDockerProbe(w) IN
         \/ /\ Alike(world[probing.distro], w)
            /\ probing = [distro |-> probing.distro, from |-> w, out |-> out,
                           waits |-> MayContact(out), late |-> FALSE]
         \/ /\ MayContact(out)
            /\ \E v \in DockerWorlds, slow \in SUBSET Commands :
                 /\ Alike(v, w)
                 /\ probing = [distro |-> probing.distro, from |-> AfterContact(v),
                               out |-> out \o PrintDockerContact(AfterContact(v), slow),
                               waits |-> FALSE, late |-> (slow # {})]

WorldInv ==
  /\ steps \in Nat
  /\ subject \in Subjects /\ DOMAIN world = Places[subject]
  /\ \A d \in Places[subject] : world[d] \in Worlds(subject)

CollectInv == WorldInv /\ CacheInv /\ SampleInv /\ ProbingInv /\ SaysNothingFalse

-----------------------------------------------------------------------------
(* Collectors: one question *)

\* Whether an answer is true does not depend on whose it is said to be, or on its age.
LEMMA TruthOfEntry ==
  ASSUME NEW s, NEW d, NEW e, NEW v, NEW w, NEW r
  PROVE  SecondIsTrue(s, Entry(d, v, w, r)) <=> SecondIsTrue(s, Entry(e, v, w, r))
  BY DEF SecondIsTrue, TrueSecond, UnseenSecond, ToldSecond, Entry

\* An entry that has aged is as true as it was.
LEMMA TruthOfAged ==
  ASSUME NEW s, NEW d, NEW e, IsEntry(s, d, e)
  PROVE  IsEntry(s, d, [e EXCEPT !.age = @ + 1])
  <1> DEFINE f == [of |-> d, v |-> e.v, from |-> e.from, ends |-> e.ends, age |-> e.age + 1]
  <1>1. [e EXCEPT !.age = @ + 1] = f
    BY DEF IsEntry
  <1>2. SecondIsTrue(s, f)
    BY DEF IsEntry, SecondIsTrue, TrueSecond, UnseenSecond
  <1>3. f = [of |-> d, v |-> f.v, from |-> f.from, ends |-> f.ends, age |-> f.age]
        /\ f.age \in Nat
    BY DEF IsEntry
  <1> HIDE DEF f
  <1> QED
    BY <1>1, <1>2, <1>3 DEF IsEntry

\* A refresh leaves nothing, what was there, or an answer of the run just made.
LEMMA RefreshedEntry ==
  ASSUME NEW s \in Subjects, NEW d \in DOMAIN cache, NEW w, NEW r,
         cache[d] = None \/ IsEntry(s, d, cache[d]),
         SecondIsTrue(s, Entry(None, ReadSecond(s, w, r), w, r))
  PROVE  /\ Refreshed(s, d, w, r) = None \/ IsEntry(s, d, Refreshed(s, d, w, r))
         /\ ReadSecond(s, w, r) # None => Refreshed(s, d, w, r).age = 0
  <1> DEFINE fresh == ReadSecond(s, w, r)
             e == Entry(d, fresh, w, r)
  <1>1. CASE fresh = None
    BY <1>1 DEF Refreshed, Key
  <1>2. CASE fresh # None
    <2>1. SecondIsTrue(s, e)
      BY TruthOfEntry
    <2>2. e = [of |-> d, v |-> e.v, from |-> e.from, ends |-> e.ends, age |-> e.age] /\ e.age = 0
      BY DEF Entry
    <2>3. Refreshed(s, d, w, r) = e
      BY <1>2 DEF Refreshed
    <2> HIDE DEF e, fresh
    <2> QED
      BY <1>2, <2>1, <2>2, <2>3 DEF IsEntry, fresh
  <1> QED
    BY <1>1, <1>2


\* The first question tells the truth, of a distro with or without a sample kept.
LEMMA FirstTold ==
  ASSUME AnswersAreTrue, WorldInv, SampleInv, subject # "docker", NEW d \in Places[subject],
         NEW r \in RunsOf(subject, world[d]), NEW other \in OtherRunsOf(subject, world[d])
  PROVE  FirstIsTrue(subject, FirstAnswer(subject, world[d], r, other, sample[d]))
  <1>1. world[d] \in Worlds(subject) /\ subject \in Subjects \ {"docker"}
    BY DEF WorldInv
  <1>2. CASE sample[d] = None
    BY <1>1, <1>2 DEF AnswersAreTrue, QuestionsAreTrue
  <1>3. CASE sample[d] # None
    <2>1. PICK b \in ResourceWorlds :
            \E q \in RunsOf("resources", b) :
              /\ subject = "resources" /\ NotAfter(b, world[d])
              /\ sample[d] = [v |-> Sample(q), from |-> b]
      BY <1>3 DEF SampleInv
    <2>2. PICK q \in RunsOf("resources", b) :
            /\ subject = "resources" /\ NotAfter(b, world[d])
            /\ sample[d] = [v |-> Sample(q), from |-> b]
      BY <2>1
    <2>3. world[d] \in ResourceWorlds
      BY <1>1, <2>2 DEF Worlds
    <2> QED
      BY <2>2, <2>3 DEF AnswersAreTrue, SharesAreTrue
  <1> QED
    BY <1>2, <1>3

\* The second one too.
LEMMA SecondTold ==
  ASSUME AnswersAreTrue, NEW s \in Subjects \ {"docker"}, NEW w \in Worlds(s),
         NEW r \in OtherRunsOf(s, w)
  PROVE  SecondIsTrue(s, Entry(None, ReadSecond(s, w, r), w, r))
  <1>1. PICK q : q \in RunsOf(s, w)
    <2>1. \A out : Whole(out) \in Outcomes(out)
      BY DEF Outcomes
    <2> QED
      BY <2>1 DEF RunsOf
  <1> QED
    BY <1>1 DEF AnswersAreTrue, QuestionsAreTrue

\* A question that is not docker's leaves what the caches hold true, and says nothing false.
LEMMA Asked ==
  ASSUME AnswersAreTrue, WorldInv, CacheInv, SampleInv, NEW d \in DOMAIN world, Ask(d)
  PROVE  CacheInv' /\ SampleInv' /\ SaysNothingFalse'
  <1>1. /\ subject # "docker" /\ d \in Places[subject] /\ subject \in Subjects
        /\ world[d] \in Worlds(subject) /\ subject' = subject /\ world' = world
    BY DEF Ask, WorldInv
  <1>2. PICK r \in RunsOf(subject, world[d]), other \in OtherRunsOf(subject, world[d]) :
          LET first == FirstAnswer(subject, world[d], r, other, sample[d])
              entry == cache[Key(subject, d)]
              served == Serves(subject, entry)
              second == IF served THEN entry ELSE Refreshed(subject, d, world[d], other)
          IN /\ sample' = IF subject = "resources" /\ Sample(r) # None
                          THEN [sample EXCEPT ![d] = [v |-> Sample(r), from |-> world[d]]]
                          ELSE sample
             /\ IF WantsSecond(subject, first.v)
                THEN /\ Show(d, first, second,
                             ~served /\ ReadSecond(subject, world[d], other) = None)
                     /\ cache' = IF subject \in CachedSubjects
                                 THEN [cache EXCEPT ![Key(subject, d)] = second] ELSE cache
                ELSE Show(d, first, None, FALSE) /\ UNCHANGED cache
    BY DEF Ask
  <1> DEFINE first == FirstAnswer(subject, world[d], r, other, sample[d])
             served == Serves(subject, cache[d])
             fresh == ReadSecond(subject, world[d], other)
             second == IF served THEN cache[d] ELSE Refreshed(subject, d, world[d], other)
  <1>3. /\ sample' = IF subject = "resources" /\ Sample(r) # None
                     THEN [sample EXCEPT ![d] = [v |-> Sample(r), from |-> world[d]]]
                     ELSE sample
        /\ \/ /\ Show(d, first, second, ~served /\ fresh = None)
              /\ cache' = IF subject \in CachedSubjects
                          THEN [cache EXCEPT ![d] = second] ELSE cache
           \/ Show(d, first, None, FALSE) /\ cache' = cache
    BY <1>2 DEF Key
  <1>4. FirstIsTrue(subject, first)
    BY <1>1, FirstTold
  <1>5. /\ second = None \/ IsEntry(subject, d, second)
        /\ second # None /\ subject \in CachedSubjects /\ ~(~served /\ fresh = None)
             => second.age < Ttl
    <2>1. cache[d] = None \/ IsEntry(subject, d, cache[d])
      BY <1>1 DEF CacheInv
    <2>2. SecondIsTrue(subject, Entry(None, fresh, world[d], other))
      BY <1>1, SecondTold
    <2>3. CASE served
      BY <2>1, <2>3 DEF Serves
    <2>4. CASE ~served
      <3> DEFINE got == Refreshed(subject, d, world[d], other)
      <3>1. /\ got = None \/ IsEntry(subject, d, got)
            /\ fresh # None => got.age = 0
        BY <1>1, <2>1, <2>2, RefreshedEntry DEF CacheInv
      <3> HIDE DEF got, fresh
      <3> QED
        BY <2>4, <3>1, TtlAssumption DEF got
    <2> QED
      BY <2>3, <2>4
  <1> HIDE DEF first, second, served, fresh
  <1>6. CacheInv'
    BY <1>1, <1>3, <1>5 DEF CacheInv
  <1>7. SampleInv'
    <2>1. CASE sample' = sample
      BY <1>1, <2>1 DEF SampleInv
    <2>2. CASE sample' # sample
      <3>1. /\ subject = "resources"
            /\ sample' = [sample EXCEPT ![d] = [v |-> Sample(r), from |-> world[d]]]
        BY <1>3, <2>2
      <3>2. world[d] \in ResourceWorlds /\ r \in RunsOf("resources", world[d])
        BY <1>1, <3>1 DEF Worlds
      <3>3. NotAfter(world[d], world[d])
        BY <3>2 DEF NotAfter, Runs, ResourceWorlds
      <3> QED
        BY <1>1, <3>1, <3>2, <3>3 DEF SampleInv
    <2> QED
      BY <2>1, <2>2
  <1>8. SaysNothingFalse'
    <2>1. CASE shown' = [distro |-> d, first |-> first, second |-> None, failed |-> FALSE]
      BY <1>1, <1>4, <2>1 DEF SaysNothingFalse
    <2>2. CASE shown' = [distro |-> d, first |-> first, second |-> second,
                         failed |-> (~served /\ fresh = None)]
      <3>1. /\ shown'.distro = d /\ shown'.first = first /\ shown'.second = second
            /\ shown'.failed = (~served /\ fresh = None)
        BY <2>2
      <3>2. second # None => SecondIsTrue(subject, second) /\ second.of = d /\ second.age \in Nat
        BY <1>5 DEF IsEntry
      <3>3. second # None /\ subject \in CachedSubjects /\ second.age >= Ttl => shown'.failed
        <4> SUFFICES ASSUME second # None, subject \in CachedSubjects, second.age >= Ttl
                     PROVE  ~served /\ fresh = None
          BY <3>1
        <4>1. ~(second.age < Ttl)
          BY <3>2, TtlAssumption
        <4> QED
          BY <1>5, <4>1
      <3> QED
        BY <1>1, <1>4, <3>1, <3>2, <3>3 DEF SaysNothingFalse
    <2> QED
      BY <1>3, <2>1, <2>2 DEF Show
  <1> QED
    BY <1>6, <1>7, <1>8


-----------------------------------------------------------------------------
(* Collectors: what changes under docker's script *)

\* Connecting leaves a system as it may be, and like the one before.
LEMMA Contacted ==
  ASSUME NEW w \in DockerWorlds
  PROVE  AfterContact(w) \in DockerWorlds /\ Alike(AfterContact(w), w)
  <1>1. CASE AfterContact(w) = w
    BY <1>1 DEF Alike
  <1>2. CASE AfterContact(w) # w
    <2>1. /\ ~w.remote /\ ~w.shim /\ w.daemon \in {"up", "activatable"}
          /\ AfterContact(w) = [w EXCEPT !.daemon = "up"]
      BY <1>2, EngineAssumption DEF AfterContact, Engine
    <2>2. w \in [cli : BOOLEAN, shim : BOOLEAN, desktop : BOOLEAN, remote : BOOLEAN,
                 inspects : BOOLEAN, daemon : {"up", "activatable", "down"}]
          /\ w.cli
      BY <2>1 DEF DockerWorlds
    <2>3. AfterContact(w) \in DockerWorlds
      BY <2>1, <2>2 DEF DockerWorlds
    <2>4. Alike(AfterContact(w), w)
      BY <2>1, <2>2 DEF Alike
    <2> QED
      BY <2>3, <2>4
  <1> QED
    BY <1>1, <1>2

\* The script is told to connect only by a daemon that runs, or by Docker Desktop's mount,
\* and never by a remote endpoint it could read.
LEMMA ContactIsInvited ==
  ASSUME NEW w \in DockerWorlds, MayContact(PrintDockerProbe(w))
  PROVE  (w.daemon = "up" \/ w.desktop) /\ (~w.remote \/ ~w.inspects)
  <1> DEFINE out == PrintDockerProbe(w)
  <1>1. CASE w.cli
    <2> DEFINE lines == <<<<"CLI", IF w.shim THEN "shim" ELSE "own">>, <<"ENDPOINT", Endpoint(w)>>,
                          <<"LOCAL", IF Endpoint(w) = "tcp" THEN "0" ELSE "1">>,
                          <<"LIVE", Live(w)>>>>
               local == IF Endpoint(w) = "tcp" THEN "0" ELSE "1"
    <2>1. out = lines
      BY <1>1 DEF PrintDockerProbe, When
    <2>2. /\ DOMAIN lines = 1 .. 4 /\ lines[1][1] = "CLI" /\ lines[2][1] = "ENDPOINT"
          /\ lines[3] = <<"LOCAL", local>> /\ lines[4] = <<"LIVE", Live(w)>>
      OBVIOUS
    <2> HIDE DEF lines
    <2>3. \A i \in DOMAIN lines : lines[i][1] = "LIVE" => i = 4
      BY <2>2
    <2>4. \A i \in DOMAIN lines : lines[i][1] = "LOCAL" => i = 3
      BY <2>2
    <2>5. First(lines, "LIVE") = Live(w)
      BY <2>2, <2>3 DEF First, Has
    <2>6. First(lines, "LOCAL") = local
      BY <2>2, <2>4 DEF First, Has
    <2>7. First(lines, "LOCAL") = "1" /\ Live(w) # ""
      BY <2>1, <2>5 DEF MayContact
    <2>8. w.daemon = "up" \/ w.desktop
      BY <2>7 DEF Live
    <2>9. Endpoint(w) # "tcp"
      BY <2>6, <2>7
    <2> QED
      BY <2>8, <2>9 DEF Endpoint
  <1>2. CASE ~w.cli
    <2>1. First(out, "LIVE") = None
      BY <1>2 DEF PrintDockerProbe, When, First, Has
    <2> QED
      BY <2>1 DEF MayContact
  <1> QED
    BY <1>1, <1>2


\* The script connects: what it prints from there on is of the system it connected to.
LEMMA Contacting ==
  ASSUME WorldInv, ProbingInv, DockerContact
  PROVE  /\ WorldInv' /\ ProbingInv'
         /\ probing.from.daemon = "up" \/ probing.from.desktop
         /\ ~probing.from.remote \/ ~probing.from.inspects
  <1> DEFINE d == probing.distro
             v == world[d]
  <1>1. /\ subject = "docker" /\ subject' = subject /\ d \in Places[subject]
        /\ v \in DockerWorlds /\ DOMAIN world = Places[subject]
        /\ steps' = steps
        /\ world' = [world EXCEPT ![d] = AfterContact(v)]
    BY DEF DockerContact, ProbingInv, WorldInv, Worlds
  <1>2. AfterContact(v) \in DockerWorlds /\ Alike(AfterContact(v), v)
    BY <1>1, Contacted
  <1>3. PICK w \in DockerWorlds :
          /\ Alike(v, w)
          /\ probing = [distro |-> d, from |-> w, out |-> PrintDockerProbe(w),
                        waits |-> MayContact(PrintDockerProbe(w)), late |-> FALSE]
    BY DEF DockerContact, ProbingInv
  <1>4. PICK slow \in SUBSET Commands :
          probing' = [probing EXCEPT !.from = AfterContact(v), !.waits = FALSE,
                                     !.late = (slow # {}),
                                     !.out = @ \o PrintDockerContact(AfterContact(v), slow)]
    BY DEF DockerContact
  <1>5. /\ MayContact(PrintDockerProbe(w))
        /\ probing' = [distro |-> d, from |-> AfterContact(v),
                       out |-> PrintDockerProbe(w) \o PrintDockerContact(AfterContact(v), slow),
                       waits |-> FALSE, late |-> (slow # {})]
    <2> DEFINE out == PrintDockerProbe(w)
               waits == MayContact(out)
               now == AfterContact(v)
               more == PrintDockerContact(now, slow)
               some == slow # {}
    <2>1. /\ probing = [distro |-> d, from |-> w, out |-> out, waits |-> waits, late |-> FALSE]
          /\ probing.waits
          /\ probing' = [probing EXCEPT !.from = now, !.waits = FALSE, !.late = some,
                                        !.out = @ \o more]
      BY <1>3, <1>4 DEF DockerContact
    <2> HIDE DEF out, waits, now, more, some
    <2>2. waits
      BY <2>1
    <2>3. probing' = [distro |-> d, from |-> now, out |-> out \o more, waits |-> FALSE,
                      late |-> some]
      <3> HIDE DEF d
      <3> QED
        BY <2>1
    <2> QED
      BY <2>2, <2>3 DEF out, waits, now, more, some
  <1>6. WorldInv'
    BY <1>1, <1>2 DEF WorldInv, Worlds
  <1>7. ProbingInv'
    <2>1. probing'.distro = d
      BY <1>5
    <2> HIDE DEF d, v
    <2> QED
      BY <1>1, <1>3, <1>5, <2>1 DEF ProbingInv
  <1>8. /\ probing.from.daemon = "up" \/ probing.from.desktop
        /\ ~probing.from.remote \/ ~probing.from.inspects
    <2>1. probing.from = w
      BY <1>3
    <2> QED
      BY <1>5, <2>1, ContactIsInvited
  <1> QED
    BY <1>6, <1>7, <1>8

\* A change of a distro leaves it one that may be, and like the one the script began in.
LEMMA Altering ==
  ASSUME WorldInv, ProbingInv, NEW d \in DOMAIN world, Alter(d)
  PROVE  WorldInv' /\ ProbingInv'
  <1>1. PICK w \in Worlds(subject) :
          /\ probing # None => Alike(w, world[d])
          /\ world' = [world EXCEPT ![d] = w]
    BY DEF Alter
  <1>2. /\ subject' = subject /\ probing' = probing /\ d \in Places[subject]
        /\ DOMAIN world = Places[subject] /\ steps' \in Nat
    BY DEF Alter, OneMore, WorldInv
  <1>3. WorldInv'
    BY <1>1, <1>2 DEF WorldInv
  <1>4. ASSUME probing # None, NEW u, Alike(world[probing.distro], u)
        PROVE  Alike(world'[probing.distro], u)
    <2>1. CASE probing.distro = d
      <3>1. world'[d] = w /\ Alike(w, world[d]) /\ Alike(world[d], u)
        BY <1>1, <1>2, <1>4, <2>1
      <3> QED
        BY <2>1, <3>1 DEF Alike
    <2>2. CASE probing.distro # d
      BY <1>1, <1>2, <1>4, <2>2 DEF ProbingInv
    <2> QED
      BY <2>1, <2>2
  <1>5. ProbingInv'
    BY <1>2, <1>4 DEF ProbingInv
  <1> QED
    BY <1>3, <1>5

\* Every step keeps the systems, and docker's script, as they may be.
LEMMA ScriptKept ==
  ASSUME WorldInv, ProbingInv, [CollectNext]_collectVars
  PROVE  WorldInv' /\ ProbingInv'
  <1>1. CASE subject' = subject /\ world' = world /\ steps' \in Nat
             /\ (probing' = probing \/ probing' = None)
    BY <1>1 DEF WorldInv, ProbingInv
  <1>2. ASSUME NEW d \in DOMAIN world, Ask(d)
        PROVE  WorldInv' /\ ProbingInv'
    BY <1>1, <1>2 DEF Ask, OneMore, WorldInv
  <1>3. ASSUME NEW d \in DOMAIN world, AskDocker(d)
        PROVE  WorldInv' /\ ProbingInv'
    <2>1. /\ subject = "docker" /\ d \in Places[subject] /\ world[d] \in DockerWorlds
          /\ subject' = subject /\ world' = world /\ steps' \in Nat
      BY <1>3 DEF AskDocker, OneMore, WorldInv, Worlds
    <2>2. CASE probing' = [distro |-> d, from |-> world[d], out |-> PrintDockerProbe(world[d]),
                           waits |-> MayContact(PrintDockerProbe(world[d])), late |-> FALSE]
      <3>1. Alike(world[d], world[d])
        BY DEF Alike
      <3>2. ProbingInv'
        BY <2>1, <2>2, <3>1 DEF ProbingInv
      <3> QED
        BY <2>1, <3>2 DEF WorldInv
    <2>3. CASE probing' = probing
      BY <1>1, <2>1, <2>3
    <2> QED
      BY <1>3, <2>2, <2>3 DEF AskDocker
  <1>4. CASE DockerEnd \/ Tick \/ UNCHANGED collectVars
    BY <1>1, <1>4 DEF DockerEnd, Tick, OneMore, collectVars, WorldInv
  <1> QED
    BY <1>2, <1>3, <1>4, Contacting, Altering DEF CollectNext

-----------------------------------------------------------------------------
(* Collectors: the answers of docker's script *)

\* What the script says at either of its ends is the truth, of the world it was read in.
LEMMA DockerTold ==
  ASSUME AnswersAreTrue, CacheInv, NEW d \in Places[subject], subject = "docker",
         NEW r, NEW w, SecondIsTrue("docker", Entry(None, ReadDocker(r), w, r)),
         ShowDocker(d, r, w), subject' = subject
  PROVE  CacheInv' /\ SaysNothingFalse'
  <1> DEFINE second == Refreshed("docker", d, w, r)
  <1>1. /\ ReadSecond("docker", w, r) = ReadDocker(r)
        /\ "docker" \in Subjects /\ "docker" \in CachedSubjects
    BY DEF ReadSecond, Subjects, CachedSubjects
  <1>2. d \in DOMAIN cache /\ (cache[d] = None \/ IsEntry("docker", d, cache[d]))
    BY DEF CacheInv
  <1>3. /\ second = None \/ IsEntry("docker", d, second)
        /\ ReadDocker(r) # None => second.age = 0
    BY <1>1, <1>2, RefreshedEntry
  <1>4. /\ cache' = [cache EXCEPT ![d] = second]
        /\ shown' = [distro |-> d, first |-> NoAnswer, second |-> second,
                     failed |-> (ReadDocker(r) = None)]
    BY DEF ShowDocker, Show, Key
  <1>5. FirstIsTrue("docker", NoAnswer)
    BY DEF FirstIsTrue, NoAnswer
  <1> HIDE DEF second
  <1>6. CacheInv'
    BY <1>3, <1>4 DEF CacheInv
  <1>7. /\ shown'.distro = d /\ shown'.first = NoAnswer /\ shown'.second = second
        /\ shown'.failed = (ReadDocker(r) = None)
    BY <1>4
  <1>8. second # None => SecondIsTrue("docker", second) /\ second.of = d /\ second.age \in Nat
    BY <1>3 DEF IsEntry
  <1>9. second # None /\ second.age >= Ttl => shown'.failed
    <2>1. ReadDocker(r) # None => ~(second.age >= Ttl)
      BY <1>3, TtlAssumption
    <2> QED
      BY <1>7, <2>1
  <1> QED
    BY <1>5, <1>6, <1>7, <1>8, <1>9 DEF SaysNothingFalse

\* Docker's collector is asked: the cache serves, the script starts, or its run fails.
LEMMA DockerAsked ==
  ASSUME AnswersAreTrue, WorldInv, CacheInv, SampleInv, NEW d \in DOMAIN world, AskDocker(d)
  PROVE  CacheInv' /\ SampleInv' /\ SaysNothingFalse'
  <1>1. /\ subject = "docker" /\ d \in Places[subject] /\ world[d] \in DockerWorlds
        /\ subject' = subject /\ world' = world /\ sample' = sample
    BY DEF AskDocker, WorldInv, Worlds
  <1>2. SampleInv'
    BY <1>1 DEF SampleInv
  <1>3. CASE /\ Serves("docker", cache[d]) /\ Show(d, NoAnswer, cache[d], FALSE)
             /\ UNCHANGED cache
    <2>1. IsEntry("docker", d, cache[d]) /\ cache[d].age < Ttl
      BY <1>1, <1>3 DEF CacheInv, Serves
    <2>2. /\ shown'.distro = d /\ shown'.first = NoAnswer /\ shown'.second = cache[d]
          /\ cache[d].of = d /\ SecondIsTrue("docker", cache[d])
          /\ ~(cache[d].age >= Ttl)
      BY <1>3, <2>1, TtlAssumption DEF Show, IsEntry
    <2>3. FirstIsTrue("docker", NoAnswer)
      BY DEF FirstIsTrue, NoAnswer
    <2>4. SaysNothingFalse'
      BY <1>1, <2>2, <2>3 DEF SaysNothingFalse
    <2>5. CacheInv'
      BY <1>1, <1>3 DEF CacheInv
    <2> QED
      BY <1>2, <2>4, <2>5
  <1>4. CASE shown' = None /\ UNCHANGED cache
    BY <1>1, <1>2, <1>4 DEF CacheInv, SaysNothingFalse
  <1>5. ASSUME NEW e \in {"stopped", "thrown"},
               ShowDocker(d, [out |-> <<>>, ends |-> e], world[d])
        PROVE  CacheInv' /\ SaysNothingFalse'
    <2> DEFINE r == [out |-> <<>>, ends |-> e]
    <2>1. SecondIsTrue("docker", Entry(None, ReadDocker(r), world[d], r))
      BY <1>1 DEF AnswersAreTrue, DockerIsTrue
    <2> HIDE DEF r
    <2> QED
      BY <1>1, <1>5, <2>1, DockerTold DEF r
  <1> QED
    BY <1>2, <1>3, <1>4, <1>5 DEF AskDocker, Key

\* The script ends, by itself or broken off, and its answer is kept.
LEMMA DockerEnds ==
  ASSUME AnswersAreTrue, CacheInv, SampleInv, ProbingInv, DockerEnd
  PROVE  CacheInv' /\ SampleInv' /\ SaysNothingFalse'
  <1> DEFINE d == probing.distro
  <1>1. /\ subject = "docker" /\ subject' = subject /\ d \in Places[subject]
        /\ world' = world /\ sample' = sample
    BY DEF DockerEnd, ProbingInv
  <1>2. PICK r \in Outcomes(probing.out) :
          /\ r.ends # "thrown" /\ (r.ends = "whole" => ~probing.waits)
          /\ ShowDocker(d, Ended(r, probing.late), probing.from)
    BY DEF DockerEnd
  <1> DEFINE end == Ended(r, probing.late)
  <1>3. SecondIsTrue("docker", Entry(None, ReadDocker(end), probing.from, end))
    <2>1. PICK w \in DockerWorlds :
            LET out == PrintDockerProbe(w) IN
            \/ /\ Alike(world[d], w)
               /\ probing = [distro |-> d, from |-> w, out |-> out, waits |-> MayContact(out),
                              late |-> FALSE]
            \/ /\ MayContact(out)
               /\ \E v \in DockerWorlds, slow \in SUBSET Commands :
                    /\ Alike(v, w)
                    /\ probing = [distro |-> d, from |-> AfterContact(v),
                                  out |-> out \o PrintDockerContact(AfterContact(v), slow),
                                  waits |-> FALSE, late |-> (slow # {})]
      BY DEF DockerEnd, ProbingInv
    <2> DEFINE out == PrintDockerProbe(w)
    <2>2. CASE probing = [distro |-> d, from |-> w, out |-> out, waits |-> MayContact(out),
                          late |-> FALSE]
      <3>1. /\ r \in Outcomes(out) /\ probing.from = w
            /\ r.ends # "whole" \/ ~MayContact(out)
        BY <1>2, <2>2
      <3>2. end = r
        BY <2>2 DEF Ended
      <3> HIDE DEF end
      <3> QED
        BY <3>1, <3>2 DEF AnswersAreTrue, DockerIsTrue
    <2>3. ASSUME MayContact(out), NEW v \in DockerWorlds, NEW slow \in SUBSET Commands,
                 Alike(v, w),
                 probing = [distro |-> d, from |-> AfterContact(v),
                            out |-> out \o PrintDockerContact(AfterContact(v), slow),
                            waits |-> FALSE, late |-> (slow # {})]
          PROVE  SecondIsTrue("docker", Entry(None, ReadDocker(end), probing.from, end))
      <3> DEFINE now == AfterContact(v)
                 all == out \o PrintDockerContact(now, slow)
                 some == slow # {}
      <3>1. probing = [distro |-> d, from |-> now, out |-> all, waits |-> FALSE, late |-> some]
        BY <2>3
      <3> HIDE DEF all, now, some
      <3>2. probing.out = all /\ probing.from = now /\ end = Ended(r, some)
        BY <3>1
      <3>3. r \in Outcomes(all)
        BY <1>2, <3>2
      <3> HIDE DEF end
      <3>4. SecondIsTrue("docker", Entry(None, ReadDocker(Ended(r, some)), now, Ended(r, some)))
        BY <2>3, <3>3 DEF AnswersAreTrue, DockerIsTrue, all, now, some
      <3> QED
        BY <3>2, <3>4
    <2> QED
      BY <2>1, <2>2, <2>3
  <1>4. CacheInv' /\ SaysNothingFalse'
    BY <1>1, <1>2, <1>3, DockerTold
  <1>5. SampleInv'
    BY <1>1 DEF SampleInv
  <1> QED
    BY <1>4, <1>5

-----------------------------------------------------------------------------
(* Collectors: the theorems *)

\* A change makes a sample older, never another distro's; what is cached stays.
LEMMA Changed ==
  ASSUME WorldInv, CacheInv, SampleInv, NEW d \in DOMAIN world, Alter(d)
  PROVE  CacheInv' /\ SampleInv' /\ SaysNothingFalse'
  <1>1. PICK w \in Worlds(subject) :
          /\ Follows(subject, world[d], w)
          /\ world' = [world EXCEPT ![d] = w]
    BY DEF Alter
  <1>2. /\ subject' = subject /\ sample' = sample /\ cache' = cache /\ shown' = None
        /\ d \in Places[subject] /\ DOMAIN world = Places[subject]
        /\ world[d] \in Worlds(subject)
    BY DEF Alter, WorldInv
  <1>3. CacheInv' /\ SaysNothingFalse'
    BY <1>2 DEF CacheInv, SaysNothingFalse
  <1>4. ASSUME NEW b \in ResourceWorlds, subject = "resources", NotAfter(b, world[d])
        PROVE  NotAfter(b, w)
    <2>1. world[d] \in ResourceWorlds /\ w \in ResourceWorlds
      BY <1>1, <1>2, <1>4 DEF Worlds
    <2>2. w.boot = world[d].boot + 1 \/ Runs(world[d], w)
      BY <1>1, <1>4 DEF Follows
    <2> QED
      BY <1>4, <2>1, <2>2 DEF NotAfter, Runs, ResourceWorlds
  <1>5. ASSUME NEW e \in Places[subject], NEW b \in ResourceWorlds, subject = "resources",
               NotAfter(b, world[e])
        PROVE  NotAfter(b, world'[e])
    BY <1>1, <1>2, <1>4, <1>5
  <1>6. SampleInv'
    BY <1>2, <1>5 DEF SampleInv
  <1> QED
    BY <1>3, <1>6

\* Time makes an answer older, never another.
LEMMA Aged ==
  ASSUME CacheInv, SampleInv, Tick
  PROVE  CacheInv' /\ SampleInv' /\ SaysNothingFalse'
  <1>1. /\ subject' = subject /\ sample' = sample /\ world' = world /\ shown' = None
        /\ cache' = [k \in DOMAIN cache |->
                       IF cache[k] = None \/ cache[k].age >= Ttl THEN cache[k]
                       ELSE [cache[k] EXCEPT !.age = @ + 1]]
    BY DEF Tick
  <1>2. ASSUME NEW d \in Places[subject]
        PROVE  cache'[d] = None \/ IsEntry(subject, d, cache'[d])
    <2>1. cache[d] = None \/ IsEntry(subject, d, cache[d])
      BY DEF CacheInv
    <2>2. \/ cache'[d] = cache[d]
          \/ cache[d] # None /\ cache'[d] = [cache[d] EXCEPT !.age = @ + 1]
      BY <1>1 DEF CacheInv
    <2> QED
      BY <2>1, <2>2, TruthOfAged
  <1>3. CacheInv'
    BY <1>1, <1>2 DEF CacheInv
  <1>4. SampleInv' /\ SaysNothingFalse'
    BY <1>1 DEF SampleInv, SaysNothingFalse
  <1> QED
    BY <1>3, <1>4

\* At the start nothing is kept, shown or asked.
LEMMA CollectStart ==
  ASSUME CollectInit
  PROVE  WorldInv /\ CacheInv /\ SampleInv /\ ProbingInv /\ SaysNothingFalse
  <1>1. subject \in Subjects /\ steps = 0 /\ probing = None /\ shown = None
    BY DEF CollectInit
  <1>2. cache = [p \in Places[subject] |-> None] /\ sample = [p \in Places[subject] |-> None]
    BY DEF CollectInit
  <1>3. DOMAIN world = Places[subject] /\ \A d \in Places[subject] : world[d] \in Worlds(subject)
    <2> DEFINE first == CHOOSE p \in Places[subject] : TRUE
               rest == CHOOSE w \in Worlds(subject) : TRUE
    <2>1. PICK w \in Worlds(subject) :
            world = [p \in Places[subject] |-> IF p = first THEN w ELSE rest]
      BY DEF CollectInit
    <2>2. rest \in Worlds(subject)
      OBVIOUS
    <2> HIDE DEF first, rest
    <2> QED
      BY <2>1, <2>2
  <1> QED
    BY <1>1, <1>2, <1>3 DEF WorldInv, CacheInv, SampleInv, ProbingInv, SaysNothingFalse

\* Every step of a collector whose parsers tell the truth keeps what it holds true.
LEMMA CollectStep ==
  ASSUME AnswersAreTrue, CollectInv, [CollectNext]_collectVars
  PROVE  CollectInv'
  <1>1. WorldInv' /\ ProbingInv'
    BY ScriptKept DEF CollectInv
  <1>2. CacheInv' /\ SampleInv' /\ SaysNothingFalse'
    <2>1. ASSUME NEW d \in DOMAIN world, Ask(d) \/ AskDocker(d) \/ Alter(d)
          PROVE  CacheInv' /\ SampleInv' /\ SaysNothingFalse'
      BY <2>1, Asked, DockerAsked, Changed DEF CollectInv
    <2>2. CASE DockerContact
      <3>1. /\ subject = "docker" /\ subject' = subject
            /\ cache' = cache /\ sample' = sample /\ shown' = shown
        BY <2>2 DEF DockerContact, CollectInv, ProbingInv
      <3> QED
        BY <3>1 DEF CollectInv, CacheInv, SampleInv, SaysNothingFalse
    <2>3. CASE DockerEnd \/ Tick
      BY <2>3, DockerEnds, Aged DEF CollectInv
    <2>4. CASE UNCHANGED collectVars
      BY <2>4 DEF collectVars, CollectInv, CacheInv, SampleInv, SaysNothingFalse
    <2> QED
      BY <2>1, <2>2, <2>3, <2>4 DEF CollectNext
  <1> QED
    BY <1>1, <1>2 DEF CollectInv

\* Whatever is asked, however its runs end, and whatever changes between two questions
\* or between the halves of docker's script, no collector says what is false: given
\* parsers that are right about a single run (AnswersAreTrue), the caches, the samples
\* and the script keep them right.
THEOREM CollectorsSayNothingFalse ==
  AnswersAreTrue /\ CollectSpec => []SaysNothingFalse
  <1>1. AnswersAreTrue /\ CollectInit => AnswersAreTrue /\ CollectInv
    BY CollectStart DEF CollectInv
  <1>2. AnswersAreTrue /\ CollectInv /\ [CollectNext]_collectVars
          => (AnswersAreTrue /\ CollectInv)'
    BY CollectStep
  <1>3. AnswersAreTrue /\ CollectInv => SaysNothingFalse
    BY DEF CollectInv
  <1> QED
    BY <1>1, <1>2, <1>3, PTL DEF CollectSpec

\* Whatever changes between the halves of the script, it starts a stopped daemon only
\* where it saw one running, or Docker Desktop's mount, at first, and reaches a remote
\* engine only where it saw a local endpoint, or could not read it.
THEOREM PollingStartsNothing == CollectSpec => PollingLeavesEnginesAlone
  <1> DEFINE Leaves == \A d \in DOMAIN world :
               (/\ subject = "docker" /\ probing # None /\ probing' # None
                /\ probing.distro = d /\ probing.waits /\ ~probing'.waits) =>
                 /\ world[d].daemon = "activatable" /\ world'[d].daemon = "up" =>
                      probing.from.daemon = "up" \/ probing.from.desktop
                 /\ Engine(world[d]) = "remote" =>
                      ~probing.from.remote \/ ~probing.from.inspects
  <1>1. CollectInit => WorldInv /\ ProbingInv
    BY CollectStart
  <1>2. WorldInv /\ ProbingInv /\ [CollectNext]_collectVars => WorldInv' /\ ProbingInv'
    BY ScriptKept
  <1>3. WorldInv /\ ProbingInv /\ [CollectNext]_collectVars => [Leaves]_collectVars
    <2> SUFFICES ASSUME WorldInv, ProbingInv, [CollectNext]_collectVars,
                        subject = "docker", probing # None, probing' # None,
                        probing.waits, ~probing'.waits
                 PROVE  /\ probing.from.daemon = "up" \/ probing.from.desktop
                        /\ ~probing.from.remote \/ ~probing.from.inspects
      OBVIOUS
    <2>1. CASE DockerContact
      BY <2>1, Contacting
    <2>2. probing' # probing
      OBVIOUS
    <2>3. ~\E e \in DOMAIN world : Ask(e) \/ AskDocker(e) \/ Alter(e)
      BY <2>2 DEF Ask, AskDocker, Alter
    <2>4. ~Tick /\ ~DockerEnd /\ ~UNCHANGED collectVars
      BY <2>2 DEF Tick, DockerEnd, collectVars
    <2> QED
      BY <2>1, <2>3, <2>4 DEF CollectNext
  <1> QED
    BY <1>1, <1>2, <1>3, PTL DEF CollectSpec, PollingLeavesEnginesAlone
===========================================================================
