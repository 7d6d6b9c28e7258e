---------------------------- MODULE VerdictProofs ----------------------------
(***************************************************************************)
(* Proofs that what the app says of a port, of a forwarding rule, of a     *)
(* setting and of the environment is true of what it was read from.        *)
(*                                                                         *)
(* For PortReach: what is on screen is what the caches hold, a reading     *)
(* that is not behind is the world's or missing, and a verdict that is not *)
(* behind was made from the readings on screen.  What the verdict says of  *)
(* such readings is then a matter of cases.                                *)
(*                                                                         *)
(* For WslSettings: a text that differs from the one that runs was saved   *)
(* after the start, and as long as nothing is saved or restarted what the  *)
(* collector holds is what the files, the clock and the VM would tell now. *)
(*                                                                         *)
(* For PublishedSnapshot: what has been read is what the answers say, a    *)
(* section nobody answered for being as it was at the selection, and the   *)
(* remembered failures are the queries that failed last.  The rest is how  *)
(* the reports, the contexts and the tools read such a snapshot.           *)
(***************************************************************************)
EXTENDS PortReach, WslSettings, PublishedSnapshot, WellFoundedInduction, FiniteSetTheorems,
        TLAPS

-----------------------------------------------------------------------------
(* PortReach: types *)

Modes == {"nat", "mirrored"}
Rules == Addresses \union {Nil, "local"}
Reaches == Audiences \union {"unknown", Nil}
Booleans == BOOLEAN \union {Nil}
FirewallViews == [enabled : Booleans, inbound : {"Block", "Allow", Nil}, loopback : Booleans]
RuleReads == [rule : Rules, error : BOOLEAN]
CacheOf(values) == [has : BOOLEAN, fresh : BOOLEAN, value : values]
Sections ==
  [sock : BindScopes, table : Booleans, fw : FirewallViews, mode : Modes \union {Nil},
   ip : Addresses \union {Nil}, reach : Reaches, rule : Rules,
   verdict : Rulings \union {Nil}, error : BOOLEAN]
MediumType == [out : SUBSET (offers \intersect {"fw", "rules"}), ip : Addresses \union {Nil}]

CachesOK ==
  /\ caches = [c \in Caches |-> caches[c]]
  /\ caches["table"] \in CacheOf(Booleans)
  /\ caches["fw"] \in CacheOf(FirewallViews \union {Nil})
  /\ caches["rules"] \in CacheOf(RuleReads)

ReachTypeOK ==
  /\ world \in Networks /\ offers \subseteq Caches /\ CachesOK
  /\ fast = Nil \/ fast \subseteq {"sock"} \union (offers \intersect {"table"})
  /\ medium = Nil \/ medium \in MediumType
  /\ shown \in Sections

-----------------------------------------------------------------------------
(* PortReach: the invariant *)

\* What the caches serve is what is on screen.
CachesInv ==
  /\ shown.table = caches["table"].value
  /\ caches["fw"].has => shown.fw = caches["fw"].value
  /\ shown.rule = caches["rules"].value.rule
  /\ "table" \notin offers => shown.table = Nil
  /\ "fw" \notin offers => shown.fw = UnknownFirewall

\* A firewall as it was read: every field is right or missing.
ReadOf(fw, w) ==
  /\ fw.enabled \in {w.fw.on, Nil}
  /\ fw.inbound \in {IF w.fw.blocks THEN "Block" ELSE "Allow", Nil}
  /\ fw.loopback \in {w.fw.exempts, Nil}

\* A reading that is not behind is right or missing.
ReadInv ==
  /\ "sock" \notin behind => shown.sock = world.sock
  /\ "table" \notin behind => shown.table \in {NetstatRow(world), Nil}
  /\ "fw" \notin behind => ReadOf(shown.fw, world)
  /\ "mode" \notin behind => shown.mode \in {world.mode, Nil}
  /\ "ip" \notin behind => shown.ip \in {world.ip, Nil}
  /\ "rules" \in offers /\ "rules" \notin behind => shown.rule = world.rule

\* A verdict that is not behind was made from what is on screen; a refresh under way
\* with another address than the one on screen makes none that is.
JudgedInv ==
  /\ "reach" \notin behind => shown.reach = Judged(shown)
  /\ "rules" \in offers /\ "verdict" \notin behind => shown.verdict = JudgeRule(shown.rule, shown.ip)
  /\ medium # Nil /\ "rules" \in offers /\ "rules" \in medium.out /\ medium.ip # shown.ip =>
       "verdict" \in behind

ReachInv == ReachTypeOK /\ CachesInv /\ ReadInv /\ JudgedInv

-----------------------------------------------------------------------------
(* PortReach: what is true of the verdicts themselves *)

\* A section that may be judged has a verdict of a known kind.
LEMMA JudgedType ==
  ASSUME NEW s \in Sections
  PROVE  Judged(s) \in Reaches
<1>1. \A scope \in BindScopes, fw \in FirewallViews : MirroredVerdict(scope, fw) \in Reaches
  BY DEF MirroredVerdict, Reaches, Audiences
<1>2. \A scope \in BindScopes, bound \in Booleans \union {Nil}, fw \in FirewallViews :
        NatVerdict(scope, bound, fw) \in Reaches
  BY DEF NatVerdict, Reaches, Audiences
<1>3. Correlate(s.sock, s.table) \in Booleans \union {Nil}
  BY DEF Correlate, Sections
<1>4. s.sock \in BindScopes /\ s.fw \in FirewallViews
  BY DEF Sections
<1> QED BY <1>1, <1>2, <1>3, <1>4 DEF Judged, ClassifyReachability, Reaches

\* A rule that was read has a verdict of a known kind.
LEMMA RulingType ==
  ASSUME NEW rule \in Rules, NEW ip \in Addresses \union {Nil}
  PROVE  JudgeRule(rule, ip) \in Rulings \union {Nil}
BY DEF JudgeRule, Rulings

\* Any verdict but the last one is judged from the same readings.
LEMMA JudgedAlike ==
  ASSUME NEW s, NEW u, s.sock = u.sock, s.table = u.table, s.mode = u.mode, s.fw = u.fw
  PROVE  Judged(s) = Judged(u)
BY DEF Judged

-----------------------------------------------------------------------------
(* PortReach: the steps *)

\* A change of the world leaves everything that is read behind.
LEMMA BecomeOK ==
  ASSUME ReachInv, NEW w \in Networks, Become(w)
  PROVE  ReachInv'
<1>1. UNCHANGED <<offers, caches, fast, medium, shown>> /\ world' = w /\ behind' = Owed
  BY DEF Become
<1>2. ReachTypeOK'
  BY <1>1 DEF ReachInv, ReachTypeOK, CachesOK, MediumType
<1>3. CachesInv'
  BY <1>1 DEF ReachInv, CachesInv
<1>4. ReadInv'
  <2>1. "table" \notin offers => shown.table = Nil
    BY DEF ReachInv, CachesInv
  <2>2. "fw" \notin offers => ReadOf(shown.fw, w)
    BY DEF ReachInv, CachesInv, UnknownFirewall, ReadOf
  <2> QED BY <1>1, <2>1, <2>2 DEF ReadInv, Owed
<1>5. JudgedInv'
  BY <1>1 DEF ReachInv, JudgedInv, Owed
<1> QED BY <1>2, <1>3, <1>4, <1>5 DEF ReachInv

\* Every change there is leads to a possible world.
LEMMA WorldOK ==
  ASSUME ReachInv, World
  PROVE  ReachInv'
<1>1. world \in Networks
  BY DEF ReachInv, ReachTypeOK
<1>2. CASE Listen
  <2>1. PICK s \in BindScopes, r \in Relays : Become([world EXCEPT !.sock = s, !.relay = r])
    BY <1>2 DEF Listen
  <2>2. [world EXCEPT !.sock = s, !.relay = r] \in Networks
    BY <1>1 DEF Networks
  <2> QED BY <2>1, <2>2, BecomeOK
<1>3. CASE Restart
  <2>1. PICK m \in {"nat", "mirrored"}, a \in Addresses \ {world.ip} :
          Become([world EXCEPT !.sock = "none", !.relay = "none", !.mode = m, !.ip = a])
    BY <1>3 DEF Restart
  <2>2. [world EXCEPT !.sock = "none", !.relay = "none", !.mode = m, !.ip = a] \in Networks
    BY <1>1 DEF Networks, BindScopes, Relays
  <2> QED BY <2>1, <2>2, BecomeOK
<1>4. CASE EditFirewall
  <2>1. PICK s \in {"on", "blocks", "exempts"} : Become([world EXCEPT !.fw[s] = ~@])
    BY <1>4 DEF EditFirewall
  <2>2. [world EXCEPT !.fw[s] = ~@] \in Networks
    <3>1. world.fw \in [on : BOOLEAN, blocks : BOOLEAN, exempts : BOOLEAN]
      BY <1>1 DEF Networks
    <3>2. [world.fw EXCEPT ![s] = ~@] \in [on : BOOLEAN, blocks : BOOLEAN, exempts : BOOLEAN]
      BY <3>1
    <3>3. [world EXCEPT !.fw[s] = ~@] = [world EXCEPT !.fw = [world.fw EXCEPT ![s] = ~@]]
      BY <1>1 DEF Networks
    <3> QED BY <1>1, <3>2, <3>3 DEF Networks
  <2> QED BY <2>1, <2>2, BecomeOK
<1>5. CASE EditRule
  <2>1. PICK r \in Addresses \union {Nil, "local"} : Become([world EXCEPT !.rule = r])
    BY <1>5 DEF EditRule
  <2>2. [world EXCEPT !.rule = r] \in Networks
    BY <1>1 DEF Networks
  <2> QED BY <2>1, <2>2, BecomeOK
<1>6. CASE OtherProgram
  <2>1. Become([world EXCEPT !.other = ~@])
    BY <1>6 DEF OtherProgram
  <2>2. [world EXCEPT !.other = ~@] \in Networks
    BY <1>1 DEF Networks
  <2> QED BY <2>1, <2>2, BecomeOK
<1> QED BY <1>2, <1>3, <1>4, <1>5, <1>6 DEF World

\* A cache that runs out still holds what is on screen.
LEMMA ExpireOK ==
  ASSUME ReachInv, NEW c \in Caches, Expire(c)
  PROVE  ReachInv'
<1>1. UNCHANGED <<world, offers, fast, medium, shown, behind>>
  BY DEF Expire
<1>2. /\ caches' = [d \in Caches |-> caches'[d]]
      /\ \A d \in Caches : caches'[d] = IF d = c THEN [caches[c] EXCEPT !.fresh = FALSE] ELSE caches[d]
  BY DEF Expire, ReachInv, ReachTypeOK, CachesOK
<1>3. "table" \in Caches /\ "fw" \in Caches /\ "rules" \in Caches
  BY DEF Caches
<1>4. ASSUME NEW values, NEW d \in Caches, caches[d] \in CacheOf(values)
      PROVE  /\ caches'[d] \in CacheOf(values)
             /\ caches'[d].value = caches[d].value /\ caches'[d].has = caches[d].has
  BY <1>2, <1>4 DEF CacheOf
<1>5. CachesOK'
  BY <1>2, <1>3, <1>4 DEF ReachInv, ReachTypeOK, CachesOK
<1>6. ReachTypeOK'
  BY <1>1, <1>5 DEF ReachInv, ReachTypeOK, MediumType
<1>7. CachesInv'
  BY <1>1, <1>3, <1>4 DEF ReachInv, ReachTypeOK, CachesOK, CachesInv
<1>8. ReadInv' /\ JudgedInv'
  BY <1>1 DEF ReachInv, ReadInv, JudgedInv
<1> QED BY <1>6, <1>7, <1>8 DEF ReachInv

\* A fast read that lands leaves a verdict that is not behind true to the readings.
LEMMA LandedOK ==
  ASSUME ReachTypeOK, fast # Nil, NEW name \in {"sock", "table"}, NEW s \in Sections, NEW late,
         Landed(name, s, late), "reach" \notin late => s.reach = Judged(s)
  PROVE  /\ fast' = Nil \/ fast' \subseteq {"sock"} \union (offers \intersect {"table"})
         /\ shown' \in Sections
         /\ shown'.sock = s.sock /\ shown'.table = s.table /\ shown'.fw = s.fw
         /\ shown'.mode = s.mode /\ shown'.ip = s.ip /\ shown'.rule = s.rule
         /\ shown'.verdict = s.verdict
         /\ "reach" \notin behind' => shown'.reach = Judged(shown')
         /\ \A n : n # "reach" => (n \in behind' <=> n \in late)
<1>1. CASE fast = {name}
  <2>1. fast' = Nil /\ shown' = [s EXCEPT !.reach = Judged(s)] /\ behind' = late \ {"reach"}
    BY <1>1 DEF Landed
  <2>2. Judged(s) \in Reaches
    BY JudgedType
  <2>3. shown' \in Sections /\ shown'.reach = Judged(s)
        /\ shown'.sock = s.sock /\ shown'.table = s.table /\ shown'.fw = s.fw
        /\ shown'.mode = s.mode /\ shown'.ip = s.ip /\ shown'.rule = s.rule
        /\ shown'.verdict = s.verdict
    BY <2>1, <2>2 DEF Sections
  <2>4. Judged(shown') = Judged(s)
    BY <2>3, JudgedAlike
  <2> QED BY <2>1, <2>3, <2>4
<1>2. CASE fast # {name}
  <2>1. fast' = fast \ {name} /\ shown' = s /\ behind' = late
    BY <1>2 DEF Landed
  <2> QED BY <2>1 DEF ReachTypeOK
<1> QED BY <1>1, <1>2

\* What a cache serves to the fast tier is on screen already.
LEMMA FastStartOK ==
  ASSUME ReachInv, FastStart
  PROVE  ReachInv'
<1>1. UNCHANGED <<world, offers, caches, medium, behind>>
      /\ fast' \subseteq {"sock"} \union (offers \intersect {"table"})
  BY DEF FastStart
<1>2. shown' = shown
  BY DEF FastStart, ReachInv, ReachTypeOK, CachesInv, Sections
<1>3. ReachTypeOK'
  BY <1>1, <1>2 DEF ReachInv, ReachTypeOK, CachesOK, MediumType
<1> QED BY <1>1, <1>2, <1>3 DEF ReachInv, CachesInv, ReadInv, JudgedInv

\* A table that was read is on screen and in the cache; one that was not changes nothing.
LEMMA TableReadOK ==
  ASSUME ReachInv, TableRead
  PROVE  ReachInv'
<1> DEFINE row == NetstatRow(world)
           s == [shown EXCEPT !.table = row]
           late == Renewed({"table"}, {"reach"}, shown.table # row)
<1>1. UNCHANGED <<world, offers, medium>> /\ fast # Nil /\ "table" \in fast
      /\ ReachTypeOK /\ "table" \in offers
  BY DEF TableRead, ReachInv, ReachTypeOK
<1>2. row \in BOOLEAN
  BY <1>1 DEF NetstatRow, ReachTypeOK, Networks
<1>3. CASE Landed("table", s, late) /\ caches' = Keep("table", row)
  <2>1. s \in Sections /\ s.table = row /\ s.sock = shown.sock /\ s.fw = shown.fw
        /\ s.mode = shown.mode /\ s.ip = shown.ip /\ s.rule = shown.rule
        /\ s.verdict = shown.verdict /\ s.reach = shown.reach
    BY <1>1, <1>2 DEF ReachTypeOK, Sections, Booleans
  <2>2. \A n : n \in late <=> (n \in behind /\ n # "table") \/ (n = "reach" /\ shown.table # row)
    BY DEF Renewed, Owed
  <2>3. "reach" \notin late => s.reach = Judged(s)
    <3>1. SUFFICES ASSUME "reach" \notin late PROVE s.reach = Judged(s)
      OBVIOUS
    <3>2. shown.reach = Judged(shown) /\ shown.table = row
      BY <2>2, <3>1 DEF ReachInv, JudgedInv
    <3>3. Judged(s) = Judged(shown)
      BY <2>1, <3>2, JudgedAlike
    <3> QED BY <2>1, <3>2, <3>3
  <2>4. /\ fast' = Nil \/ fast' \subseteq {"sock"} \union (offers \intersect {"table"})
        /\ shown' \in Sections
        /\ shown'.sock = s.sock /\ shown'.table = s.table /\ shown'.fw = s.fw
        /\ shown'.mode = s.mode /\ shown'.ip = s.ip /\ shown'.rule = s.rule
        /\ shown'.verdict = s.verdict
        /\ "reach" \notin behind' => shown'.reach = Judged(shown')
        /\ \A n : n # "reach" => (n \in behind' <=> n \in late)
    <3> HIDE DEF s, late
    <3> QED BY <1>1, <1>3, <2>1, <2>3, LandedOK
  <2> HIDE DEF s, late
  <2>5. CachesOK' /\ caches'["table"].value = row /\ caches'["fw"] = caches["fw"]
        /\ caches'["rules"] = caches["rules"]
    <3> HIDE DEF row
    <3> QED BY <1>1, <1>2, <1>3 DEF Keep, ReachTypeOK, CachesOK, CacheOf, Caches, Booleans
  <2>6. ReachTypeOK'
    BY <1>1, <2>4, <2>5 DEF ReachTypeOK, MediumType
  <2>7. CachesInv'
    BY <1>1, <2>1, <2>4, <2>5 DEF ReachInv, CachesInv
  <2>8. ReadInv'
    BY <1>1, <2>1, <2>2, <2>4 DEF ReachInv, ReadInv
  <2>9. JudgedInv'
    BY <1>1, <2>1, <2>2, <2>4 DEF ReachInv, JudgedInv
  <2> QED BY <2>6, <2>7, <2>8, <2>9 DEF ReachInv
<1>4. CASE Landed("table", shown, behind) /\ caches' = caches
  <2>1. /\ fast' = Nil \/ fast' \subseteq {"sock"} \union (offers \intersect {"table"})
        /\ shown' \in Sections
        /\ shown'.sock = shown.sock /\ shown'.table = shown.table /\ shown'.fw = shown.fw
        /\ shown'.mode = shown.mode /\ shown'.ip = shown.ip /\ shown'.rule = shown.rule
        /\ shown'.verdict = shown.verdict
        /\ "reach" \notin behind' => shown'.reach = Judged(shown')
        /\ \A n : n # "reach" => (n \in behind' <=> n \in behind)
    <3>1. shown \in Sections /\ ("reach" \notin behind => shown.reach = Judged(shown))
      BY DEF ReachInv, ReachTypeOK, JudgedInv
    <3> QED BY <1>1, <1>4, <3>1, LandedOK
  <2>2. ReachTypeOK'
    BY <1>1, <1>4, <2>1 DEF ReachTypeOK, CachesOK, MediumType
  <2>3. CachesInv' /\ ReadInv' /\ JudgedInv'
    BY <1>1, <1>4, <2>1 DEF ReachInv, CachesInv, ReadInv, JudgedInv
  <2> QED BY <2>2, <2>3 DEF ReachInv
<1> QED BY <1>3, <1>4 DEF TableRead

\* Sockets that were read are the distro's; a list that failed is behind at once.
LEMMA PortsReadOK ==
  ASSUME ReachInv, PortsRead
  PROVE  ReachInv'
<1>1. UNCHANGED <<world, offers, caches, medium>> /\ fast # Nil /\ ReachTypeOK
  BY DEF PortsRead, ReachInv
<1>2. SUFFICES ASSUME NEW sock \in BindScopes, NEW late,
                      Landed("sock", [shown EXCEPT !.sock = sock], late),
                      "sock" \notin late => sock = world.sock,
                      "reach" \notin late => "reach" \notin behind /\ sock = shown.sock,
                      \A n : n \notin {"sock", "reach"} => (n \in late <=> n \in behind)
               PROVE  ReachInv'
  <2>1. "none" \in BindScopes /\ world.sock \in BindScopes
    BY <1>1 DEF BindScopes, ReachTypeOK, Networks
  <2>2. CASE Landed("sock", [shown EXCEPT !.sock = world.sock],
                    Renewed({"sock"}, {"reach"}, shown.sock # world.sock))
    BY <1>2, <2>1, <2>2 DEF Renewed, Owed
  <2>3. CASE Landed("sock", [shown EXCEPT !.sock = "none"], behind \union {"sock", "reach"})
    BY <1>2, <2>1, <2>3
  <2> QED BY <2>2, <2>3 DEF PortsRead
<1> DEFINE s == [shown EXCEPT !.sock = sock]
<1>3. s \in Sections /\ s.sock = sock /\ s.table = shown.table /\ s.fw = shown.fw
      /\ s.mode = shown.mode /\ s.ip = shown.ip /\ s.rule = shown.rule
      /\ s.verdict = shown.verdict /\ s.reach = shown.reach
  BY <1>1 DEF ReachTypeOK, Sections
<1>4. "reach" \notin late => s.reach = Judged(s)
  <2>1. SUFFICES ASSUME "reach" \notin late PROVE s.reach = Judged(s)
    OBVIOUS
  <2>2. shown.reach = Judged(shown) /\ sock = shown.sock
    BY <1>2, <2>1 DEF ReachInv, JudgedInv
  <2>3. Judged(s) = Judged(shown)
    BY <1>3, <2>2, JudgedAlike
  <2> QED BY <1>3, <2>2, <2>3
<1>5. Landed("sock", s, late)
  BY <1>2
<1> HIDE DEF s
<1>6. /\ fast' = Nil \/ fast' \subseteq {"sock"} \union (offers \intersect {"table"})
      /\ shown' \in Sections
      /\ shown'.sock = s.sock /\ shown'.table = s.table /\ shown'.fw = s.fw
      /\ shown'.mode = s.mode /\ shown'.ip = s.ip /\ shown'.rule = s.rule
      /\ shown'.verdict = s.verdict
      /\ "reach" \notin behind' => shown'.reach = Judged(shown')
      /\ \A n : n # "reach" => (n \in behind' <=> n \in late)
  BY <1>1, <1>3, <1>4, <1>5, LandedOK
<1>7. ReachTypeOK'
  BY <1>1, <1>6 DEF ReachTypeOK, CachesOK, MediumType
<1>8. CachesInv'
  BY <1>1, <1>3, <1>6 DEF ReachInv, CachesInv
<1>9. ReadInv'
  BY <1>1, <1>2, <1>3, <1>6 DEF ReachInv, ReadInv
<1>10. JudgedInv'
  BY <1>1, <1>2, <1>3, <1>6 DEF ReachInv, JudgedInv
<1> QED BY <1>7, <1>8, <1>9, <1>10 DEF ReachInv

\* A medium refresh starts with the address on screen.
LEMMA MediumStartOK ==
  ASSUME ReachInv, MediumStart
  PROVE  ReachInv'
<1>1. UNCHANGED <<world, offers, caches, fast, shown, behind>>
      /\ medium' = [out |-> offers \intersect {"fw", "rules"}, ip |-> shown.ip]
  BY DEF MediumStart
<1>2. shown.ip \in Addresses \union {Nil}
  BY DEF ReachInv, ReachTypeOK, Sections
<1>3. ReachTypeOK'
  BY <1>1, <1>2 DEF ReachInv, ReachTypeOK, CachesOK, MediumType
<1> QED BY <1>1, <1>3 DEF ReachInv, CachesInv, ReadInv, JudgedInv

\* A medium read that is over leaves the others and the address.
LEMMA DoneOK ==
  ASSUME ReachTypeOK, medium # Nil, NEW name
  PROVE  /\ Done(name) = Nil \/ Done(name) \in MediumType
         /\ Done(name) # Nil => Done(name).out = medium.out \ {name} /\ Done(name).ip = medium.ip
BY DEF Done, ReachTypeOK, MediumType

\* What a read of the firewall carries is right or missing.
LEMMA FirewallReadOK ==
  ASSUME world \in Networks, NEW fields
  PROVE  FirewallRead(fields) \in FirewallViews /\ ReadOf(FirewallRead(fields), world)
<1>1. world.fw.on \in BOOLEAN /\ world.fw.blocks \in BOOLEAN /\ world.fw.exempts \in BOOLEAN
  BY DEF Networks
<1>2. FirewallRead(fields).enabled \in {world.fw.on, Nil}
  BY DEF FirewallRead
<1>3. FirewallRead(fields).loopback \in {world.fw.exempts, Nil}
  BY DEF FirewallRead
<1>4. FirewallRead(fields).inbound \in {IF world.fw.blocks THEN "Block" ELSE "Allow", Nil}
  BY DEF FirewallRead
<1>5. FirewallRead(fields) \in FirewallViews
  BY <1>1 DEF FirewallRead, FirewallViews, Booleans
<1> QED BY <1>2, <1>3, <1>4, <1>5 DEF ReadOf

\* An answer about the firewall is served from the cache, as on screen, or read anew.
LEMMA FirewallAnswerOK ==
  ASSUME ReachInv, FirewallAnswer
  PROVE  ReachInv'
<1>1. UNCHANGED <<world, offers, fast>> /\ medium # Nil /\ medium' = Done("fw")
      /\ ReachTypeOK /\ "fw" \in offers
  BY DEF FirewallAnswer, ReachInv, ReachTypeOK, MediumType
<1>2. medium' = Nil \/ (medium' \in MediumType /\ medium'.out = medium.out \ {"fw"} /\ medium'.ip = medium.ip)
  BY <1>1, DoneOK
<1>3. CASE Serves("fw") /\ shown' = [shown EXCEPT !.fw = caches["fw"].value]
           /\ UNCHANGED <<caches, behind>>
  <2>1. shown' = shown
    BY <1>1, <1>3 DEF ReachInv, CachesInv, Serves, ReachTypeOK, Sections
  <2>2. ReachTypeOK'
    BY <1>1, <1>2, <1>3, <2>1 DEF ReachTypeOK, CachesOK, MediumType
  <2> QED BY <1>1, <1>2, <1>3, <2>1, <2>2 DEF ReachInv, CachesInv, ReadInv, JudgedInv
<1>4. ASSUME NEW fields, caches' = Keep("fw", FirewallRead(fields)),
             shown' = [shown EXCEPT !.fw = FirewallRead(fields)],
             behind' = Renewed({"fw"}, {"reach"}, shown.fw # FirewallRead(fields))
      PROVE  ReachInv'
  <2> DEFINE read == FirewallRead(fields)
  <2>1. read \in FirewallViews /\ ReadOf(read, world)
    BY <1>1, FirewallReadOK DEF ReachTypeOK
  <2>2. \A n : n \in behind' <=> (n \in behind /\ n # "fw") \/ (n = "reach" /\ shown.fw # read)
    BY <1>4 DEF Renewed, Owed
  <2> HIDE DEF read
  <2>3. shown' \in Sections /\ shown'.fw = read /\ shown'.sock = shown.sock
        /\ shown'.table = shown.table /\ shown'.mode = shown.mode /\ shown'.ip = shown.ip
        /\ shown'.rule = shown.rule /\ shown'.verdict = shown.verdict /\ shown'.reach = shown.reach
    BY <1>1, <1>4, <2>1 DEF ReachTypeOK, Sections, read
  <2>4. CachesOK' /\ caches'["fw"].value = read /\ caches'["table"] = caches["table"]
        /\ caches'["rules"] = caches["rules"]
    <3>1. caches' = Keep("fw", read)
      BY <1>4 DEF read
    <3> QED BY <1>1, <2>1, <3>1 DEF Keep, ReachTypeOK, CachesOK, CacheOf, Caches
  <2>5. ReachTypeOK'
    BY <1>1, <1>2, <2>3, <2>4 DEF ReachTypeOK, MediumType
  <2>6. CachesInv'
    BY <1>1, <2>3, <2>4 DEF ReachInv, CachesInv
  <2>7. ReadInv'
    BY <1>1, <2>1, <2>2, <2>3 DEF ReachInv, ReadInv
  <2>8. JudgedInv'
    <3>1. "reach" \notin behind' => shown'.reach = Judged(shown')
      <4>1. SUFFICES ASSUME "reach" \notin behind' PROVE shown'.reach = Judged(shown')
        OBVIOUS
      <4>2. shown.reach = Judged(shown) /\ shown.fw = read
        BY <2>2, <4>1 DEF ReachInv, JudgedInv
      <4>3. Judged(shown') = Judged(shown)
        BY <2>3, <4>2, JudgedAlike
      <4> QED BY <2>3, <4>2, <4>3
    <3> QED BY <1>1, <1>2, <2>2, <2>3, <3>1 DEF ReachInv, JudgedInv
  <2> QED BY <2>5, <2>6, <2>7, <2>8 DEF ReachInv
<1> QED BY <1>3, <1>4 DEF FirewallAnswer

\* Rules are judged by the address the refresh began with, and the verdict counts as
\* renewed only when that is the one on screen.
LEMMA ProxyAnswerOK ==
  ASSUME ReachInv, ProxyAnswer
  PROVE  ReachInv'
<1> DEFINE cached == caches["rules"].value
<1>1. UNCHANGED <<world, offers, fast>> /\ medium # Nil /\ medium' = Done("rules")
      /\ ReachTypeOK /\ "rules" \in offers /\ "rules" \in medium.out
  BY DEF ProxyAnswer, ReachInv, ReachTypeOK, MediumType
<1>2. medium' = Nil \/ (medium' \in MediumType /\ "rules" \notin medium'.out)
  BY <1>1, DoneOK
<1>3. medium.ip \in Addresses \union {Nil} /\ cached \in RuleReads /\ world.rule \in Rules
  BY <1>1 DEF ReachTypeOK, MediumType, CachesOK, CacheOf, Networks, Rules
<1>4. SUFFICES ASSUME NEW read \in RuleReads,
                      shown' = [shown EXCEPT !.rule = read.rule,
                                             !.verdict = JudgeRule(read.rule, medium.ip),
                                             !.error = read.error],
                      CachesOK', caches'["rules"].value.rule = read.rule,
                      caches'["table"] = caches["table"], caches'["fw"] = caches["fw"],
                      \A n : n \notin {"rules", "verdict"} => (n \in behind' <=> n \in behind),
                      "rules" \notin behind' => read.rule = world.rule,
                      "verdict" \notin behind' => "verdict" \notin behind \/ medium.ip = shown.ip
               PROVE  ReachInv'
  <2>1. cached.rule = shown.rule
    BY DEF ReachInv, CachesInv
  <2>2. "rules" \notin behind => cached.rule = world.rule
    BY <1>1, <2>1 DEF ReachInv, ReadInv
  <2>3. ASSUME caches' = caches,
               shown' = [shown EXCEPT !.rule = cached.rule,
                                      !.verdict = JudgeRule(cached.rule, medium.ip),
                                      !.error = cached.error],
               behind' = IF "ip" \in behind \/ medium.ip # shown.ip THEN behind
                         ELSE behind \ {"verdict"}
        PROVE  ReachInv'
    <3>1. CachesOK'
      BY <1>1, <2>3 DEF ReachTypeOK, CachesOK
    <3> HIDE DEF cached
    <3>2. caches'["rules"].value.rule = cached.rule
      BY <2>3 DEF cached
    <3> QED BY <1>3, <1>4, <2>2, <2>3, <3>1, <3>2
  <2>4. ASSUME NEW rule \in Rules, NEW error \in BOOLEAN,
               caches' = Keep("rules", [rule |-> rule, error |-> error]),
               shown' = [shown EXCEPT !.rule = rule, !.verdict = JudgeRule(rule, medium.ip),
                                      !.error = error],
               \A n : n \notin {"rules", "verdict"} => (n \in behind' <=> n \in behind),
               "rules" \notin behind' => rule = world.rule,
               "verdict" \notin behind' => "verdict" \notin behind \/ medium.ip = shown.ip
        PROVE  ReachInv'
    <3> DEFINE read == [rule |-> rule, error |-> error]
    <3>1. read \in RuleReads /\ read.rule = rule /\ read.error = error
      BY <2>4 DEF RuleReads
    <3> HIDE DEF read
    <3>2. CachesOK' /\ caches'["rules"].value = read /\ caches'["table"] = caches["table"]
          /\ caches'["fw"] = caches["fw"]
      <4>1. caches' = Keep("rules", read)
        BY <2>4 DEF read
      <4> QED BY <1>1, <3>1, <4>1 DEF Keep, ReachTypeOK, CachesOK, CacheOf, Caches
    <3> QED BY <1>4, <2>4, <3>1, <3>2
  <2>5. CASE /\ caches' = Keep("rules", [rule |-> world.rule, error |-> FALSE])
             /\ shown' = [shown EXCEPT !.rule = world.rule,
                                       !.verdict = JudgeRule(world.rule, medium.ip),
                                       !.error = FALSE]
             /\ behind' = IF "ip" \in behind \/ medium.ip # shown.ip THEN behind \ {"rules"}
                          ELSE behind \ {"rules", "verdict"}
    BY <1>3, <2>4, <2>5
  <2>6. CASE /\ caches' = Keep("rules", [rule |-> RulesAfterFailure, error |-> TRUE])
             /\ shown' = [shown EXCEPT !.rule = RulesAfterFailure,
                                       !.verdict = JudgeRule(RulesAfterFailure, medium.ip),
                                       !.error = TRUE]
             /\ UNCHANGED behind
    <3>1. RulesAfterFailure = cached.rule /\ cached.rule \in Rules
      BY <1>3 DEF RulesAfterFailure, RuleReads
    <3> HIDE DEF cached
    <3> QED BY <1>3, <2>2, <2>4, <2>6, <3>1
  <2> QED BY <2>3, <2>5, <2>6 DEF ProxyAnswer
<1>5. JudgeRule(read.rule, medium.ip) \in Rulings \union {Nil} /\ read.rule \in Rules
      /\ read.error \in BOOLEAN
  BY <1>3, <1>4, RulingType DEF RuleReads
<1>6. shown' \in Sections /\ shown'.rule = read.rule
      /\ shown'.verdict = JudgeRule(read.rule, medium.ip)
      /\ shown'.sock = shown.sock /\ shown'.table = shown.table /\ shown'.fw = shown.fw
      /\ shown'.mode = shown.mode /\ shown'.ip = shown.ip /\ shown'.reach = shown.reach
  BY <1>1, <1>4, <1>5 DEF ReachTypeOK, Sections
<1>7. ReachTypeOK'
  BY <1>1, <1>2, <1>4, <1>6 DEF ReachTypeOK, MediumType
<1>8. CachesInv'
  BY <1>1, <1>4, <1>6 DEF ReachInv, CachesInv
<1>9. ReadInv'
  BY <1>1, <1>4, <1>6 DEF ReachInv, ReadInv
<1>10. JudgedInv'
  <2>1. Judged(shown') = Judged(shown)
    BY <1>6, JudgedAlike
  <2>2. "reach" \notin behind' => shown'.reach = Judged(shown')
    BY <1>4, <1>6, <2>1 DEF ReachInv, JudgedInv
  <2>3. "verdict" \notin behind' => shown'.verdict = JudgeRule(shown'.rule, shown'.ip)
    <3>1. "verdict" \notin behind => medium.ip = shown.ip
      BY <1>1 DEF ReachInv, JudgedInv
    <3> QED BY <1>4, <1>6, <3>1
  <2> QED BY <1>1, <1>2, <2>2, <2>3 DEF JudgedInv
<1> QED BY <1>7, <1>8, <1>9, <1>10 DEF ReachInv

\* The slow tier reads the mode and the address, and owes the verdicts when they change.
LEMMA SlowTickOK ==
  ASSUME ReachInv, SlowTick
  PROVE  ReachInv'
<1>1. UNCHANGED <<world, offers, caches, fast, medium>> /\ ReachTypeOK
      /\ behind' = Renewed({"mode", "ip"}, {"reach", "verdict"},
                           <<shown.mode, shown.ip>> # <<shown'.mode, shown'.ip>>)
  BY DEF SlowTick, ReachInv
<1>2. PICK mode \in {world.mode, Nil}, ip \in {world.ip, Nil} :
        shown' = [shown EXCEPT !.mode = mode, !.ip = ip]
  BY DEF SlowTick
<1>3. mode \in Modes \union {Nil} /\ ip \in Addresses \union {Nil}
  BY <1>1, <1>2 DEF ReachTypeOK, Networks, Modes
<1>4. shown' \in Sections /\ shown'.mode = mode /\ shown'.ip = ip
      /\ shown'.sock = shown.sock /\ shown'.table = shown.table /\ shown'.fw = shown.fw
      /\ shown'.rule = shown.rule /\ shown'.verdict = shown.verdict /\ shown'.reach = shown.reach
  BY <1>1, <1>2, <1>3 DEF ReachTypeOK, Sections
<1>5. /\ \A n : n \notin {"mode", "ip", "reach", "verdict"} => (n \in behind' <=> n \in behind)
      /\ "reach" \notin behind' => "reach" \notin behind /\ mode = shown.mode
      /\ "rules" \in offers /\ "verdict" \notin behind' => "verdict" \notin behind /\ ip = shown.ip
  BY <1>1, <1>4 DEF Renewed, Owed
<1>6. ReachTypeOK'
  BY <1>1, <1>4 DEF ReachTypeOK, CachesOK, MediumType
<1>7. CachesInv'
  BY <1>1, <1>4 DEF ReachInv, CachesInv
<1>8. ReadInv'
  BY <1>1, <1>2, <1>4, <1>5 DEF ReachInv, ReadInv
<1>9. JudgedInv'
  <2>1. "reach" \notin behind' => shown'.reach = Judged(shown')
    <3>1. SUFFICES ASSUME "reach" \notin behind' PROVE shown'.reach = Judged(shown')
      OBVIOUS
    <3>2. shown.reach = Judged(shown) /\ mode = shown.mode
      BY <1>5, <3>1 DEF ReachInv, JudgedInv
    <3>3. Judged(shown') = Judged(shown)
      BY <1>4, <3>2, JudgedAlike
    <3> QED BY <1>4, <3>2, <3>3
  <2>2. "rules" \in offers /\ "verdict" \notin behind' =>
          shown'.verdict = JudgeRule(shown'.rule, shown'.ip)
    BY <1>4, <1>5 DEF ReachInv, JudgedInv
  <2>3. medium # Nil /\ "rules" \in offers /\ "rules" \in medium.out /\ medium.ip # shown'.ip =>
          "verdict" \in behind'
    BY <1>4, <1>5 DEF ReachInv, JudgedInv
  <2> QED BY <1>1, <2>1, <2>2, <2>3 DEF JudgedInv
<1> QED BY <1>6, <1>7, <1>8, <1>9 DEF ReachInv

\* Nothing has been read when the app starts, and nothing is claimed.
LEMMA InitReach == ReachInit => ReachInv
<1> SUFFICES ASSUME ReachInit PROVE ReachInv
  OBVIOUS
<1>1. world \in Networks /\ offers \subseteq Caches
  BY StartsAssumption DEF ReachInit
<1>2. /\ shown = [sock |-> "none", table |-> Nil, fw |-> UnknownFirewall, mode |-> Nil,
                  ip |-> Nil, reach |-> Nil, rule |-> Nil, verdict |-> Nil, error |-> FALSE]
      /\ fast = Nil /\ medium = Nil /\ behind = Owed
  BY DEF ReachInit
<1>3. shown \in Sections
  BY <1>2 DEF Sections, BindScopes, Booleans, FirewallViews, UnknownFirewall, Reaches, Rules
<1>4. /\ caches = [c \in Caches |-> caches[c]]
      /\ caches["table"] = [has |-> FALSE, fresh |-> FALSE, value |-> Nil]
      /\ caches["fw"] = [has |-> FALSE, fresh |-> FALSE, value |-> Nil]
      /\ caches["rules"] = [has |-> FALSE, fresh |-> FALSE, value |-> [rule |-> Nil, error |-> FALSE]]
  BY DEF ReachInit, Caches
<1>5. CachesOK
  <2>1. [rule |-> Nil, error |-> FALSE] \in RuleReads
    BY DEF RuleReads, Rules
  <2>2. ASSUME NEW values, NEW v \in values
        PROVE  [has |-> FALSE, fresh |-> FALSE, value |-> v] \in CacheOf(values)
    BY DEF CacheOf
  <2>3. Nil \in Booleans /\ Nil \in FirewallViews \union {Nil}
    BY DEF Booleans
  <2>4. caches["rules"] \in CacheOf(RuleReads)
    BY <1>4, <2>1, <2>2
  <2>5. caches["table"] \in CacheOf(Booleans) /\ caches["fw"] \in CacheOf(FirewallViews \union {Nil})
    BY <1>4, <2>2, <2>3
  <2> QED BY <1>4, <2>4, <2>5 DEF CachesOK
<1>6. ReachTypeOK
  BY <1>1, <1>2, <1>3, <1>5 DEF ReachTypeOK
<1>7. CachesInv
  BY <1>2, <1>4 DEF CachesInv
<1>8. ReadInv
  <2>1. ReadOf(UnknownFirewall, world)
    BY DEF ReadOf, UnknownFirewall
  <2> QED BY <1>2, <2>1 DEF ReadInv, Owed
<1>9. JudgedInv
  BY <1>2 DEF JudgedInv, Owed
<1> QED BY <1>6, <1>7, <1>8, <1>9 DEF ReachInv

\* Every step keeps the invariant.
LEMMA NextReach == ReachInv /\ [ReachNext]_reachVars => ReachInv'
<1> SUFFICES ASSUME ReachInv, [ReachNext]_reachVars PROVE ReachInv'
  OBVIOUS
<1>1. CASE World
  BY <1>1, WorldOK
<1>2. CASE Fast
  BY <1>2, FastStartOK, TableReadOK, PortsReadOK DEF Fast
<1>3. CASE Medium
  BY <1>3, MediumStartOK, FirewallAnswerOK, ProxyAnswerOK DEF Medium
<1>4. CASE SlowTick
  BY <1>4, SlowTickOK
<1>5. ASSUME NEW c \in Caches, Expire(c) PROVE ReachInv'
  BY <1>5, ExpireOK
<1>6. CASE UNCHANGED reachVars
  BY <1>6 DEF reachVars, ReachInv, ReachTypeOK, CachesOK, MediumType, CachesInv, ReadInv, JudgedInv
<1> QED BY <1>1, <1>2, <1>3, <1>4, <1>5, <1>6 DEF ReachNext

-----------------------------------------------------------------------------
(* PortReach: the verdicts follow the packets *)

\* What the app makes of a firewall that was read is what the firewall does.
LEMMA PolicyOfRead ==
  ASSUME NEW w \in Networks, NEW fw \in FirewallViews, ReadOf(fw, w)
  PROVE  /\ InboundPolicy(fw) \in {"allowed", "blocked", "unknown"}
         /\ InboundPolicy(fw) = "allowed" => Admits(w.fw)
         /\ InboundPolicy(fw) = "blocked" => ~Admits(w.fw)
         /\ InboundPolicy(fw) = "unknown" => fw.enabled = Nil \/ fw.inbound = Nil
<1>1. w.fw.on \in BOOLEAN /\ w.fw.blocks \in BOOLEAN
  BY DEF Networks
<1>2. fw.enabled \in {TRUE, FALSE, Nil} /\ fw.inbound \in {"Block", "Allow", Nil}
  BY DEF FirewallViews, Booleans
<1>3. Nil # TRUE /\ Nil # FALSE /\ Nil # "Block" /\ Nil # "Allow"
  BY NilAssumption
<1>4. CASE fw.enabled = FALSE
  <2>1. w.fw.on = FALSE
    BY <1>1, <1>3, <1>4 DEF ReadOf
  <2> QED BY <1>4, <2>1 DEF InboundPolicy, Admits
<1>5. CASE fw.enabled = TRUE
  <2>1. w.fw.on = TRUE
    BY <1>1, <1>3, <1>5 DEF ReadOf
  <2>2. fw.inbound = "Block" => w.fw.blocks = TRUE
    BY <1>1, <1>3 DEF ReadOf
  <2>3. fw.inbound = "Allow" => w.fw.blocks = FALSE
    BY <1>1, <1>3 DEF ReadOf
  <2> QED BY <1>2, <1>3, <1>5, <2>1, <2>2, <2>3 DEF InboundPolicy, Admits
<1>6. CASE fw.enabled = Nil
  BY <1>3, <1>6 DEF InboundPolicy
<1> QED BY <1>2, <1>4, <1>5, <1>6

\* A verdict that says more than is true of w, as IsTooWide has it.
TooWide(w, s, verdict) ==
  \/ w.other
  \/ w.mode = "nat" /\ w.relay = "loopback" /\ verdict = "lan"
  \/ w.mode = "mirrored" /\ s.fw.loopback = Nil /\ verdict = "windows-only"

\* A verdict made from right or missing readings is what following the packets gives,
\* or one of the three that are too wide; it is only missing when a reading is.
LEMMA VerdictOfRead ==
  ASSUME NEW w \in Networks, NEW s \in Sections, s.sock = w.sock, s.sock # "none",
         s.table \in {NetstatRow(w), Nil}, ReadOf(s.fw, w), s.mode \in {w.mode, Nil}
  PROVE  /\ Judged(s) \in Audiences =>
              \/ Judged(s) = Audience(w)
              \/ TooWide(w, s, Judged(s)) /\ Width[Judged(s)] > Width[Audience(w)]
         /\ Judged(s) = "unknown" =>
              s.mode = Nil \/ s.table = Nil \/ s.fw.enabled = Nil \/ s.fw.inbound = Nil
<1> DEFINE in == InboundPolicy(s.fw)
           admits == Admits(w.fw)
           direct == s.sock # "loopback" /\ admits
           relayed == s.sock # "address" /\ w.relay # "none"
           shares == s.fw.loopback # FALSE
<1>1. /\ w.sock \in {"loopback", "address", "wildcard"} /\ w.mode \in {"nat", "mirrored"}
      /\ w.relay \in {"none", "loopback", "all"} /\ w.other \in BOOLEAN
      /\ w.fw.exempts \in BOOLEAN /\ s.fw \in FirewallViews
  BY DEF Networks, BindScopes, Sections, Relays
<1>2. /\ in \in {"allowed", "blocked", "unknown"}
      /\ in = "allowed" => admits
      /\ in = "blocked" => ~admits
      /\ in = "unknown" => s.fw.enabled = Nil \/ s.fw.inbound = Nil
  BY <1>1, PolicyOfRead
<1>3. /\ s.fw.loopback # Nil => (shares <=> w.fw.exempts)
      /\ s.fw.loopback = Nil => shares
  BY <1>1, NilAssumption DEF ReadOf
<1>4. Audience(w) =
        IF \/ w.mode = "nat" /\ w.relay = "all" /\ w.sock = "wildcard" /\ admits
           \/ w.mode = "mirrored" /\ direct
        THEN "lan"
        ELSE IF \/ w.mode = "nat" /\ (relayed \/ direct)
                \/ w.mode = "mirrored" /\ (w.fw.exempts \/ direct)
        THEN "windows-only" ELSE "loopback-only"
  BY DEF Audience, FromOthers, FromThisPc
<1> HIDE DEF in, shares, admits
<1>5. Width["lan"] = 3 /\ Width["windows-only"] = 2 /\ Width["loopback-only"] = 1
  BY DEF Width, Audiences
<1>6. "unknown" \notin Audiences
  BY DEF Audiences
<1>7. CASE s.mode = Nil
  <2>1. Judged(s) = "unknown"
    BY <1>7, NilAssumption DEF Judged, ClassifyReachability
  <2> QED BY <1>6, <1>7, <2>1
<1>8. CASE s.mode # Nil /\ w.mode = "mirrored"
  <2>1. Judged(s) = IF s.sock # "loopback" /\ in = "allowed" THEN "lan"
                    ELSE IF s.sock # "loopback" /\ in = "unknown" THEN "unknown"
                    ELSE IF shares THEN "windows-only" ELSE "loopback-only"
    BY <1>8 DEF Judged, ClassifyReachability, MirroredVerdict, in, shares
  <2>2. CASE s.sock # "loopback" /\ in = "unknown"
    BY <1>2, <1>6, <2>1, <2>2
  <2>3. CASE ~(s.sock # "loopback" /\ in = "unknown")
    <3>1. (s.sock # "loopback" /\ in = "allowed") <=> direct
      BY <1>2, <2>3
    <3>2. Judged(s) = IF direct THEN "lan" ELSE IF shares THEN "windows-only" ELSE "loopback-only"
      BY <2>1, <2>3, <3>1
    <3>3. Audience(w) = IF direct THEN "lan"
                        ELSE IF w.fw.exempts THEN "windows-only" ELSE "loopback-only"
      BY <1>4, <1>8
    <3>4. CASE s.fw.loopback # Nil
      BY <1>3, <3>2, <3>3, <3>4
    <3>5. CASE s.fw.loopback = Nil
      BY <1>1, <1>3, <1>5, <1>8, <3>2, <3>3, <3>5 DEF TooWide
    <3> QED BY <3>2, <3>4, <3>5
  <2> QED BY <2>2, <2>3
<1>9. CASE s.mode # Nil /\ w.mode = "nat"
  <2>1. Judged(s) = NatVerdict(s.sock, s.table, s.fw)
    BY <1>9 DEF Judged, ClassifyReachability, Correlate
  <2>2. CASE s.sock # "address" /\ s.table = Nil
    BY <1>6, <2>1, <2>2 DEF NatVerdict
  <2>3. CASE s.sock # "loopback" /\ in = "unknown"
    BY <1>2, <1>6, <2>1, <2>3 DEF NatVerdict, in
  <2>4. CASE ~(s.sock # "address" /\ s.table = Nil) /\ ~(s.sock # "loopback" /\ in = "unknown")
    <3> DEFINE row == s.sock # "address" /\ s.table = TRUE
    <3>1. Judged(s) = IF s.sock = "wildcard" /\ row /\ direct THEN "lan"
                      ELSE IF row \/ direct THEN "windows-only" ELSE "loopback-only"
      <4>1. (s.sock # "loopback" /\ in = "allowed") <=> direct
        BY <1>2, <2>4
      <4> HIDE DEF direct
      <4> QED BY <2>1, <2>4, <4>1 DEF NatVerdict, in
    <3>2. row <=> s.sock # "address" /\ (w.relay # "none" \/ w.other)
      BY <1>1, <2>4 DEF NetstatRow
    <3>3. Audience(w) = IF w.relay = "all" /\ w.sock = "wildcard" /\ direct THEN "lan"
                        ELSE IF relayed \/ direct THEN "windows-only" ELSE "loopback-only"
      BY <1>4, <1>9
    <3>4. CASE w.other
      <4>1. row <=> s.sock # "address"
        BY <3>2, <3>4
      <4>2. Width[Judged(s)] >= Width[Audience(w)]
        BY <1>1, <1>5, <3>1, <3>3, <4>1
      <4>3. Width[Judged(s)] = Width[Audience(w)] => Judged(s) = Audience(w)
        BY <1>5, <3>1, <3>3
      <4>4. Width[Judged(s)] \in Nat /\ Width[Audience(w)] \in Nat
        BY <1>5, <3>1, <3>3
      <4> QED BY <3>1, <3>4, <4>2, <4>3, <4>4 DEF TooWide
    <3>5. CASE ~w.other /\ w.relay = "loopback" /\ s.sock = "wildcard" /\ direct
      <4>1. Judged(s) = "lan" /\ Audience(w) = "windows-only"
        BY <3>1, <3>2, <3>3, <3>5
      <4> QED BY <1>5, <1>9, <3>5, <4>1 DEF TooWide
    <3>6. CASE ~w.other /\ ~(w.relay = "loopback" /\ s.sock = "wildcard" /\ direct)
      <4>1. row <=> relayed
        BY <3>2, <3>6
      <4>2. Judged(s) = Audience(w)
        BY <1>1, <3>1, <3>3, <3>6, <4>1
      <4> QED BY <3>1, <4>2
    <3> QED BY <1>1, <3>4, <3>5, <3>6
  <2> QED BY <2>2, <2>3, <2>4
<1> QED BY <1>1, <1>7, <1>8, <1>9

\* Readings, caches, refreshes under way and sections on screen are well typed, for any
\* addresses, starts and bounds.
THEOREM ReachTypeCorrect == ReachSpec => []ReachTypeOK
<1>1. ReachInv => ReachTypeOK
  BY DEF ReachInv
<1> QED BY <1>1, InitReach, NextReach, PTL DEF ReachSpec

\* Whatever changes, fails and expires in whatever order, a definite verdict on current
\* readings is what following the packets gives, or wider in one of the three cases of
\* IsTooWide, and a rule is called alive or dead
\* rightly, on an address that was read.
THEOREM VerdictsFollowThePackets == ReachSpec => []VerdictsAreTrue
<1>1. ReachInv => ReachIsTrue
  <2> SUFFICES ASSUME ReachInv,
                      {"sock", "table", "fw", "mode", "reach"} \intersect behind = {},
                      shown.sock # "none"
               PROVE  /\ shown.reach \in Audiences =>
                           \/ shown.reach = Audience(world)
                           \/ IsTooWide /\ Width[shown.reach] > Width[Audience(world)]
                      /\ shown.reach = "unknown" =>
                           \/ shown.mode = Nil \/ shown.table = Nil
                           \/ shown.fw.enabled = Nil \/ shown.fw.inbound = Nil
    BY DEF ReachIsTrue
  <2>1. "sock" \notin behind /\ "table" \notin behind /\ "fw" \notin behind
        /\ "mode" \notin behind /\ "reach" \notin behind
    OBVIOUS
  <2>2. world \in Networks /\ shown \in Sections
    BY DEF ReachInv, ReachTypeOK
  <2>3. /\ shown.sock = world.sock /\ shown.table \in {NetstatRow(world), Nil}
        /\ ReadOf(shown.fw, world) /\ shown.mode \in {world.mode, Nil}
    BY <2>1 DEF ReachInv, ReadInv
  <2>4. shown.reach = Judged(shown)
    BY <2>1 DEF ReachInv, JudgedInv
  <2>5. TooWide(world, shown, shown.reach) <=> IsTooWide
    BY DEF TooWide, IsTooWide
  <2> QED BY <2>2, <2>3, <2>4, <2>5, VerdictOfRead
<1>2. ReachInv => RuleVerdictIsTrue
  <2> SUFFICES ASSUME ReachInv, "rules" \in offers, "verdict" \notin behind
               PROVE  /\ shown.verdict # Nil /\ shown.ip = Nil => shown.verdict = "unknown"
                      /\ {"rules", "ip"} \intersect behind = {} /\ shown.ip # Nil =>
                           /\ shown.verdict = "live" <=> world.rule = world.ip
                           /\ shown.verdict = "stale" <=> world.rule \in Addresses \ {world.ip}
    BY DEF RuleVerdictIsTrue
  <2>1. shown.verdict = JudgeRule(shown.rule, shown.ip)
    BY DEF ReachInv, JudgedInv
  <2>2. shown.verdict # Nil /\ shown.ip = Nil => shown.verdict = "unknown"
    BY <2>1 DEF JudgeRule
  <2>3. ASSUME "rules" \notin behind, "ip" \notin behind, shown.ip # Nil
        PROVE  /\ shown.verdict = "live" <=> world.rule = world.ip
               /\ shown.verdict = "stale" <=> world.rule \in Addresses \ {world.ip}
    <3>1. shown.rule = world.rule /\ shown.ip = world.ip
      BY <2>3 DEF ReachInv, ReadInv
    <3>2. world.ip \in Addresses /\ world.rule \in Addresses \union {Nil, "local"}
      BY DEF ReachInv, ReachTypeOK, Networks
    <3>3. Nil # "live" /\ Nil # "stale"
      BY NilAssumption DEF Rulings
    <3> QED BY <2>1, <2>3, <3>1, <3>2, <3>3, AddressAssumption DEF JudgeRule
  <2> QED BY <2>2, <2>3
<1>3. ReachInv => VerdictsAreTrue
  BY <1>1, <1>2 DEF VerdictsAreTrue
<1> QED BY <1>3, InitReach, NextReach, PTL DEF ReachSpec

-----------------------------------------------------------------------------
(* WslSettings: types *)

Texts == UNION {Contents[s] : s \in Scopes}
FileType == [lines : Texts \union {Null}, mtime : Nat \union {Null}]
VmType ==
  [release : Releases, startedAt : Nat, read : [Scopes -> Texts \union {Null}], distroAt : Nat]

CollectorOK ==
  /\ collector.at \in {"idle", "read", "probed"}
  /\ collector.at # "idle" => collector.began \in Nat /\ collector.windows \in FileType
  /\ collector.at = "probed" =>
       /\ collector.linux \in FileType
       /\ collector.uptime \in Nat \union {Null}
       /\ collector.version \in Releases \union {Null}

SettingsTypeOK ==
  /\ now \in Nat /\ files \in [Scopes -> FileType] /\ vm \in VmType /\ CollectorOK
  /\ quiet \in BOOLEAN

-----------------------------------------------------------------------------
(* WslSettings: the invariant *)

\* Nothing is from the future; what was saved since the start is younger than it, or gone.
SavedInv ==
  /\ vm.startedAt <= now
  /\ collector.at # "idle" => collector.began <= now
  /\ \A s \in Scopes :
       files[s].lines = vm.read[s] \/ files[s].mtime = Null \/ files[s].mtime >= vm.startedAt

\* What has been collected under no change is what there is, or could not be read.
QuietInv ==
  quiet =>
    /\ collector.at # "idle" => collector.windows \in {files["windows"], NoFile}
    /\ collector.at = "probed" =>
         /\ collector.linux.lines \in {files["linux"].lines, Null}
         /\ collector.uptime # Null =>
              /\ collector.linux.mtime = files["linux"].mtime
              /\ \E p \in collector.began..now : collector.uptime = p - vm.startedAt
         /\ \A i \in DOMAIN KnownKeys : collector.values[i] \in {InForce(KnownKeys[i]), Null}

SettingsInv == SettingsTypeOK /\ SavedInv /\ QuietInv

-----------------------------------------------------------------------------
(* WslSettings: the steps *)

\* A file saved again is younger than the start, and nothing is quiet any more.
LEMMA EditOK ==
  ASSUME SettingsInv, NEW scope \in Scopes, Edit(scope)
  PROVE  SettingsInv'
<1>1. PICK lines \in Contents[scope] \union {Null} :
        files' = [files EXCEPT ![scope] =
                    IF lines = Null THEN NoFile ELSE [lines |-> lines, mtime |-> now]]
  BY DEF Edit
<1>2. UNCHANGED <<now, vm, collector>> /\ quiet' = FALSE /\ now \in Nat /\ vm.startedAt <= now
  BY DEF Edit, SettingsInv, SettingsTypeOK, SavedInv
<1> DEFINE file == IF lines = Null THEN NoFile ELSE [lines |-> lines, mtime |-> now]
<1>3. file \in FileType /\ (file.mtime = Null \/ file.mtime = now)
  BY <1>2 DEF FileType, Texts, NoFile
<1> HIDE DEF file
<1>4. files' \in [Scopes -> FileType]
      /\ \A s \in Scopes : files'[s] = IF s = scope THEN file ELSE files[s]
  BY <1>1, <1>3 DEF SettingsInv, SettingsTypeOK, file
<1>5. SettingsTypeOK'
  BY <1>2, <1>4 DEF SettingsInv, SettingsTypeOK, CollectorOK
<1>6. SavedInv'
  BY <1>2, <1>3, <1>4 DEF SettingsInv, SavedInv
<1>7. QuietInv'
  BY <1>2 DEF QuietInv
<1> QED BY <1>5, <1>6, <1>7 DEF SettingsInv

\* Time passes.
LEMMA TickOK ==
  ASSUME SettingsInv, Elapse
  PROVE  SettingsInv'
<1>1. UNCHANGED <<files, vm, collector, quiet>> /\ now \in Nat /\ now' = now + 1 /\ now' \in Nat
  BY DEF Elapse, SettingsInv, SettingsTypeOK
<1>2. SettingsTypeOK'
  BY <1>1 DEF SettingsInv, SettingsTypeOK, CollectorOK
<1>3. SavedInv'
  BY <1>1 DEF SettingsInv, SavedInv, SettingsTypeOK, CollectorOK, VmType
<1>4. \A k : InForce(k)' = InForce(k)
  BY <1>1 DEF InForce, Honours, Able
<1>5. \A p : collector.at = "probed" /\ p \in collector.began..now => p \in collector.began..now'
  BY <1>1 DEF SettingsInv, SettingsTypeOK, CollectorOK
<1>6. QuietInv'
  BY <1>1, <1>4, <1>5 DEF SettingsInv, QuietInv
<1> QED BY <1>2, <1>3, <1>6 DEF SettingsInv

\* A restart reads the texts there are.
LEMMA RestartOK ==
  ASSUME SettingsInv, RestartVm \/ RestartDistro
  PROVE  SettingsInv'
<1>1. UNCHANGED <<now, files, collector>> /\ quiet' = FALSE /\ now \in Nat /\ vm \in VmType
  BY DEF RestartVm, RestartDistro, SettingsInv, SettingsTypeOK
<1>2. \A s \in Scopes : files[s].lines \in Texts \union {Null}
  BY DEF SettingsInv, SettingsTypeOK, FileType
<1>3. vm' \in VmType /\ SavedInv'
  <2>1. CASE RestartVm
    <3>1. vm' = [vm EXCEPT !.startedAt = now, !.read = Lines, !.distroAt = now]
      BY <2>1 DEF RestartVm
    <3>2. Lines \in [Scopes -> Texts \union {Null}] /\ \A s \in Scopes : Lines[s] = files[s].lines
      BY <1>2 DEF Lines
    <3>3. vm' \in VmType /\ vm'.startedAt = now /\ vm'.read = Lines
      BY <1>1, <3>1, <3>2 DEF VmType
    <3> QED BY <1>1, <3>2, <3>3 DEF SavedInv, SettingsInv
  <2>2. CASE RestartDistro
    <3> DEFINE read == [vm.read EXCEPT !["linux"] = files["linux"].lines]
    <3>1. "linux" \in Scopes
      BY DEF Scopes
    <3>2. read \in [Scopes -> Texts \union {Null}]
          /\ \A s \in Scopes : read[s] = IF s = "linux" THEN files[s].lines ELSE vm.read[s]
      BY <1>1, <1>2, <3>1 DEF VmType
    <3>3. vm' = [vm EXCEPT !.read = read, !.distroAt = now]
      BY <1>1, <2>2 DEF RestartDistro, VmType
    <3> HIDE DEF read
    <3>4. vm' \in VmType /\ vm'.startedAt = vm.startedAt /\ vm'.read = read
      BY <1>1, <3>2, <3>3 DEF VmType
    <3> QED BY <1>1, <3>2, <3>4 DEF SavedInv, SettingsInv
  <2> QED BY <2>1, <2>2
<1>4. SettingsTypeOK'
  BY <1>1, <1>3 DEF SettingsInv, SettingsTypeOK, CollectorOK
<1>5. QuietInv'
  BY <1>1 DEF QuietInv
<1> QED BY <1>3, <1>4, <1>5 DEF SettingsInv

\* A collection begins with the file of Windows.
LEMMA ReadWindowsFileOK ==
  ASSUME SettingsInv, ReadWindowsFile
  PROVE  SettingsInv'
<1>1. PICK file \in {files["windows"], NoFile} :
        collector' = [at |-> "read", began |-> now, windows |-> file]
  BY DEF ReadWindowsFile
<1>2. /\ UNCHANGED <<now, files, vm>> /\ quiet' = TRUE
      /\ collector'.at = "read" /\ collector'.began = now /\ collector'.windows = file
  BY <1>1 DEF ReadWindowsFile
<1>3. file \in FileType /\ now \in Nat
  BY <1>1 DEF SettingsInv, SettingsTypeOK, Scopes, FileType, NoFile
<1>4. SettingsTypeOK'
  BY <1>1, <1>2, <1>3 DEF SettingsInv, SettingsTypeOK, CollectorOK
<1>5. SavedInv' /\ QuietInv'
  BY <1>1, <1>2, <1>3 DEF SettingsInv, SavedInv, QuietInv
<1> QED BY <1>4, <1>5 DEF SettingsInv

\* The distro tells what is in force at that moment, or nothing.
LEMMA ProbeOK ==
  ASSUME SettingsInv, Probe
  PROVE  SettingsInv'
<1>1. UNCHANGED <<now, files, vm, quiet>> /\ collector.at = "read"
  BY DEF Probe
<1>2. PICK linux, uptime, values, version :
        /\ version \in Releases \union {Null}
        /\ collector' = Probed(linux, uptime, values, version)
        /\ linux.lines \in {files["linux"].lines, Null} /\ linux \in FileType
        /\ uptime # Null => linux.mtime = files["linux"].mtime /\ uptime = now - vm.startedAt
        /\ values \in {InForceNow, NoValues}
  <2>1. /\ vm.release \in Releases /\ files["linux"] \in FileType /\ NoFile \in FileType
        /\ NoFile.lines = Null
    BY DEF SettingsInv, SettingsTypeOK, VmType, FileType, NoFile, Scopes
  <2>2. PICK version \in {vm.release, Null} :
          \/ \E uptime \in {now - vm.startedAt, Null}, lines \in {files["linux"].lines, Null} :
               collector' = Probed([files["linux"] EXCEPT !.lines = lines], uptime, InForceNow, version)
          \/ collector' = Probed(NoFile, Null, NoValues, version)
    BY DEF Probe
  <2>3. CASE \E uptime \in {now - vm.startedAt, Null}, lines \in {files["linux"].lines, Null} :
               collector' = Probed([files["linux"] EXCEPT !.lines = lines], uptime, InForceNow, version)
    <3>1. PICK uptime \in {now - vm.startedAt, Null}, lines \in {files["linux"].lines, Null} :
            collector' = Probed([files["linux"] EXCEPT !.lines = lines], uptime, InForceNow, version)
      BY <2>3
    <3> DEFINE linux == [files["linux"] EXCEPT !.lines = lines]
    <3>2. linux \in FileType /\ linux.lines = lines /\ linux.mtime = files["linux"].mtime
      BY <2>1 DEF FileType
    <3> HIDE DEF linux
    <3>3. collector' = Probed(linux, uptime, InForceNow, version)
      BY <3>1 DEF linux
    <3> QED BY <2>1, <3>2, <3>3
  <2>4. CASE collector' = Probed(NoFile, Null, NoValues, version)
    BY <2>1, <2>4
  <2> QED BY <2>2, <2>3, <2>4
<1>3. /\ collector'.at = "probed" /\ collector'.began = collector.began
      /\ collector'.windows = collector.windows /\ collector'.linux = linux
      /\ collector'.uptime = uptime /\ collector'.values = values /\ collector'.version = version
  BY <1>2 DEF Probed
<1>4. /\ now \in Nat /\ vm.startedAt \in Nat /\ vm.startedAt <= now
      /\ collector.began \in Nat /\ collector.began <= now
      /\ files["linux"] \in FileType /\ collector.windows \in FileType
  BY <1>1 DEF SettingsInv, SettingsTypeOK, SavedInv, CollectorOK, VmType, Scopes
<1>5. uptime \in Nat \union {Null} /\ linux \in FileType
  BY <1>2, <1>4
<1>6. SettingsTypeOK'
  BY <1>1, <1>2, <1>3, <1>4, <1>5 DEF SettingsInv, SettingsTypeOK, CollectorOK
<1>7. SavedInv'
  BY <1>1, <1>3, <1>4 DEF SettingsInv, SavedInv
<1>8. QuietInv'
  <2>1. \A k : InForce(k)' = InForce(k)
    BY <1>1 DEF InForce, Honours, Able
  <2>2. quiet => collector.windows \in {files["windows"], NoFile}
    BY <1>1 DEF SettingsInv, QuietInv
  <2>3. uptime # Null => \E p \in collector.began..now : uptime = p - vm.startedAt
    BY <1>2, <1>4
  <2>4. \A i \in DOMAIN KnownKeys : values[i] \in {InForce(KnownKeys[i]), Null}
    BY <1>2 DEF InForceNow, NoValues
  <2> QED BY <1>1, <1>2, <1>3, <2>1, <2>2, <2>3, <2>4 DEF QuietInv
<1> QED BY <1>6, <1>7, <1>8 DEF SettingsInv

\* A report ends the collection.
LEMMA ReconcileOK ==
  ASSUME SettingsInv, Reconcile
  PROVE  SettingsInv'
<1>1. UNCHANGED <<now, files, vm, quiet>> /\ collector' = Nothing
  BY DEF Reconcile
<1>2. collector'.at = "idle"
  BY <1>1 DEF Nothing
<1> QED BY <1>1, <1>2 DEF SettingsInv, SettingsTypeOK, CollectorOK, SavedInv, QuietInv

\* WSL has started with the texts there are.
LEMMA InitSettings == SettingsInit => SettingsInv
<1> SUFFICES ASSUME SettingsInit PROVE SettingsInv
  OBVIOUS
<1>1. PICK windows \in Contents["windows"] \union {Null}, linux \in Contents["linux"] :
        files = [s \in Scopes |->
          CASE s = "linux" -> [lines |-> linux, mtime |-> 0]
            [] s = "windows" /\ windows = Null -> NoFile
            [] OTHER -> [lines |-> windows, mtime |-> 0]]
  BY DEF SettingsInit
<1>2. windows \in Texts \union {Null} /\ linux \in Texts /\ NoFile \in FileType
  BY DEF Texts, Scopes, FileType, NoFile
<1>3. files \in [Scopes -> FileType]
  <2>1. [lines |-> linux, mtime |-> 0] \in FileType /\ [lines |-> windows, mtime |-> 0] \in FileType
    BY <1>2 DEF FileType
  <2> QED BY <1>1, <1>2, <2>1
<1>4. PICK release \in Releases :
        vm = [release |-> release, startedAt |-> 0, read |-> Lines, distroAt |-> 0]
  BY DEF SettingsInit
<1>5. Lines \in [Scopes -> Texts \union {Null}] /\ \A s \in Scopes : Lines[s] = files[s].lines
  BY <1>3 DEF Lines, FileType
<1>6. vm \in VmType /\ vm.startedAt = 0 /\ vm.read = Lines
  BY <1>4, <1>5 DEF VmType
<1>7. now = 0 /\ quiet = FALSE /\ collector.at = "idle"
  BY DEF SettingsInit, Nothing
<1>8. SettingsTypeOK
  BY <1>3, <1>6, <1>7 DEF SettingsTypeOK, CollectorOK
<1>9. SavedInv
  BY <1>5, <1>6, <1>7 DEF SavedInv
<1>10. QuietInv
  BY <1>7 DEF QuietInv
<1> QED BY <1>8, <1>9, <1>10 DEF SettingsInv

\* Every step keeps the invariant.
LEMMA NextSettings == SettingsInv /\ [SettingsNext]_settingsVars => SettingsInv'
<1> SUFFICES ASSUME SettingsInv, [SettingsNext]_settingsVars PROVE SettingsInv'
  OBVIOUS
<1>1. CASE Elapse
  BY <1>1, TickOK
<1>2. CASE RestartVm \/ RestartDistro
  BY <1>2, RestartOK
<1>3. ASSUME NEW s \in Scopes, Edit(s) PROVE SettingsInv'
  BY <1>3, EditOK
<1>4. CASE ReadWindowsFile
  BY <1>4, ReadWindowsFileOK
<1>5. CASE Probe
  BY <1>5, ProbeOK
<1>6. CASE Reconcile
  BY <1>6, ReconcileOK
<1>7. CASE UNCHANGED settingsVars
  <2>1. UNCHANGED <<now, files, vm, collector, quiet>>
    BY <1>7 DEF settingsVars
  <2>2. \A k : InForce(k)' = InForce(k)
    BY <2>1 DEF InForce, Honours, Able
  <2> QED BY <2>1, <2>2 DEF SettingsInv, SettingsTypeOK, CollectorOK, SavedInv, QuietInv
<1> QED BY <1>1, <1>2, <1>3, <1>4, <1>5, <1>6, <1>7 DEF SettingsNext

-----------------------------------------------------------------------------
(* WslSettings: what a report says *)

\* A set of naturals that is not empty has a least element.
LEMMA MinIsIn ==
  ASSUME NEW S \in SUBSET Nat, S # {}
  PROVE  Min(S) \in S
<1> DEFINE R == OpToRel(<, Nat)
<1>1. \A x, y \in Nat : <<x, y>> \in R <=> x < y
  BY DEF OpToRel
<1>2. IsWellFoundedOn(R, Nat)
  BY NatLessThanWellFounded
<1> HIDE DEF R
<1>3. PICK x \in S : \A y \in S : ~ (<<y, x>> \in R)
  BY <1>2, WFMin
<1>4. x \in Nat /\ \A y \in S : y \in Nat /\ ~(y < x)
  BY <1>1, <1>3
<1>5. \A y \in S : x <= y
  BY <1>4
<1> QED BY <1>5 DEF Min

\* The catalog entry a declared key meant is one of the catalog.
LEMMA ResolvedIsKnown ==
  ASSUME NEW key, NEW section, NEW scope, ResolveKnown(key, section, scope) # Null
  PROVE  \E i \in DOMAIN KnownKeys :
           KnownKeys[i] = ResolveKnown(key, section, scope) /\ KnownKeys[i].key = key
<1> DEFINE named == {i \in DOMAIN KnownKeys : KnownKeys[i].key = key}
           here == {i \in named : KnownKeys[i].section = section}
           inFile == {i \in named : KnownKeys[i].scope = scope}
           best == IF here \intersect inFile # {} THEN here \intersect inFile
                   ELSE IF here # {} THEN here ELSE IF inFile # {} THEN inFile ELSE named
<1>1. DOMAIN KnownKeys \subseteq Nat
  BY DEF KnownKeys
<1>2. ResolveKnown(key, section, scope) = IF best = {} THEN Null ELSE KnownKeys[Min(best)]
  BY DEF ResolveKnown
<1>3. best \subseteq named /\ named \subseteq Nat
  BY <1>1
<1> HIDE DEF best
<1>4. Min(best) \in named
  BY <1>2, <1>3, MinIsIn
<1> QED BY <1>2, <1>4

\* What a file gives to a key is its last declaration in the key's section.
LEMMA GivenIsDeclared ==
  ASSUME NEW lines, NEW k
  PROVE  Given(lines, k) = Declared(Entries(lines), k.section, k.key)
BY DEF Given, Declared

\* A value in force for a key is read back as a match of itself.
LEMMA RunningMatchesItself ==
  ASSUME NEW i \in DOMAIN KnownKeys
  PROVE  /\ KnownKeys[i].key # "swap"
         /\ ValuesMatch(KnownKeys[i].key, InForce(KnownKeys[i]), InForce(KnownKeys[i]))
<1>1. KnownKeys[i].key # "swap" /\ (KnownKeys[i].key = "memory" => KnownKeys[i].default = Null)
  BY DEF KnownKeys, Known
<1> DEFINE k == KnownKeys[i]
<1> HIDE DEF k
<1>2. CASE k.key = "memory"
  <2>1. InForce(k) \in DOMAIN Size
    BY <1>1, <1>2, SizesAssumption DEF InForce, Honours, Initially, k
  <2>2. SizeMatches(Size[InForce(k)], Total[InForce(k)])
    BY <2>1, SizesAssumption
  <2> QED BY <1>1, <1>2, <2>1, <2>2 DEF ValuesMatch, k
<1>3. CASE k.key # "memory"
  BY <1>1, <1>3 DEF ValuesMatch, k
<1> QED BY <1>2, <1>3

\* A row of what a file declares, with a value read back, is said to be applied if the
\* value in force is the one the file gives, and only then or when the two are close.
LEMMA RowIsRight ==
  ASSUME SettingsInv, quiet, collector.at = "probed",
         NEW scope \in Scopes, NEW lines,
         lines = IF scope = "windows" THEN collector.windows.lines ELSE collector.linux.lines,
         NEW newer, NEW startKnown,
         NEW r \in DeclaredRows(Entries(lines), scope, newer, startKnown),
         r.known # Null, r.effective # Null
  PROVE  LET given == Given(files[r.scope].lines, r.known)
             runs == InForce(r.known)
         IN /\ runs = given => r.verdict = "applied"
            /\ r.verdict = "applied" => runs = given \/ AreClose(r.known.key, given, runs)
<1> DEFINE entries == Entries(lines)
<1>1. PICK e \in ToSet(entries) :
        LET value == Declared(entries, e.section, e.key)
            k == ResolveKnown(e.key, e.section, scope)
            verdict == Verdict(e.section, e.key, value, scope, newer, startKnown)
        IN r = Row(k, scope, e.section, e.key, value,
                   IF k = Null \/ verdict = "wrong-section" \/ TooOld(k) THEN Null ELSE Observed(k),
                   "user", verdict)
  BY DEF DeclaredRows
<1> HIDE DEF entries
<1> DEFINE value == Declared(entries, e.section, e.key)
           k == ResolveKnown(e.key, e.section, scope)
           verdict == Verdict(e.section, e.key, value, scope, newer, startKnown)
<1>2. /\ r.known = k /\ r.scope = scope /\ r.verdict = verdict
      /\ r.effective = IF k = Null \/ verdict = "wrong-section" \/ TooOld(k) THEN Null ELSE Observed(k)
  BY <1>1 DEF Row
<1>3. k # Null /\ verdict # "wrong-section" /\ ~TooOld(k) /\ Observed(k) # Null
  BY <1>2
<1>4. /\ k.section = e.section /\ k.scope = scope
      /\ verdict =
           IF ValuesMatch(e.key, value, Observed(k)) THEN "applied" ELSE Unlike(newer, startKnown)
  BY <1>3 DEF Verdict
<1>5. verdict = "applied" <=> ValuesMatch(e.key, value, Observed(k))
  BY <1>4 DEF Unlike
<1>6. PICK i \in DOMAIN KnownKeys : KnownKeys[i] = k /\ KnownKeys[i].key = e.key
  BY <1>3, ResolvedIsKnown
<1> HIDE DEF k, value, verdict
<1>7. PICK j \in DOMAIN KnownKeys : KnownKeys[j] = k /\ Observed(k) = collector.values[j]
  BY <1>6 DEF Observed
<1>8. Observed(k) = InForce(k)
  BY <1>3, <1>7 DEF SettingsInv, QuietInv
<1>9. lines = files[scope].lines
  <2>1. lines # Null
    <3>1. entries # <<>>
      BY <1>1 DEF ToSet
    <3> QED BY <3>1 DEF entries, Entries
  <2>2. collector.windows \in {files["windows"], NoFile}
        /\ collector.linux.lines \in {files["linux"].lines, Null}
    BY DEF SettingsInv, QuietInv
  <2> QED BY <2>1, <2>2 DEF NoFile, Scopes
<1>10. value = Given(lines, k)
  <2>1. Given(lines, k) = Declared(entries, k.section, k.key)
    BY GivenIsDeclared DEF entries
  <2>2. k.section = e.section /\ k.key = e.key
    BY <1>4, <1>6
  <2> QED BY <2>1, <2>2 DEF value
<1>11. /\ k.key # "swap" /\ k.key = e.key
       /\ ValuesMatch(k.key, InForce(k), InForce(k))
  BY <1>6, RunningMatchesItself
<1> DEFINE given == Given(files[scope].lines, k)
           runs == InForce(k)
<1>12. verdict = "applied" <=> ValuesMatch(k.key, given, runs)
  BY <1>5, <1>8, <1>9, <1>10, <1>11
<1> HIDE DEF given, runs
<1>13. runs = given => verdict = "applied"
  BY <1>11, <1>12 DEF runs
<1>14. verdict = "applied" => runs = given \/ AreClose(k.key, given, runs)
  BY <1>11, <1>12 DEF ValuesMatch, AreClose
<1> QED BY <1>2, <1>13, <1>14 DEF given, runs

\* The clock, the files, WSL and the collection under way are well typed, for any texts,
\* releases and bounds.
THEOREM SettingsTypeCorrect == SettingsSpec => []SettingsTypeOK
<1>1. SettingsInv => SettingsTypeOK
  BY DEF SettingsInv
<1> QED BY <1>1, InitSettings, NextSettings, PTL DEF SettingsSpec

\* In every report of a collection under which nothing was saved or restarted, a key
\* whose value was read back is said to be applied if the value in force is the one its
\* file gives, whatever the files say twice, elsewhere or misspelt, and only then, but
\* for a size that is close to the one that runs; for any texts and any sizes.
THEOREM AppliedIsTrue == SettingsSpec => AppliedIsInForce
<1>1. SettingsInv /\ [SettingsNext]_settingsVars =>
        [(report' # report /\ quiet) =>
           \A r \in report'.rows :
             (r.declared # Null /\ r.known # Null /\ r.effective # Null) =>
               LET given == Given(files[r.scope].lines, r.known)
                   runs == InForce(r.known)
               IN /\ runs = given => r.verdict = "applied"
                  /\ r.verdict = "applied" =>
                       runs = given \/ AreClose(r.known.key, given, runs)]_settingsVars
  <2> SUFFICES ASSUME SettingsInv, SettingsNext, report' # report, quiet,
                      NEW r \in report'.rows,
                      r.declared # Null, r.known # Null, r.effective # Null
               PROVE  LET given == Given(files[r.scope].lines, r.known)
                          runs == InForce(r.known)
                      IN /\ runs = given => r.verdict = "applied"
                         /\ r.verdict = "applied" =>
                              runs = given \/ AreClose(r.known.key, given, runs)
    OBVIOUS
  <2>1. Reconcile
    BY DEF SettingsNext, Elapse, RestartVm, RestartDistro, Edit, ReadWindowsFile, Probe
  <2>2. PICK windowsNewer, linuxNewer, startKnown, declared :
          /\ declared =
               DeclaredRows(Entries(collector.windows.lines), "windows", windowsNewer, startKnown)
                 \union
               DeclaredRows(Entries(collector.linux.lines), "linux", linuxNewer, startKnown)
          /\ report'.rows =
               declared \union
                 {DefaultRow(k) : k \in {k \in ToSet(KnownKeys) : ~Covered(k, declared)}}
    BY <2>1 DEF Reconcile
  <2>3. r \in declared
    <3>1. \A k : DefaultRow(k).declared = Null
      BY DEF DefaultRow, Row
    <3> QED BY <2>2, <3>1
  <2>4. collector.at = "probed" /\ "windows" \in Scopes /\ "linux" \in Scopes /\ "linux" # "windows"
    BY <2>1 DEF Reconcile, Scopes
  <2>5. CASE r \in DeclaredRows(Entries(collector.windows.lines), "windows", windowsNewer, startKnown)
    BY <2>4, <2>5, RowIsRight
  <2>6. CASE r \in DeclaredRows(Entries(collector.linux.lines), "linux", linuxNewer, startKnown)
    BY <2>4, <2>6, RowIsRight
  <2> QED BY <2>2, <2>3, <2>5, <2>6
<1> QED BY <1>1, InitSettings, NextSettings, PTL DEF SettingsSpec, AppliedIsInForce

\* A restart is only said to be pending after a save the running VM is older than, and
\* is not missed when what runs was read from another text, but for a save so soon
\* after the start that the instants of the code cannot tell, and for a file that the
\* collection has no time of: one that was deleted or could not be read.
THEOREM RestartPendingIsTrue == SettingsSpec => RestartPendingIsRight
<1>1. SettingsInv /\ [SettingsNext]_settingsVars =>
        [(report' # report /\ quiet) =>
           /\ report'.restartPending =>
                \E s \in Scopes : files[s].mtime # Null /\ files[s].mtime > vm.startedAt
           /\ (~report'.restartPending /\ report'.vmStartedAt # Null) =>
                \A s \in Scopes :
                  files[s].lines = vm.read[s] \/ SavedAtStart(s) \/ Undated(s)]_settingsVars
  <2> SUFFICES ASSUME SettingsInv, SettingsNext, report' # report, quiet
               PROVE  /\ report'.restartPending =>
                           \E s \in Scopes : files[s].mtime # Null /\ files[s].mtime > vm.startedAt
                      /\ (~report'.restartPending /\ report'.vmStartedAt # Null) =>
                           \A s \in Scopes :
                             files[s].lines = vm.read[s] \/ SavedAtStart(s) \/ Undated(s)
    OBVIOUS
  <2>1. Reconcile
    BY DEF SettingsNext, Elapse, RestartVm, RestartDistro, Edit, ReadWindowsFile, Probe
  <2> DEFINE startedAt == IF collector.uptime = Null THEN Null ELSE now - collector.uptime
             windowsNewer == Newer(collector.windows.mtime, startedAt)
             linuxNewer == Newer(collector.linux.mtime, startedAt)
  <2>2. report'.restartPending = (windowsNewer \/ linuxNewer) /\ report'.vmStartedAt = startedAt
    BY <2>1 DEF Reconcile
  <2>3. /\ collector.at = "probed" /\ collector.windows \in {files["windows"], NoFile}
        /\ (collector.uptime # Null => collector.linux.mtime = files["linux"].mtime)
    BY <2>1 DEF Reconcile, SettingsInv, QuietInv
  <2>4. /\ now \in Nat /\ vm.startedAt \in Nat /\ collector.began \in Nat /\ Grace \in Nat
        /\ \A s \in Scopes : files[s].mtime \in Nat \union {Null}
    BY <2>3, GraceAssumption
      DEF SettingsInv, SettingsTypeOK, CollectorOK, FileType, VmType, Scopes
  <2>5. CASE collector.uptime = Null
    BY <2>2, <2>5 DEF Newer
  <2>6. CASE collector.uptime # Null
    <3>1. PICK p \in collector.began..now : collector.uptime = p - vm.startedAt
      BY <2>1, <2>6 DEF Reconcile, SettingsInv, QuietInv
    <3>2. startedAt \in Int /\ vm.startedAt <= startedAt
          /\ startedAt <= vm.startedAt + (now - collector.began)
      BY <2>4, <2>6, <3>1
    <3> HIDE DEF startedAt
    <3>3. \A s \in Scopes : collector[s].mtime = files[s].mtime \/ collector[s].mtime = Null
      BY <2>3, <2>6 DEF Scopes, NoFile
    <3>4. /\ windowsNewer <=> (collector["windows"].mtime # Null
                               /\ collector["windows"].mtime > startedAt + Grace)
          /\ linuxNewer <=> (collector["linux"].mtime # Null
                               /\ collector["linux"].mtime > startedAt + Grace)
      BY <3>2, NullAssumption DEF Newer
    <3> HIDE DEF windowsNewer, linuxNewer
    <3>5. report'.restartPending <=>
            \E s \in Scopes : collector[s].mtime # Null /\ collector[s].mtime > startedAt + Grace
      BY <2>2, <3>4 DEF Scopes
    <3>6. ASSUME report'.restartPending
          PROVE  \E s \in Scopes : files[s].mtime # Null /\ files[s].mtime > vm.startedAt
      <4>1. PICK s \in Scopes : collector[s].mtime # Null /\ collector[s].mtime > startedAt + Grace
        BY <3>5, <3>6
      <4>2. files[s].mtime # Null /\ files[s].mtime \in Nat /\ files[s].mtime > startedAt + Grace
        BY <2>4, <3>3, <4>1
      <4>3. files[s].mtime > vm.startedAt
        BY <2>4, <3>2, <4>2
      <4> QED BY <4>2, <4>3
    <3>7. ASSUME ~report'.restartPending, NEW s \in Scopes,
                 files[s].lines # vm.read[s], ~Undated(s)
          PROVE  SavedAtStart(s)
      <4>1. /\ files[s].mtime # Null /\ files[s].mtime \in Nat
            /\ ~(files[s].mtime > startedAt + Grace)
        BY <2>4, <3>3, <3>5, <3>7 DEF Undated
      <4>2. files[s].mtime >= vm.startedAt
        BY <3>7, <4>1 DEF SettingsInv, SavedInv
      <4>3. files[s].mtime <= vm.startedAt + Grace + (now - collector.began)
        BY <2>4, <3>2, <4>1
      <4> QED BY <4>1, <4>2, <4>3 DEF SavedAtStart
    <3> QED BY <3>6, <3>7
  <2> QED BY <2>5, <2>6
<1> QED BY <1>1, InitSettings, NextSettings, PTL DEF SettingsSpec, RestartPendingIsRight

-----------------------------------------------------------------------------
(* PublishedSnapshot: dashboards *)

\* The names of a dashboard's fields.
FieldNames ==
  {"system", "resources", "disk", "wslSettings", "memoryDetail", "paths", "configuration",
   "tools", "toolsCollectionStatus", "hermes", "docker", "zoneIdentifier", "diskConsumers",
   "driveMounts", "defender", "inotify", "terminalProfiles", "environment", "processes",
   "services", "servicesCollected", "ports", "portsCollectionStatus", "windowsPorts",
   "firewall", "portProxy", "clock", "dns"}

\* A dashboard has these fields and no other.
LEMMA FieldsOfDashboard ==
  ASSUME NEW d \in DashboardSnapshot
  PROVE  DOMAIN d = FieldNames
  BY DEF DashboardSnapshot, FieldNames

\* Fields of two dashboards, taken as one likes, are a dashboard.
LEMMA MixedType ==
  ASSUME NEW d \in DashboardSnapshot, NEW e \in DashboardSnapshot, NEW S
  PROVE  [f \in DOMAIN d |-> IF f \in S THEN e[f] ELSE d[f]] \in DashboardSnapshot
  BY FieldsOfDashboard DEF DashboardSnapshot, FieldNames

\* What a newly selected distro starts with is a dashboard, with nothing read.
LEMMA EmptyType == EmptySections \in DashboardSnapshot
  BY DEF EmptySections, DashboardSnapshot, SystemInfo, ResourceInfo, Text, Tri, Count, Maybe,
         CollectionStatus

\* A function of the fields is a dashboard if each of its fields is some dashboard's.
LEMMA PickedType ==
  ASSUME NEW d, DOMAIN d = FieldNames, d = [f \in FieldNames |-> d[f]],
         \A f \in FieldNames : \E e \in DashboardSnapshot : d[f] = e[f]
  PROVE  d \in DashboardSnapshot
  <1> DEFINE Typed(e) ==
        /\ e.system \in SystemInfo /\ e.resources \in ResourceInfo
        /\ e.disk \in Maybe(DiskImageInfo) /\ e.wslSettings \in Maybe(WslConfigInfo)
        /\ e.memoryDetail \in Maybe({"read"}) /\ e.paths \in Seq(ImportantPathInfo)
        /\ e.configuration \in Seq(ConfigurationFileInfo) /\ e.tools \in Seq(ToolInfo)
        /\ e.toolsCollectionStatus \in CollectionStatus /\ e.hermes \in Maybe(HermesInfo)
        /\ e.docker \in Maybe(DockerInfo)
        /\ e.zoneIdentifier \in Maybe(ZoneIdentifierInfo)
        /\ e.diskConsumers \in Maybe(DiskConsumersInfo)
        /\ e.driveMounts \in Maybe(DriveMountsInfo) /\ e.defender \in Maybe(DefenderInfo)
        /\ e.inotify \in Maybe(InotifyInfo)
        /\ e.terminalProfiles \in Maybe(TerminalProfilesInfo)
        /\ e.environment \in Seq(EnvironmentVariableInfo)
        /\ e.processes \in Seq(ProcessInfo) /\ e.services \in Seq(ServiceInfo)
        /\ e.servicesCollected \in BOOLEAN /\ e.ports \in Seq(PortInfo)
        /\ e.portsCollectionStatus \in CollectionStatus
        /\ e.windowsPorts \in Seq(WindowsPortInfo) /\ e.firewall \in Maybe(FirewallInfo)
        /\ e.portProxy \in Maybe(PortProxyInfo) /\ e.clock \in Maybe(ClockInfo)
        /\ e.dns \in Maybe(DnsInfo)
             From(f) == CHOOSE e \in DashboardSnapshot : d[f] = e[f]
  <1>1. \A e \in DashboardSnapshot : Typed(e)
    BY DEF DashboardSnapshot
  <1>2. \A f \in FieldNames : From(f) \in DashboardSnapshot /\ d[f] = From(f)[f]
    OBVIOUS
  <1>3. Typed(d)
    <2> HIDE DEF From
    <2> QED
      BY <1>1, <1>2 DEF FieldNames
  <1> QED
    BY <1>3 DEF DashboardSnapshot, FieldNames

-----------------------------------------------------------------------------
(* Lists *)

\* A finite set of numbers is counted off by rank: its n-th member is the one with n
\* members up to it.
LEMMA Ranks ==
  ASSUME NEW places \in SUBSET Nat, IsFiniteSet(places)
  PROVE  LET N == Cardinality(places)
             Rank(i) == Cardinality({j \in places : j <= i})
             Nth(n) == CHOOSE i \in places : Rank(i) = n
         IN  /\ N \in Nat
             /\ \A n \in 1 .. N : Nth(n) \in places /\ Rank(Nth(n)) = n
             /\ \A i \in places : Rank(i) \in 1 .. N /\ Nth(Rank(i)) = i
  <1> DEFINE N == Cardinality(places)
             Upto(i) == {j \in places : j <= i}
             Rank(i) == Cardinality(Upto(i))
             Nth(n) == CHOOSE i \in places : Rank(i) = n
  <1>1. N \in Nat
    BY FS_CardinalityType
  <1>2. \A i \in places : IsFiniteSet(Upto(i)) /\ Rank(i) \in 1 .. N
    <2> TAKE i \in places
    <2>1. Upto(i) \in SUBSET places /\ i \in Upto(i)
      OBVIOUS
    <2> HIDE DEF Upto
    <2>2. IsFiniteSet(Upto(i)) /\ Cardinality(Upto(i)) <= N
      BY <2>1, FS_Subset
    <2>3. Cardinality(Upto(i)) \in Nat /\ Cardinality(Upto(i)) # 0
      BY <2>1, <2>2, FS_CardinalityType, FS_EmptySet
    <2> QED
      BY <1>1, <2>2, <2>3
  <1>3. \A i, j \in places : i < j => Rank(i) < Rank(j)
    <2> TAKE i, j \in places
    <2> HAVE i < j
    <2>1. Upto(i) \in SUBSET Upto(j) /\ Upto(i) # Upto(j)
      <3>1. j \in Upto(j) /\ j \notin Upto(i)
        OBVIOUS
      <3>2. \A x \in Upto(i) : x \in Upto(j)
        OBVIOUS
      <3> QED
        BY <3>1, <3>2
    <2>2. IsFiniteSet(Upto(j)) /\ Rank(i) \in Nat /\ Rank(j) \in Nat
      BY <1>1, <1>2
    <2> HIDE DEF Upto
    <2> QED
      BY <2>1, <2>2, FS_Subset
  <1> DEFINE rank == [i \in places |-> Rank(i)]
  <1>4. rank \in [places -> 1 .. N]
    <2> HIDE DEF Rank
    <2> QED
      BY <1>2
  <1>5. \A i, j \in places : rank[i] = rank[j] => i = j
    <2>1. \A i, j \in places : i < j => rank[i] < rank[j]
      BY <1>3
    <2> HIDE DEF rank, N
    <2> SUFFICES ASSUME NEW i \in places, NEW j \in places, rank[i] = rank[j], i # j PROVE FALSE
      OBVIOUS
    <2>2. i \in Nat /\ j \in Nat /\ rank[i] \in Int /\ rank[j] \in Int
      BY <1>1, <1>4
    <2>3. i < j \/ j < i
      BY <2>2
    <2> QED
      BY <2>1, <2>2, <2>3
  <1>6. \A n \in 1 .. N : \E i \in places : rank[i] = n
    <2> SUFFICES ASSUME NEW n \in 1 .. N, \A i \in places : rank[i] # n PROVE FALSE
      OBVIOUS
    <2> DEFINE T == (1 .. N) \ {n}
    <2>1. IsFiniteSet(1 .. N) /\ Cardinality(1 .. N) = N
      BY <1>1, FS_Interval
    <2>2. IsFiniteSet(T) /\ Cardinality(T) = N - 1
      BY <2>1, FS_RemoveElement
    <2> HIDE DEF rank
    <2>3. rank \in [places -> T]
      BY <1>4
    <2>4. Cardinality(T) < Cardinality(places)
      BY <2>2, <1>1
    <2> HIDE DEF T
    <2>5. \E x, y \in places : x # y /\ rank[x] = rank[y]
      BY <2>2, <2>3, <2>4, FS_PigeonHole
    <2> QED
      BY <2>5, <1>5
  <1>7. \A i \in places : rank[i] = Rank(i)
    OBVIOUS
  <1> HIDE DEF Rank, rank
  <1>8. \A n \in 1 .. N : Nth(n) \in places /\ Rank(Nth(n)) = n
    BY <1>6, <1>7
  <1>9. \A i \in places : Rank(i) \in 1 .. N
    BY <1>4, <1>7
  <1>10. \A i \in places : Nth(Rank(i)) = i
    BY <1>5, <1>7, <1>8, <1>9
  <1> QED
    BY <1>1, <1>8, <1>9, <1>10 DEF Rank

\* The items at some places of a list are a list, as many as there are places, and the
\* items are those at the places.
LEMMA ItemsAtPlaces ==
  ASSUME NEW S, NEW seq \in Seq(S), NEW places \in SUBSET DOMAIN seq
  PROVE  /\ Cardinality(places) \in Nat
         /\ ItemsAt(seq, places) \in Seq(S)
         /\ Len(ItemsAt(seq, places)) = Cardinality(places)
         /\ Range(ItemsAt(seq, places)) = {seq[i] : i \in places}
         /\ IsInjective(seq) => IsInjective(ItemsAt(seq, places))
  <1> DEFINE N == Cardinality(places)
             Rank(i) == Cardinality({j \in places : j <= i})
             Nth(n) == CHOOSE i \in places : Rank(i) = n
             picked == ItemsAt(seq, places)
  <1>1. places \in SUBSET Nat /\ IsFiniteSet(places)
    <2>1. DOMAIN seq = 1 .. Len(seq) /\ Len(seq) \in Nat
      OBVIOUS
    <2>2. IsFiniteSet(1 .. Len(seq))
      BY <2>1, FS_Interval
    <2> QED
      BY <2>1, <2>2, FS_Subset
  <1>2. /\ N \in Nat
        /\ \A n \in 1 .. N : Nth(n) \in places /\ Rank(Nth(n)) = n
        /\ \A i \in places : Rank(i) \in 1 .. N /\ Nth(Rank(i)) = i
    BY <1>1, Ranks
  <1> DEFINE listed == [n \in 1 .. N |-> seq[Nth(n)]]
  <1>8. picked = SubSeq(listed, 1, N)
    BY DEF ItemsAt
  <1> HIDE DEF Rank, Nth, picked, N
  <1>4. \A n \in 1 .. N : seq[Nth(n)] \in S
    BY <1>2
  <1>3. picked = listed
    <2>1. listed \in Seq(S) /\ Len(listed) = N
      BY <1>2, <1>4
    <2> HIDE DEF listed
    <2> QED
      BY <1>2, <1>8, <2>1
  <1>5. picked \in Seq(S) /\ Len(picked) = N
    BY <1>2, <1>3, <1>4
  <1>6. Range(picked) = {seq[i] : i \in places}
    <2>1. DOMAIN picked = 1 .. N
      BY <1>3
    <2>2. \A x \in Range(picked) : x \in {seq[i] : i \in places}
      BY <2>1, <1>2, <1>3 DEF Range
    <2>3. \A i \in places : seq[i] \in Range(picked)
      BY <2>1, <1>2, <1>3 DEF Range
    <2> QED
      BY <2>2, <2>3
  <1>7. ASSUME IsInjective(seq) PROVE IsInjective(picked)
    <2>1. \A m, n \in 1 .. N : picked[m] = picked[n] => m = n
      BY <1>2, <1>3, <1>7 DEF IsInjective
    <2> QED
      BY <2>1, <1>3 DEF IsInjective
  <1> QED
    BY <1>2, <1>5, <1>6, <1>7 DEF N, picked

\* The larger and the smaller of two numbers.
LEMMA MaxOf ==
  ASSUME NEW a \in Int, NEW b \in Int
  PROVE  Max({a, b}) = IF a >= b THEN a ELSE b
  BY DEF Max

\* The smaller of two integers.
LEMMA MinOf ==
  ASSUME NEW a \in Int, NEW b \in Int
  PROVE  Min({a, b}) = IF a <= b THEN a ELSE b
  BY DEF Min

\* A list of whatever it holds.
IsList(a) == a \in Seq(Range(a))

\* A sequence over a set is a list, and all that is in it is of that set.
LEMMA ListOf ==
  ASSUME NEW S, NEW a \in Seq(S)
  PROVE  IsList(a) /\ Range(a) \subseteq S
  BY DEF IsList, Range

\* What two lists hold, one after the other, is what either holds.
LEMMA ConcatList ==
  ASSUME NEW a, NEW b, IsList(a), IsList(b)
  PROVE  IsList(a \o b) /\ Range(a \o b) = Range(a) \union Range(b)
  <1> DEFINE S == Range(a) \union Range(b)
  <1>1. a \in Seq(S) /\ b \in Seq(S) /\ DOMAIN b = 1 .. Len(b) /\ DOMAIN a = 1 .. Len(a)
    BY DEF IsList
  <1>2. a \o b \in Seq(S) /\ Len(a \o b) = Len(a) + Len(b)
    BY <1>1
  <1>3. \A i \in 1 .. Len(a) : (a \o b)[i] = a[i] /\ i \in DOMAIN (a \o b)
    BY <1>1
  <1>4. \A i \in 1 .. Len(b) : (a \o b)[Len(a) + i] = b[i] /\ Len(a) + i \in DOMAIN (a \o b)
    BY <1>1
  <1>5. Range(a) \subseteq Range(a \o b)
    BY <1>1, <1>3 DEF Range
  <1>6. Range(b) \subseteq Range(a \o b)
    BY <1>1, <1>4 DEF Range
  <1>7. Range(a \o b) \subseteq S
    BY <1>2, ListOf
  <1>8. Range(a \o b) = S
    BY <1>5, <1>6, <1>7
  <1> QED
    BY <1>2, <1>8 DEF IsList

\* A list of distinct items is as long as there are items.
LEMMA DistinctItems ==
  ASSUME NEW a, IsList(a), IsInjective(a)
  PROVE  IsFiniteSet(Range(a)) /\ Cardinality(Range(a)) = Len(a)
  <1>1. Len(a) \in Nat /\ DOMAIN a = 1 .. Len(a) /\ a \in [1 .. Len(a) -> Range(a)]
    BY DEF IsList
  <1>2. a \in Bijection(1 .. Len(a), Range(a))
    BY <1>1 DEF Bijection, Injection, Surjection, Range
  <1>3. IsFiniteSet(1 .. Len(a)) /\ Cardinality(1 .. Len(a)) = Len(a)
    BY <1>1, FS_Interval
  <1>4. IsFiniteSet(Range(a))
    BY <1>2, <1>3, FS_Bijection DEF ExistsBijection
  <1>5. Cardinality(Range(a)) = Len(a)
    BY <1>1, <1>2, FS_CountingElements, FS_Interval DEF ExistsBijection
  <1> QED
    BY <1>4, <1>5

-----------------------------------------------------------------------------
(* A dashboard that never heard of a section *)

\* Forgetting a section empties the fields its query fills and leaves the others.
LEMMA ForgetIsMixed ==
  ASSUME NEW d \in DashboardSnapshot, NEW k
  PROVE  /\ Forget(d, k) \in DashboardSnapshot
         /\ \A f \in FieldNames :
              Forget(d, k)[f] = IF f \in FieldsOf(k) THEN EmptySections[f] ELSE d[f]
  <1> DEFINE mixed == [f \in DOMAIN d |-> IF f \in FieldsOf(k) THEN EmptySections[f] ELSE d[f]]
  <1>1. DOMAIN d = FieldNames
    BY FieldsOfDashboard
  <1>2. mixed \in DashboardSnapshot
    BY MixedType, EmptyType
  <1>3. Forget(d, k) = mixed
    <2>1. /\ EmptySections.servicesCollected = FALSE /\ EmptySections.windowsPorts = <<>>
          /\ EmptySections.toolsCollectionStatus = "pending"
          /\ EmptySections.portsCollectionStatus = "pending"
      BY DEF EmptySections
    <2>2. CASE k = "services"
      BY <1>1, <2>1, <2>2 DEF Forget, FieldsOf
    <2>3. CASE k = "tools"
      BY <1>1, <2>1, <2>3 DEF Forget, FieldsOf
    <2>4. CASE k = "ports"
      BY <1>1, <2>1, <2>4 DEF Forget, FieldsOf
    <2>5. CASE k \notin {"services", "tools", "ports"}
      <3>1. FieldsOf(k) = {k} /\ Forget(d, k) = [d EXCEPT ![k] = EmptySections[k]]
        BY <2>5 DEF Forget, FieldsOf
      <3> QED
        BY <3>1
    <2> QED
      BY <2>2, <2>3, <2>4, <2>5
  <1> QED
    BY <1>1, <1>2, <1>3

\* Of a section that is one field, either nothing is left or all of it.
LEMMA FactForgotten ==
  ASSUME NEW d \in DashboardSnapshot, NEW k \in SectionIds
  PROVE  \A f \in {"disk", "wslSettings", "docker", "zoneIdentifier", "driveMounts", "defender",
                   "inotify", "portProxy", "clock", "dns"} :
           Forget(d, k)[f] \in {d[f], None}
  <1> SUFFICES ASSUME NEW f \in {"disk", "wslSettings", "docker", "zoneIdentifier", "driveMounts",
                                "defender", "inotify", "portProxy", "clock", "dns"}
               PROVE  Forget(d, k)[f] \in {d[f], None}
    OBVIOUS
  <1>1. EmptySections[f] = None
    BY DEF EmptySections
  <1>2. f \in FieldNames
    BY DEF FieldNames
  <1> QED
    BY <1>1, <1>2, ForgetIsMixed

\* What goes with the lists: the marks that they were read, and the empty records.
LEMMA ListForgotten ==
  ASSUME NEW d \in DashboardSnapshot, NEW k \in SectionIds
  PROVE  /\ \/ Forget(d, k).system = d.system
            \/ Forget(d, k).system.systemdEnabled = None
         /\ \/ Forget(d, k).resources = d.resources
            \/ Forget(d, k).resources.disks = <<>>
         /\ \/ /\ Forget(d, k).tools = d.tools
               /\ Forget(d, k).toolsCollectionStatus = d.toolsCollectionStatus
            \/ Forget(d, k).toolsCollectionStatus = "pending"
         /\ \/ /\ Forget(d, k).services = d.services
               /\ Forget(d, k).servicesCollected = d.servicesCollected
            \/ Forget(d, k).servicesCollected = FALSE
  <1>1. \A f \in {"system", "resources", "tools", "toolsCollectionStatus", "services",
                  "servicesCollected"} : f \in FieldNames
    BY DEF FieldNames
  <1>2. /\ EmptySections.system.systemdEnabled = None
        /\ EmptySections.resources.disks = <<>>
        /\ EmptySections.toolsCollectionStatus = "pending"
        /\ EmptySections.servicesCollected = FALSE
    BY DEF EmptySections
  <1>3. CASE k = "tools"
    BY <1>1, <1>2, <1>3, ForgetIsMixed DEF FieldsOf
  <1>4. CASE k = "services"
    BY <1>1, <1>2, <1>4, ForgetIsMixed DEF FieldsOf
  <1>5. CASE k = "ports"
    BY <1>1, <1>2, <1>5, ForgetIsMixed DEF FieldsOf
  <1>6. CASE k \notin {"tools", "services", "ports"}
    BY <1>1, <1>2, <1>6, ForgetIsMixed DEF FieldsOf, SectionIds
  <1> QED
    BY <1>3, <1>4, <1>5, <1>6

\* A check that judges one fact passes a forgotten dashboard only if it passes the whole.
LEMMA FactChecks ==
  ASSUME NEW d \in DashboardSnapshot, NEW k \in SectionIds, NEW e, e = Forget(d, k)
  PROVE  /\ ClockCheck(e) = "ok" => ClockCheck(d) = "ok"
         /\ DnsCheck(e) = "ok" => DnsCheck(d) = "ok"
         /\ DrivesCheck(e) = "ok" => DrivesCheck(d) = "ok"
         /\ DefenderCheck(e) = "ok" => DefenderCheck(d) = "ok"
         /\ InotifyCheck(e) = "ok" => InotifyCheck(d) = "ok"
         /\ DiskImageCheck(e) = "ok" => DiskImageCheck(d) = "ok"
         /\ DockerCheck(e) = "ok" => DockerCheck(d) = "ok"
         /\ ForwardingCheck(e) = "ok" => ForwardingCheck(d) = "ok"
         /\ ZoneCheck(e) = "ok" => ZoneCheck(d) = "ok"
  <1>1. /\ e.disk \in {d.disk, None} /\ e.wslSettings \in {d.wslSettings, None}
        /\ e.docker \in {d.docker, None} /\ e.zoneIdentifier \in {d.zoneIdentifier, None}
        /\ e.driveMounts \in {d.driveMounts, None} /\ e.defender \in {d.defender, None}
        /\ e.inotify \in {d.inotify, None} /\ e.portProxy \in {d.portProxy, None}
        /\ e.clock \in {d.clock, None} /\ e.dns \in {d.dns, None}
    BY FactForgotten
  <1>2. d # None /\ e # None
    BY NoneAssumption, ForgetIsMixed
  <1>3. ClockCheck(e) = "ok" => ClockCheck(d) = "ok"
    BY <1>1 DEF ClockCheck
  <1>4. DnsCheck(e) = "ok" => DnsCheck(d) = "ok"
    BY <1>1 DEF DnsCheck
  <1>5. DrivesCheck(e) = "ok" => DrivesCheck(d) = "ok"
    BY <1>1 DEF DrivesCheck
  <1>6. DefenderCheck(e) = "ok" => DefenderCheck(d) = "ok"
    <2>1. DefenderCoverage(e.defender, e.disk) = "covered" =>
            e.disk # None /\ e.disk = d.disk
      BY <1>1 DEF DefenderCoverage
    <2> QED
      BY <1>1, <2>1 DEF DefenderCheck, DefenderCoverage
  <1>7. InotifyCheck(e) = "ok" => InotifyCheck(d) = "ok"
    BY <1>1 DEF InotifyCheck, WatchesAreLow
  <1>8. DiskImageCheck(e) = "ok" => DiskImageCheck(d) = "ok"
    BY <1>1 DEF DiskImageCheck
  <1>9. DockerCheck(e) = "ok" => DockerCheck(d) = "ok"
    BY <1>1, <1>2 DEF DockerCheck, DockerStatus, OrNull
  <1>10. ForwardingCheck(e) = "ok" => ForwardingCheck(d) = "ok"
    BY <1>1 DEF ForwardingCheck
  <1>11. ZoneCheck(e) = "ok" => ZoneCheck(d) = "ok"
    BY <1>1 DEF ZoneCheck
  <1> QED
    BY <1>3, <1>4, <1>5, <1>6, <1>7, <1>8, <1>9, <1>10, <1>11

\* So does one that judges a list.
LEMMA ListChecks ==
  ASSUME NEW s, NEW t, s.dash \in DashboardSnapshot, NEW k \in SectionIds,
         t.dash = Forget(s.dash, k), t.warnings = s.warnings
  PROVE  /\ HeadroomCheck(t.dash) = "ok" => HeadroomCheck(s.dash) = "ok"
         /\ BinariesCheck(t.dash) = "ok" => BinariesCheck(s.dash) = "ok"
         /\ ServicesCheck(t) = "ok" => ServicesCheck(s) = "ok"
  <1> DEFINE d == s.dash  e == t.dash
  <1>1. d \in DashboardSnapshot /\ e = Forget(d, k)
    OBVIOUS
  <1> HIDE DEF d, e
  <1>2. /\ e.system = d.system \/ e.system.systemdEnabled = None
        /\ e.resources = d.resources \/ e.resources.disks = <<>>
        /\ \/ e.tools = d.tools /\ e.toolsCollectionStatus = d.toolsCollectionStatus
           \/ e.toolsCollectionStatus = "pending"
        /\ \/ e.services = d.services /\ e.servicesCollected = d.servicesCollected
           \/ e.servicesCollected = FALSE
    BY <1>1, ListForgotten
  <1>3. d # None /\ e # None
    BY <1>1, NoneAssumption, ForgetIsMixed
  <1>4. HeadroomCheck(e) = "ok" => HeadroomCheck(d) = "ok"
    <2>1. ASSUME e.resources.disks = <<>>
          PROVE  HeadroomCheck(e) = "unknown"
      <3>1. Range(e.resources.disks) = {}
        BY <2>1 DEF Range
      <3> QED
        BY <3>1 DEF HeadroomCheck
    <2>2. ASSUME e.resources = d.resources
          PROVE  HeadroomCheck(e) = HeadroomCheck(d)
      BY <2>2 DEF HeadroomCheck
    <2> QED
      BY <1>2, <2>1, <2>2
  <1>5. BinariesCheck(e) = "ok" => BinariesCheck(d) = "ok"
    BY <1>2, <1>3 DEF BinariesCheck, ToolsKnown, CollectionSucceeded
  <1>6. ServicesCheck(t) = "ok" => ServicesCheck(s) = "ok"
    BY <1>2 DEF ServicesCheck, d, e
  <1> QED
    BY <1>4, <1>5, <1>6 DEF d, e

\* A check of the settings is made only when they were read, and then it is the same.
LEMMA WslChecks ==
  ASSUME NEW d \in DashboardSnapshot, NEW k \in SectionIds, NEW e, e = Forget(d, k), NEW c,
         c \in WslCheckIds(e.wslSettings), WslCheck(e.wslSettings, c) = "ok"
  PROVE  e.wslSettings = d.wslSettings
  <1>1. e.wslSettings \in {d.wslSettings, None}
    BY FactForgotten
  <1>2. CASE e.wslSettings = None
    BY <1>2 DEF WslCheckIds, WslCheck
  <1> QED
    BY <1>1, <1>2

\* Of two snapshots that differ in one section forgotten, the poorer passes no check of
\* the doctor that the richer does not pass.
LEMMA ForgettingPassesNothing ==
  ASSUME NEW s, NEW t, s.dash \in DashboardSnapshot, NEW k \in SectionIds,
         t.dash = Forget(s.dash, k), t.warnings = s.warnings, t.selected = s.selected,
         t.distros = s.distros, t.answering = s.answering, t.mcp = s.mcp,
         NEW c \in DOMAIN Checks(t) \ {"cwd-boundary"}, Checks(t)[c] = "ok"
  PROVE  c \in DOMAIN Checks(s) /\ Checks(s)[c] = "ok"
  <1> DEFINE d == s.dash  e == t.dash
             Facts == {"clock-skew", "dns", "drive-metadata", "defender", "inotify", "disk-image",
                       "docker", "port-forwarding", "zone-identifiers"}
             Lists == {"disk-headroom", "windows-binaries", "services"}
             Others == {"distro-state", "collectors", "mcp-server"}
             Settings == {"wsl-settings", "wsl-settings-pending", "networking-mode",
                          "wsl-settings-ignored", "interop", "login-user"}
  <1>1. d \in DashboardSnapshot /\ e \in DashboardSnapshot /\ d # None /\ e # None
    BY NoneAssumption, ForgetIsMixed
  <1>2. c \in Facts \union Lists \union Others \union Settings
    BY <1>1 DEF Checks, CheckIds, WslCheckIds
  <1>3. CASE c \in Facts
    <2>1. c \in DOMAIN Checks(s)
      BY <1>1, <1>3 DEF Checks, CheckIds
    <2> QED
      BY <1>1, <1>3, <2>1, FactChecks DEF Checks
  <1>4. CASE c \in Lists
    <2>1. c \in DOMAIN Checks(s)
      BY <1>1, <1>4 DEF Checks, CheckIds
    <2> QED
      BY <1>1, <1>4, <2>1, ListChecks DEF Checks
  <1>5. CASE c \in Others
    <2>1. c \in DOMAIN Checks(s)
      BY <1>1, <1>5 DEF Checks, CheckIds
    <2> QED
      BY <1>5, <2>1 DEF Checks, DistroStateCheck, StateOf, StaleQueries, McpCheck
  <1>6. CASE c \in Settings
    <2>1. c \in WslCheckIds(e.wslSettings)
      BY <1>1, <1>6 DEF Checks, CheckIds
    <2>2. Checks(t)[c] = WslCheck(e.wslSettings, c)
      BY <1>6 DEF Checks
    <2>3. e.wslSettings = d.wslSettings
      BY <1>1, <2>1, <2>2, WslChecks
    <2>4. c \in DOMAIN Checks(s)
      BY <1>1, <2>1, <2>3 DEF Checks, CheckIds
    <2>5. Checks(s)[c] = WslCheck(d.wslSettings, c)
      BY <1>6, <2>4 DEF Checks
    <2> QED
      BY <2>2, <2>3, <2>4, <2>5
  <1> QED
    BY <1>2, <1>3, <1>4, <1>5, <1>6

-----------------------------------------------------------------------------
(* Types *)

\* The snapshot of the present fields, field by field.
LEMMA BuildFields ==
  /\ Build.selected = selected /\ Build.distros = distros /\ Build.answering = answering
  /\ Build.dash = dash /\ Build.mcp = mcp /\ Build.warnings = warnings
  BY DEF Build

\* What a query answers fits the dashboard it is put into.
LEMMA AppliedType ==
  ASSUME NEW d \in DashboardSnapshot, NEW k \in DOMAIN Readings, NEW v \in Readings[k]
  PROVE  Apply(d, k, v) \in DashboardSnapshot
  <1> DEFINE e == Apply(EmptySections, k, v)
  <1>1. e \in DashboardSnapshot
    BY ReadingsAssumption
  <1>2. DOMAIN d = FieldNames /\ DOMAIN EmptySections = FieldNames
    BY EmptyType, FieldsOfDashboard
  <1>3. Apply(d, k, v) = [f \in DOMAIN d |-> IF f \in FieldsOf(k) THEN e[f] ELSE d[f]]
    BY <1>2 DEF Apply
  <1> HIDE DEF e
  <1> QED
    BY <1>1, <1>3, MixedType

\* So does a session that has seen several answers.
LEMMA HistoryType ==
  ASSUME NEW h, DOMAIN h \subseteq DOMAIN Readings, \A k \in DOMAIN h : h[k] \in Readings[k]
  PROVE  AfterHistory(h) \in DashboardSnapshot
  <1> DEFINE d == AfterHistory(h)
             From(f) == CHOOSE k \in {k \in DOMAIN h : f \in FieldsOf(k)} : TRUE
  <1>1. DOMAIN EmptySections = FieldNames /\ DOMAIN d = FieldNames
    BY EmptyType, FieldsOfDashboard DEF AfterHistory
  <1>2. \A f \in FieldNames : d[f] = EmptySections[f] \/ \E e \in DashboardSnapshot : d[f] = e[f]
    <2> SUFFICES ASSUME NEW f \in FieldNames, {k \in DOMAIN h : f \in FieldsOf(k)} # {}
                 PROVE  \E e \in DashboardSnapshot : d[f] = e[f]
      BY <1>1 DEF AfterHistory
    <2> DEFINE k == From(f)  e == Apply(EmptySections, k, h[k])
    <2>1. k \in DOMAIN h /\ f \in FieldsOf(k)
      OBVIOUS
    <2>2. e \in DashboardSnapshot
      BY <2>1, ReadingsAssumption
    <2>3. d[f] = Filled(k, h[k], f)
      BY <1>1 DEF AfterHistory
    <2>4. e[f] = Filled(k, h[k], f)
      BY <1>1, <2>1 DEF Apply
    <2> QED
      BY <2>2, <2>3, <2>4
  <1>3. d = [f \in FieldNames |-> d[f]]
    BY <1>1 DEF AfterHistory
  <1> HIDE DEF d
  <1>4. \A f \in FieldNames : \E e \in DashboardSnapshot : d[f] = e[f]
    BY <1>2, EmptyType
  <1> QED
    BY <1>1, <1>3, <1>4, PickedType DEF d

\* What TypeOK says of the variables themselves.
LEMMA TypeParts ==
  TypeOK <=> /\ selected \in Maybe(Distros)
             /\ distros \in [Distros -> Maybe({"Running", "Stopped"})]
             /\ (dash = None) = (selected = None)
             /\ answering \in Tri
             /\ dash # None => dash \in DashboardSnapshot
             /\ current.dash # None => current.dash \in DashboardSnapshot
  BY BuildFields DEF TypeOK

\* What is published is a dashboard when what is present is one.
LEMMA PublishType ==
  ASSUME Publish, dash' # None => dash' \in DashboardSnapshot
  PROVE  current'.dash # None => current'.dash \in DashboardSnapshot
  <1>1. Build'.dash = dash'
    BY DEF Build, Fields
  <1> QED
    BY <1>1 DEF Publish

\* A view starts with every field of its kind.
LEMMA TypeInit == Init => TypeOK
  <1> SUFFICES ASSUME Init PROVE TypeOK
    OBVIOUS
  <1>1. selected \in Distros /\ selected # None
    BY DistrosAssumption, NoneAssumption DEF Init, Default
  <1>2. distros \in [Distros -> Maybe({"Running", "Stopped"})] /\ answering \in Tri
    BY DEF Init, Maybe, Tri
  <1>3. dash \in DashboardSnapshot /\ dash # None
    <2>1. PICK h \in Histories : dash = AfterHistory(h.read)
      BY DEF Init
    <2> QED
      BY <2>1, HistoryAssumption, HistoryType, NoneAssumption
  <1>4. current.dash = dash
    BY BuildFields DEF Init
  <1> QED
    BY <1>1, <1>2, <1>3, <1>4, TypeParts DEF Maybe

\* A newly selected distro starts with nothing read.
LEMMA SelectType ==
  ASSUME NEW d \in Distros, SelectInternal(d)
  PROVE  /\ selected' \in Maybe(Distros) /\ answering' \in Tri
         /\ (dash' = None) = (selected' = None)
         /\ dash' # None => dash' \in DashboardSnapshot
  BY EmptyType, NoneAssumption DEF SelectInternal, Maybe, Tri

\* Every step keeps the types.
LEMMA TypeNext == TypeOK /\ [Next]_vars => TypeOK'
  <1> SUFFICES ASSUME TypeOK, [Next]_vars PROVE TypeOK'
    OBVIOUS
  <1> DEFINE Kept == /\ selected' \in Maybe(Distros)
                     /\ distros' \in [Distros -> Maybe({"Running", "Stopped"})]
                     /\ (dash' = None) = (selected' = None)
                     /\ answering' \in Tri
                     /\ dash' # None => dash' \in DashboardSnapshot
                     /\ current'.dash # None => current'.dash \in DashboardSnapshot
  <1>1. Kept => TypeOK'
    <2>1. Build'.dash = dash'
      BY DEF Build, Fields
    <2> QED
      BY <2>1 DEF TypeOK
  <1>2. ASSUME NEW k \in DOMAIN Readings, Collected(k)
        PROVE  Kept
    <2>1. dash # None /\ dash \in DashboardSnapshot
      BY <1>2, TypeParts DEF Collected, Asked
    <2>2. dash' \in DashboardSnapshot
      BY <1>2, <2>1, AppliedType DEF Collected
    <2> QED
      BY <1>2, <2>1, <2>2, TypeParts, NoneAssumption DEF Collected
  <1>3. ASSUME NEW k \in DOMAIN Readings, CollectFailed(k)
        PROVE  Kept
    <2>1. dash # None /\ dash \in DashboardSnapshot
      BY <1>3, TypeParts DEF CollectFailed, Asked
    <2>2. [dash EXCEPT !.toolsCollectionStatus = "failed"] \in DashboardSnapshot
      BY <2>1 DEF DashboardSnapshot, CollectionStatus
    <2>3. [dash EXCEPT !.portsCollectionStatus = "failed"] \in DashboardSnapshot
      BY <2>1 DEF DashboardSnapshot, CollectionStatus
    <2>4. dash' \in DashboardSnapshot
      BY <1>3, <2>1, <2>2, <2>3 DEF CollectFailed
    <2> QED
      BY <1>3, <2>1, <2>4, TypeParts, PublishType, NoneAssumption DEF CollectFailed
  <1>4. ASSUME \/ TierEnds \/ SetTerminalContext \/ SetExplorerContext \/ SetMcpStatus
               \/ \E k \in Slow : LateFailure(k)
        PROVE  Kept
    <2>1. Publish /\ UNCHANGED <<selected, distros, dash, answering>>
      BY <1>4 DEF TierEnds, SetTerminalContext, SetExplorerContext, SetMcpStatus, LateFailure
    <2> QED
      BY <2>1, TypeParts, PublishType
  <1>5. ASSUME NEW alive \in BOOLEAN, ProbeDistro(alive)
        PROVE  Kept
    BY <1>5, TypeParts DEF ProbeDistro, Tri, Maybe
  <1>6. ASSUME SetDistro
        PROVE  Kept
    <2>1. PICK d \in Distros : SelectInternal(d)
      BY <1>6 DEF SetDistro
    <2> QED
      BY <1>6, <2>1, SelectType, TypeParts, PublishType DEF SetDistro
  <1>7. ASSUME ListDistros
        PROVE  Kept
    <2>1. PICK list \in [Distros -> {"Running", "Stopped", None}] :
            /\ distros' = list
            /\ IF selected \in {d \in Distros : list[d] # None}
               THEN UNCHANGED <<selected, dash, failures, answering, answers, overruled>>
               ELSE IF \E d \in Distros : list[d] # None
               THEN SelectInternal(CHOOSE d \in Distros : list[d] # None)
               ELSE /\ selected' = None /\ dash' = None
                    /\ UNCHANGED <<failures, answering, answers, overruled>>
      BY <1>7 DEF ListDistros
    <2>2. distros' \in [Distros -> Maybe({"Running", "Stopped"})]
      BY <2>1 DEF Maybe
    <2>3. current' = current
      BY <1>7 DEF ListDistros
    <2>4. CASE selected \in {d \in Distros : list[d] # None}
      BY <2>1, <2>2, <2>3, <2>4, TypeParts
    <2>5. CASE selected \notin {d \in Distros : list[d] # None} /\ \E d \in Distros : list[d] # None
      BY <2>1, <2>2, <2>3, <2>5, TypeParts, SelectType
    <2>6. CASE selected \notin {d \in Distros : list[d] # None} /\ ~\E d \in Distros : list[d] # None
      BY <2>1, <2>2, <2>3, <2>6, TypeParts DEF Maybe
    <2> QED
      BY <2>4, <2>5, <2>6
  <1>8. ASSUME UNCHANGED vars
        PROVE  Kept
    BY <1>8, TypeParts DEF vars
  <1>9. ASSUME NEW k \in Slow, LateAnswer(k)
        PROVE  Kept
    BY <1>9, TypeParts DEF LateAnswer
  <1> QED
    BY <1>1, <1>2, <1>3, <1>4, <1>5, <1>6, <1>7, <1>8, <1>9 DEF Next

\* The published dashboard is one of the domain model, and is there exactly while a
\* distro is selected, whatever order the answers come in.
THEOREM TypeCorrect == Spec => []TypeOK
  BY TypeInit, TypeNext, PTL DEF Spec

\* The doctor passes nothing for which a section was not read: for every dashboard of
\* the domain model, and so for every answer the queries may give.
THEOREM UnreadIsNotOk == Spec => []UnreadNeverPasses
  <1>1. TypeOK => UnreadNeverPasses
    <2> SUFFICES ASSUME TypeOK, dash # None, NEW k \in DOMAIN Readings,
                        NEW c \in DOMAIN Checks([Build EXCEPT !.dash = Forget(dash, k)])
                                \ {"cwd-boundary"},
                        Checks([Build EXCEPT !.dash = Forget(dash, k)])[c] = "ok"
                 PROVE  c \in DOMAIN Checks(Build) /\ Checks(Build)[c] = "ok"
      BY DEF UnreadNeverPasses
    <2> DEFINE t == [Build EXCEPT !.dash = Forget(dash, k)]
    <2>1. Build.dash = dash /\ dash \in DashboardSnapshot /\ k \in SectionIds
      BY BuildFields, TypeParts, ReadingsAssumption
    <2>2. /\ t.dash = Forget(Build.dash, k) /\ t.warnings = Build.warnings
          /\ t.selected = Build.selected /\ t.distros = Build.distros
          /\ t.answering = Build.answering /\ t.mcp = Build.mcp
      BY <2>1 DEF Build, Fields
    <2> HIDE DEF t
    <2> QED
      BY <2>1, <2>2, ForgettingPassesNothing DEF t
  <1> QED
    BY <1>1, TypeCorrect, PTL

-----------------------------------------------------------------------------
(* Stale queries *)

\* The beginning of a list is a list.
LEMMA StartOfList ==
  ASSUME NEW S, NEW a \in Seq(S), NEW m \in 0 .. Len(a)
  PROVE  SubSeq(a, 1, m) \in Seq(S) /\ Len(SubSeq(a, 1, m)) = m
  OBVIOUS

\* The end of a list: its items are the last ones, in their order.
LEMMA EndOfList ==
  ASSUME NEW S, NEW a \in Seq(S), NEW m \in Nat, m <= Len(a)
  PROVE  LET cut == SubSeq(a, Len(a) - m + 1, Len(a))
         IN  /\ cut \in Seq(S) /\ Len(cut) = m
             /\ \A i \in 1 .. m : cut[i] = a[i + (Len(a) - m)] /\ i + (Len(a) - m) \in DOMAIN a
             /\ IsInjective(a) => IsInjective(cut)
  <1> DEFINE cut == SubSeq(a, Len(a) - m + 1, Len(a))
  <1>1. Len(a) \in Nat /\ DOMAIN a = 1 .. Len(a)
    OBVIOUS
  <1>2. cut \in Seq(S) /\ Len(cut) = m /\ DOMAIN cut = 1 .. m
    BY <1>1
  <1>3. \A i \in 1 .. m : i + (Len(a) - m) \in DOMAIN a /\ cut[i] = a[i + (Len(a) - m)]
    BY <1>1
  <1> HIDE DEF cut
  <1>4. ASSUME IsInjective(a) PROVE IsInjective(cut)
    <2> SUFFICES ASSUME NEW i \in 1 .. m, NEW j \in 1 .. m, cut[i] = cut[j] PROVE i = j
      BY <1>2 DEF IsInjective
    <2>1. i + (Len(a) - m) = j + (Len(a) - m)
      BY <1>3, <1>4 DEF IsInjective
    <2> QED
      BY <1>1, <2>1
  <1> QED
    BY <1>2, <1>3, <1>4 DEF cut

\* A list picked from a list of distinct items, at distinct places, has distinct items.
LEMMA PickedList ==
  ASSUME NEW S, NEW a \in Seq(S), NEW places \in Seq(DOMAIN a)
  PROVE  LET picked == [i \in DOMAIN places |-> a[places[i]]]
         IN  /\ picked \in Seq(S) /\ Len(picked) = Len(places)
             /\ Range(picked) \subseteq Range(a)
             /\ IsInjective(a) /\ IsInjective(places) => IsInjective(picked)
  <1> DEFINE picked == [i \in DOMAIN places |-> a[places[i]]]
  <1>1. DOMAIN places = 1 .. Len(places) /\ Len(places) \in Nat
    OBVIOUS
  <1>2. \A i \in DOMAIN places : places[i] \in DOMAIN a /\ a[places[i]] \in S
    BY <1>1
  <1>3. picked \in Seq(S) /\ Len(picked) = Len(places)
    BY <1>1, <1>2
  <1>4. Range(picked) \subseteq Range(a)
    BY <1>2 DEF Range
  <1>5. ASSUME IsInjective(a), IsInjective(places) PROVE IsInjective(picked)
    <2> SUFFICES ASSUME NEW i \in DOMAIN places, NEW j \in DOMAIN places,
                        a[places[i]] = a[places[j]]
                 PROVE  i = j
      BY DEF IsInjective
    <2>1. places[i] = places[j]
      BY <1>2, <1>5 DEF IsInjective
    <2> QED
      BY <2>1, <1>5 DEF IsInjective
  <1> QED
    BY <1>3, <1>4, <1>5

\* The last failures of a list without doubles: failures of the list, and as many as the
\* cap lets through.
LEMMA LastOfDistinct ==
  ASSUME NEW queries, IsList(queries), IsInjective(queries)
  PROVE  LET last == LastFailures(queries)
         IN  /\ IsList(last)
             /\ Range(last) \subseteq Range(queries)
             /\ Cardinality(Range(last)) = Min({Len(queries), MaxRunnerWarnings})
  <1> DEFINE index == [i \in DOMAIN queries |-> i]
             Distinct(i) == \A j \in i + 1 .. Len(queries) : queries[j] # queries[i]
             places == {i \in DOMAIN index : Distinct(index[i])}
             all == ItemsAt(index, places)
             first == Max({1, Len(all) - MaxRunnerWarnings + 1})
             cut == SubSeq(all, first, Len(all))
             last == [i \in DOMAIN cut |-> queries[cut[i]]]
  <1>0. LastFailures(queries) = last
    BY DEF LastFailures, Where
  <1>1. /\ Len(queries) \in Nat /\ DOMAIN queries = 1 .. Len(queries)
        /\ queries \in Seq(Range(queries))
    BY DEF IsList
  <1>2. index \in Seq(DOMAIN queries) /\ Len(index) = Len(queries) /\ IsInjective(index)
    BY <1>1 DEF IsInjective
  <1>3. places = DOMAIN queries
    <2>1. \A i \in DOMAIN queries : Distinct(i)
      BY <1>1 DEF IsInjective
    <2> QED
      BY <2>1
  <1> HIDE DEF places
  <1>4. Cardinality(places) = Len(queries)
    BY <1>1, <1>3, FS_Interval
  <1>5. places \in SUBSET DOMAIN index
    BY <1>3
  <1> HIDE DEF index
  <1>6. all \in Seq(DOMAIN queries) /\ Len(all) = Len(queries) /\ IsInjective(all)
    BY <1>2, <1>4, <1>5, ItemsAtPlaces
  <1> HIDE DEF all
  <1> DEFINE m == IF Len(queries) >= 3 THEN 3 ELSE Len(queries)
  <1>7. m \in Nat /\ m <= Len(all) /\ m = Min({Len(queries), MaxRunnerWarnings})
    BY <1>1, <1>6, MinOf DEF MaxRunnerWarnings
  <1>8. first = Len(all) - m + 1
    <2>1. first = IF 1 >= Len(all) - 2 THEN 1 ELSE Len(all) - 2
      <3>1. Len(all) - MaxRunnerWarnings + 1 = Len(all) - 2 /\ Len(all) - 2 \in Int
        BY <1>1, <1>6 DEF MaxRunnerWarnings
      <3> QED
        BY <3>1, MaxOf
    <2>2. Len(all) \in Nat /\ Len(all) = Len(queries)
      BY <1>1, <1>6
    <2> HIDE DEF first
    <2>3. CASE Len(queries) >= 3
      <3>1. m = 3
        BY <2>3
      <3> QED
        BY <2>1, <2>2, <2>3, <3>1
    <2>4. CASE ~(Len(queries) >= 3)
      <3>1. m = Len(queries)
        BY <2>4
      <3> QED
        BY <2>1, <2>2, <2>4, <3>1
    <2> QED
      BY <2>3, <2>4
  <1> HIDE DEF first, m
  <1>9. cut \in Seq(DOMAIN queries) /\ Len(cut) = m /\ IsInjective(cut)
    BY <1>6, <1>7, <1>8, EndOfList
  <1> HIDE DEF cut
  <1>10. /\ last \in Seq(Range(queries)) /\ Len(last) = m /\ IsInjective(last)
         /\ Range(last) \subseteq Range(queries)
    <2>1. queries \in Seq(Range(queries)) /\ cut \in Seq(DOMAIN queries) /\ IsInjective(cut)
      BY <1>1, <1>9
    <2>2. /\ last \in Seq(Range(queries)) /\ Len(last) = Len(cut)
          /\ Range(last) \subseteq Range(queries)
          /\ IsInjective(queries) /\ IsInjective(cut) => IsInjective(last)
      BY <2>1, PickedList
    <2> QED
      BY <1>9, <2>1, <2>2
  <1> HIDE DEF last
  <1>11. IsList(last)
    BY <1>10, ListOf
  <1>12. Cardinality(Range(last)) = m
    BY <1>10, <1>11, DistinctItems
  <1> QED
    BY <1>0, <1>7, <1>10, <1>11, <1>12

\* A list of warnings none of which names a failed query.
Quiet(a) == IsList(a) /\ \A w \in Range(a) : w.id # "runner-failed"

\* A warning of another rule says nothing of the failed queries.
LEMMA WarnQuiet ==
  ASSUME NEW when, NEW id, id # "runner-failed", NEW of
  PROVE  Quiet(Warn(when, id, of))
  <1> DEFINE w == [id |-> id, of |-> of]
  <1>1. w.id = id
    OBVIOUS
  <1> HIDE DEF w
  <1>2. <<w>> \in Seq({w}) /\ <<>> \in Seq({w})
    OBVIOUS
  <1>3. /\ IsList(<<w>>) /\ Range(<<w>>) \subseteq {w}
        /\ IsList(<<>>) /\ Range(<<>>) = {}
    <2>1. Range(<<>>) = {}
      BY DEF Range
    <2> QED
      BY <1>2, <2>1, ListOf
  <1>4. Quiet(<<w>>) /\ Quiet(<<>>)
    BY <1>1, <1>3 DEF Quiet
  <1> QED
    BY <1>4 DEF Warn, w

\* Nor does another rule that warns of each of some items.
LEMMA EachQuiet ==
  ASSUME NEW S, NEW items \in Seq(S), NEW id, id # "runner-failed", NEW a,
         a = [i \in DOMAIN items |-> a[i]], \A i \in DOMAIN items : a[i].id = id
  PROVE  Quiet(a)
  <1> DEFINE T == {a[i] : i \in DOMAIN items}
  <1>1. DOMAIN items = 1 .. Len(items) /\ Len(items) \in Nat
    OBVIOUS
  <1>2. a \in Seq(T)
    BY <1>1
  <1>3. Range(a) \subseteq T /\ IsList(a)
    BY <1>2, ListOf
  <1> QED
    BY <1>3 DEF Quiet

\* Nor do two lists of warnings that do not.
LEMMA ConcatQuiet ==
  ASSUME NEW a, NEW b, Quiet(a), Quiet(b)
  PROVE  Quiet(a \o b)
  BY ConcatList DEF Quiet

\* The ports two processes listen on are a list.
LEMMA ConflictsAreListed ==
  ASSUME NEW d \in DashboardSnapshot
  PROVE  \E S : Conflicts(d) \in Seq(S)
  <1> DEFINE Held(p) == p.listening /\ p.pid # None
             ports == {p.port : p \in {q \in Range(d.ports) : Held(q)}}
             Pids(n) == {p.pid : p \in {q \in Range(d.ports) : Held(q) /\ q.port = n}}
             twice == {n \in ports : Cardinality(Pids(n)) > 1}
             places == {i \in DOMAIN d.ports : Held(d.ports[i])}
             port == [i \in places |-> d.ports[i].port]
  <1>1. d.ports \in Seq(PortInfo)
    BY DEF DashboardSnapshot
  <1>2. IsFiniteSet(DOMAIN d.ports)
    BY <1>1, FS_Interval
  <1>3. IsFiniteSet(places)
    BY <1>2, FS_Subset
  <1>4. port \in Surjection(places, ports)
    BY DEF Surjection, Range
  <1>5. IsFiniteSet(ports)
    <2> HIDE DEF places, ports, port
    <2> QED
      BY <1>3, <1>4, FS_Surjection
  <1>6. IsFiniteSet(twice)
    <2>1. twice \subseteq ports
      OBVIOUS
    <2> HIDE DEF ports, twice
    <2> QED
      BY <1>5, <2>1, FS_Subset
  <1>7. Conflicts(d) = SetToSeq(twice)
    BY DEF Conflicts
  <1> HIDE DEF twice
  <1>8. Cardinality(twice) \in Nat
    BY <1>6, FS_CardinalityType
  <1>9. \E f \in [1 .. Cardinality(twice) -> twice] : IsInjective(f)
    <2>1. PICK n \in Nat : ExistsBijection(1 .. n, twice)
      BY <1>6, FS_NatBijection
    <2>2. n = Cardinality(twice)
      BY <1>6, <2>1, FS_CountingElements
    <2>3. PICK f : f \in Bijection(1 .. n, twice)
      BY <2>1 DEF ExistsBijection
    <2> QED
      BY <2>2, <2>3 DEF Bijection, Injection, IsInjective
  <1>10. SetToSeq(twice) \in [1 .. Cardinality(twice) -> twice]
    BY <1>9 DEF SetToSeq
  <1>11. SetToSeq(twice) \in Seq(twice)
    BY <1>8, <1>10
  <1> QED
    BY <1>7, <1>11

\* What a dashboard is warned of is never that a query failed.
LEMMA DashboardQuiet ==
  ASSUME NEW d \in DashboardSnapshot, NEW running
  PROVE  Quiet(DashboardWarnings(d, running))
  <1> DEFINE Low(v) == v.exists /\ v.usePercent # None /\ v.usePercent >= 90
             skew == IF d.clock = None THEN None ELSE d.clock.skewSeconds
             crossing == Where(d.paths, LAMBDA p : p.exists # FALSE /\ IsCrossBoundary(p.side))
                         \o Where(d.tools, LAMBDA t : t.installed /\ IsCrossBoundary(t.side))
             a1 == Warn(d.system.systemdEnabled = FALSE, "systemd-disabled", None)
             a2 == Warn(running /\ d.system.user # None /\ d.system.home = None,
                        "home-inaccessible", None)
             a3 == IF running /\ skew # None
                   THEN Warn(Abs(skew) >= ClockSkewWarning, "clock-skew", None) ELSE <<>>
             a4 == WarnEach(Where(d.resources.disks, Low), LAMBDA v : v.mountPoint, "disk-low")
             a5 == IF d.hermes = None THEN <<>>
                   ELSE Warn(d.hermes.executablePath # None /\ d.hermes.dataDir = None,
                             "hermes-no-config", None)
                        \o Warn(d.hermes.dataDir # None /\ d.hermes.executablePath = None,
                                "hermes-no-exec", None)
             a6 == WarnEach(Where(d.services, Failed), LAMBDA v : v.name, "service-failed")
             a7 == WarnEach(Conflicts(d), LAMBDA n : n, "port-conflict")
             a8 == Warn(crossing # <<>>, "cross-boundary-paths", None)
  <1>0. DashboardWarnings(d, running) = a1 \o a2 \o a3 \o a4 \o a5 \o a6 \o a7 \o a8
    BY DEF DashboardWarnings
  <1>1. Quiet(<<>>)
    <2>1. Warn(FALSE, "any", None) = <<>>
      BY DEF Warn
    <2> QED
      BY <2>1, WarnQuiet
  <1>2. Quiet(a1) /\ Quiet(a2) /\ Quiet(a8)
    BY WarnQuiet
  <1>3. Quiet(a3)
    BY WarnQuiet, <1>1
  <1>4. Quiet(a4)
    <2> DEFINE items == Where(d.resources.disks, Low)
    <2>1. d.resources.disks \in Seq(DiskUsage)
      BY DEF DashboardSnapshot, ResourceInfo
    <2>2. items \in Seq(DiskUsage)
      BY <2>1, ItemsAtPlaces DEF Where
    <2> HIDE DEF items
    <2>3. /\ a4 = [i \in DOMAIN items |-> a4[i]]
          /\ \A i \in DOMAIN items : a4[i].id = "disk-low"
      BY DEF WarnEach, items
    <2> HIDE DEF a4
    <2> QED
      BY <2>2, <2>3, EachQuiet
  <1>5. Quiet(a5)
    <2>1. Quiet(Warn(d.hermes.executablePath # None /\ d.hermes.dataDir = None,
                     "hermes-no-config", None))
      BY WarnQuiet
    <2>2. Quiet(Warn(d.hermes.dataDir # None /\ d.hermes.executablePath = None,
                     "hermes-no-exec", None))
      BY WarnQuiet
    <2> QED
      BY <1>1, <2>1, <2>2, ConcatQuiet
  <1>6. Quiet(a6)
    <2> DEFINE items == Where(d.services, Failed)
    <2>1. d.services \in Seq(ServiceInfo)
      BY DEF DashboardSnapshot
    <2>2. items \in Seq(ServiceInfo)
      BY <2>1, ItemsAtPlaces DEF Where
    <2> HIDE DEF items
    <2>3. /\ a6 = [i \in DOMAIN items |-> a6[i]]
          /\ \A i \in DOMAIN items : a6[i].id = "service-failed"
      BY DEF WarnEach, items
    <2> HIDE DEF a6
    <2> QED
      BY <2>2, <2>3, EachQuiet
  <1>7. Quiet(a7)
    <2>1. PICK S : Conflicts(d) \in Seq(S)
      BY ConflictsAreListed
    <2>2. /\ a7 = [i \in DOMAIN Conflicts(d) |-> a7[i]]
          /\ \A i \in DOMAIN Conflicts(d) : a7[i].id = "port-conflict"
      BY DEF WarnEach
    <2> HIDE DEF a7
    <2> QED
      BY <2>1, <2>2, EachQuiet
  <1> HIDE DEF a1, a2, a3, a4, a5, a6, a7, a8
  <1>8. Quiet(a1 \o a2 \o a3 \o a4)
    <2>1. Quiet(a1 \o a2)
      BY <1>2, ConcatQuiet
    <2>2. Quiet((a1 \o a2) \o a3)
      BY <1>3, <2>1, ConcatQuiet
    <2> QED
      BY <1>4, <2>2, ConcatQuiet
  <1>9. Quiet(a1 \o a2 \o a3 \o a4 \o a5 \o a6)
    <2>1. Quiet(a1 \o a2 \o a3 \o a4 \o a5)
      BY <1>5, <1>8, ConcatQuiet
    <2> QED
      BY <1>6, <2>1, ConcatQuiet
  <1>10. Quiet(a1 \o a2 \o a3 \o a4 \o a5 \o a6 \o a7)
    BY <1>7, <1>9, ConcatQuiet
  <1>11. Quiet(a1 \o a2 \o a3 \o a4 \o a5 \o a6 \o a7 \o a8)
    BY <1>2, <1>10, ConcatQuiet
  <1> QED
    BY <1>0, <1>11

\* The warnings computed for a snapshot and a list of failures name the last of them.
LEMMA WarnedQueries ==
  ASSUME NEW s, s.dash # None => s.dash \in DashboardSnapshot,
         NEW queries, IsList(LastFailures(queries))
  PROVE  LET warned == RecomputeWarnings(s, queries)
         IN  {w.of : w \in {w \in Range(warned) : w.id = "runner-failed"}}
               = Range(LastFailures(queries))
  <1> DEFINE last == LastFailures(queries)
             a1 == Warn(StateOf(s) = "Stopped", "distro-stopped", None)
             a2 == IF s.dash = None THEN <<>>
                   ELSE DashboardWarnings(s.dash, StateOf(s) = "Running")
             a3 == Warn(IsCrossBoundary(ClassifyPathSide(s.cwd, "/mnt/")),
                        "console-cwd-cross-boundary", None)
             a4 == WarnEach(last, LAMBDA c : c, "runner-failed")
             a5 == Warn(s.mcp.error # None, "mcp-start-failed", None)
             a6 == Warn(s.selected # None /\ s.answering = FALSE, "distro-unresponsive", None)
             warned == (a1 \o a2 \o a3 \o a4 \o a5) \o a6
  <1>0. RecomputeWarnings(s, queries) = warned
    BY DEF RecomputeWarnings, ComputeWarnings
  <1>1. Quiet(a1) /\ Quiet(a3) /\ Quiet(a5) /\ Quiet(a6)
    BY WarnQuiet
  <1>2. Quiet(a2)
    <2>1. Quiet(<<>>)
      <3>1. Warn(FALSE, "any", None) = <<>>
        BY DEF Warn
      <3> QED
        BY <3>1, WarnQuiet
    <2> QED
      BY <2>1, DashboardQuiet
  <1>3. IsList(a4) /\ Range(a4) = {[id |-> "runner-failed", of |-> c] : c \in Range(last)}
    <2> HIDE DEF last
    <2> DEFINE T == {[id |-> "runner-failed", of |-> c] : c \in Range(last)}
    <2>1. DOMAIN last = 1 .. Len(last) /\ Len(last) \in Nat /\ last \in Seq(Range(last))
      BY DEF IsList, last
    <2>2. a4 = [i \in DOMAIN last |-> [id |-> "runner-failed", of |-> last[i]]]
      BY DEF WarnEach
    <2>3. \A i \in DOMAIN last : last[i] \in Range(last)
      BY DEF Range
    <2> HIDE DEF a4
    <2>4. a4 \in Seq(T)
      BY <2>1, <2>2, <2>3
    <2>5. T \subseteq Range(a4)
      BY <2>2 DEF Range
    <2> QED
      BY <2>4, <2>5, ListOf
  <1> HIDE DEF a1, a2, a3, a4, a5, a6
  <1>4. Quiet(a1 \o a2 \o a3)
    <2>1. Quiet(a1 \o a2)
      BY <1>1, <1>2, ConcatQuiet
    <2> QED
      BY <1>1, <2>1, ConcatQuiet
  <1>5. Range(warned) = Range(a1 \o a2 \o a3) \union Range(a4) \union Range(a5) \union Range(a6)
    <2> DEFINE b == a1 \o a2 \o a3
    <2>1. IsList(b) /\ IsList(a4) /\ IsList(a5) /\ IsList(a6)
      BY <1>1, <1>3, <1>4 DEF Quiet
    <2> HIDE DEF b
    <2>2. IsList(b \o a4) /\ Range(b \o a4) = Range(b) \union Range(a4)
      BY <2>1, ConcatList
    <2>3. IsList(b \o a4 \o a5) /\ Range(b \o a4 \o a5) = Range(b \o a4) \union Range(a5)
      BY <2>1, <2>2, ConcatList
    <2>4. Range(b \o a4 \o a5 \o a6) = Range(b \o a4 \o a5) \union Range(a6)
      BY <2>1, <2>3, ConcatList
    <2> QED
      BY <2>2, <2>3, <2>4 DEF b
  <1> HIDE DEF warned, last
  <1>6. \A w \in Range(a1 \o a2 \o a3) \union Range(a5) \union Range(a6) : w.id # "runner-failed"
    BY <1>1, <1>4 DEF Quiet
  <1>7. {w \in Range(warned) : w.id = "runner-failed"} = Range(a4)
    <2>1. \A w \in Range(a4) : w.id = "runner-failed"
      BY <1>3
    <2> QED
      BY <2>1, <1>5, <1>6
  <1>8. {w.of : w \in Range(a4)} = Range(last)
    <2>1. \A w \in Range(a4) : w.of \in Range(last)
      BY <1>3
    <2>2. ASSUME NEW c \in Range(last) PROVE c \in {w.of : w \in Range(a4)}
      <3>1. [id |-> "runner-failed", of |-> c] \in Range(a4)
        BY <1>3
      <3> QED
        BY <3>1
    <2> QED
      BY <2>1, <2>2
  <1> QED
    BY <1>0, <1>7, <1>8 DEF last

\* The queries that failed last.
FailedLast == {k \in DOMAIN answers : answers[k] = "failed"}

\* The remembered failures are queries, each once: the ones that failed last, but for what
\* a query of another selection said or what fell out of the list.
FailuresInv ==
  /\ answers \in [DOMAIN Readings -> {None, "answered", "failed"}]
  /\ failures \in Seq(DOMAIN Readings) /\ IsInjective(failures)
  /\ Range(failures) \ overruled = FailedLast \ overruled

\* The start: the remembered queries are the ones that failed last.
LEMMA FailuresInit == Init => FailuresInv
  <1> SUFFICES ASSUME Init PROVE FailuresInv
    OBVIOUS
  <1>1. PICK h \in Histories :
          /\ failures = h.failed
          /\ answers = [k \in DOMAIN Readings |->
                          IF k \in Range(h.failed) THEN "failed"
                          ELSE IF k \in DOMAIN h.read THEN "answered" ELSE None]
    BY DEF Init
  <1> DEFINE f == h.failed
  <1>2. f \in Seq(DOMAIN Readings) /\ IsInjective(f) /\ Range(f) \subseteq DOMAIN Readings
    BY HistoryAssumption, ListOf
  <1> QED
    BY <1>1, <1>2, NoneAssumption DEF FailuresInv, FailedLast

\* The list without one query: what is left, in its order.
LEMMA Without ==
  ASSUME NEW S, NEW a \in Seq(S), IsInjective(a), NEW k
  PROVE  LET rest == AllBut(a, k)
         IN  rest \in Seq(S) /\ IsInjective(rest) /\ Range(rest) = Range(a) \ {k}
  <1> DEFINE places == {i \in DOMAIN a : a[i] # k}
             rest == ItemsAt(a, places)
  <1>1. rest \in Seq(S) /\ IsInjective(rest) /\ Range(rest) = {a[i] : i \in places}
    BY ItemsAtPlaces
  <1>2. {a[i] : i \in places} = Range(a) \ {k}
    BY DEF Range
  <1>3. AllBut(a, k) = rest
    BY DEF AllBut, Where
  <1> QED
    BY <1>1, <1>2, <1>3

\* A failure is noted as the last one, and nothing comes in with it.
LEMMA Noted ==
  ASSUME NEW S, NEW a \in Seq(S), IsInjective(a), NEW k \in S
  PROVE  /\ NoteRunnerFailure(a, k) \in Seq(S) /\ IsInjective(NoteRunnerFailure(a, k))
         /\ Range(NoteRunnerFailure(a, k)) \subseteq Range(a) \union {k}
         /\ k \in Range(NoteRunnerFailure(a, k))
  <1> DEFINE rest == AllBut(a, k)
             all == Append(rest, k)
             first == Max({1, Len(all) - MaxTrackedRunnerFailures + 1})
             m == Len(all) - first + 1
  <1>1. rest \in Seq(S) /\ IsInjective(rest) /\ Range(rest) = Range(a) \ {k}
    BY Without
  <1>2. NoteRunnerFailure(a, k) = SubSeq(all, first, Len(all))
    BY DEF NoteRunnerFailure
  <1> HIDE DEF rest
  <1>3. DOMAIN rest = 1 .. Len(rest) /\ Len(rest) \in Nat
    BY <1>1
  <1>4. /\ all \in Seq(S) /\ Len(all) = Len(rest) + 1 /\ DOMAIN all = 1 .. Len(rest) + 1
        /\ all[Len(rest) + 1] = k /\ \A i \in DOMAIN rest : all[i] = rest[i]
    BY <1>1, <1>3
  <1> HIDE DEF all
  <1>5. \A i \in DOMAIN rest : rest[i] \in Range(a) /\ rest[i] # k
    BY <1>1 DEF Range
  <1>6. \A i \in DOMAIN all : all[i] \in Range(a) \union {k}
    BY <1>3, <1>4, <1>5
  <1>7. IsInjective(all)
    <2> SUFFICES ASSUME NEW i \in DOMAIN all, NEW j \in DOMAIN all, all[i] = all[j]
                 PROVE  i = j
      BY DEF IsInjective
    <2>1. CASE i \in DOMAIN rest /\ j \in DOMAIN rest
      BY <1>1, <1>4, <2>1 DEF IsInjective
    <2>2. \A n \in DOMAIN rest : all[n] # k
      BY <1>4, <1>5
    <2>3. CASE i \notin DOMAIN rest \/ j \notin DOMAIN rest
      BY <1>3, <1>4, <2>2, <2>3
    <2> QED
      BY <2>1, <2>3
  <1>8. first \in 1 .. Len(all)
    <2>1. Len(all) \in Nat /\ Len(all) >= 1
      BY <1>3, <1>4
    <2>2. Len(all) - MaxTrackedRunnerFailures + 1 \in Int
          /\ Len(all) - MaxTrackedRunnerFailures + 1 <= Len(all)
      BY <2>1 DEF MaxTrackedRunnerFailures
    <2> QED
      BY <2>1, <2>2, MaxOf
  <1> HIDE DEF first
  <1>9. m \in Nat /\ m >= 1 /\ m <= Len(all) /\ first = Len(all) - m + 1 /\ Len(all) \in Nat
    BY <1>4, <1>8
  <1> HIDE DEF m
  <1> DEFINE cut == SubSeq(all, Len(all) - m + 1, Len(all))
  <1>10. /\ cut \in Seq(S) /\ Len(cut) = m /\ IsInjective(cut)
         /\ \A i \in 1 .. m : cut[i] = all[i + (Len(all) - m)] /\ i + (Len(all) - m) \in DOMAIN all
    BY <1>4, <1>7, <1>9, EndOfList
  <1>11. NoteRunnerFailure(a, k) = cut
    BY <1>2, <1>9
  <1> HIDE DEF cut
  <1>12. DOMAIN cut = 1 .. m
    BY <1>10
  <1>13. Range(cut) \subseteq Range(a) \union {k}
    <2> SUFFICES ASSUME NEW i \in 1 .. m PROVE cut[i] \in Range(a) \union {k}
      BY <1>12 DEF Range
    <2> QED
      BY <1>6, <1>10
  <1>14. k \in Range(cut)
    <2>1. m \in 1 .. m /\ m + (Len(all) - m) = Len(all)
      BY <1>9
    <2>2. cut[m] = k
      BY <1>4, <1>10, <2>1
    <2> QED
      BY <1>12, <2>1, <2>2 DEF Range
  <1> QED
    BY <1>10, <1>11, <1>13, <1>14

\* Selecting a distro forgets the failures with the answers.
LEMMA SelectForgets ==
  ASSUME NEW d, SelectInternal(d)
  PROVE  FailuresInv'
  <1>1. failures' = <<>> /\ overruled' = {} /\ answers' = [k \in DOMAIN Readings |-> None]
    BY DEF SelectInternal, NoAnswers
  <1>2. <<>> \in Seq(DOMAIN Readings) /\ IsInjective(<<>>) /\ Range(<<>>) = {}
    BY DEF IsInjective, Range
  <1> QED
    BY <1>1, <1>2, NoneAssumption DEF FailuresInv, FailedLast

\* Every step keeps them so, in whatever order queries fail and recover.
LEMMA FailuresNext == FailuresInv /\ [Next]_vars => FailuresInv'
  <1> SUFFICES ASSUME FailuresInv, [Next]_vars PROVE FailuresInv'
    OBVIOUS
  <1>0. Slow \subseteq DOMAIN Readings
    BY SlowAssumption
  <1>1. ASSUME NEW k \in DOMAIN Readings, Collected(k)
        PROVE  FailuresInv'
    <2>1. /\ failures' = AllBut(failures, k) /\ overruled' = overruled \ {k}
          /\ answers' = [answers EXCEPT ![k] = "answered"]
      BY <1>1 DEF Collected
    <2>2. /\ failures' \in Seq(DOMAIN Readings) /\ IsInjective(failures')
          /\ Range(failures') = Range(failures) \ {k}
      BY <2>1, Without DEF FailuresInv
    <2>3. FailedLast' = FailedLast \ {k}
      BY <2>1 DEF FailuresInv, FailedLast
    <2> QED
      BY <2>1, <2>2, <2>3 DEF FailuresInv
  <1>2. ASSUME NEW k \in DOMAIN Readings, CollectFailed(k)
        PROVE  FailuresInv'
    <2>1. /\ failures' = NoteRunnerFailure(failures, k)
          /\ overruled' = (overruled \ {k}) \union (Range(failures) \ Range(failures'))
          /\ answers' = [answers EXCEPT ![k] = "failed"]
      BY <1>2 DEF CollectFailed, Note
    <2>2. FailedLast' = FailedLast \union {k}
      BY <2>1 DEF FailuresInv, FailedLast
    <2>3. /\ failures' \in Seq(DOMAIN Readings) /\ IsInjective(failures')
          /\ Range(failures') \subseteq Range(failures) \union {k} /\ k \in Range(failures')
      BY <2>1, Noted DEF FailuresInv
    <2>4. Range(failures') \ overruled' = FailedLast' \ overruled'
      BY <2>1, <2>2, <2>3 DEF FailuresInv
    <2> QED
      BY <2>1, <2>3, <2>4 DEF FailuresInv
  <1>3. ASSUME UNCHANGED <<failures, answers, overruled>>
        PROVE  FailuresInv'
    BY <1>3 DEF FailuresInv, FailedLast
  <1>4. ASSUME TierEnds \/ SetTerminalContext \/ SetExplorerContext \/ SetMcpStatus
               \/ \E alive \in BOOLEAN : ProbeDistro(alive)
        PROVE  FailuresInv'
    BY <1>3, <1>4 DEF TierEnds, SetTerminalContext, SetExplorerContext, SetMcpStatus, ProbeDistro
  <1>5. ASSUME SetDistro PROVE FailuresInv'
    BY <1>5, SelectForgets DEF SetDistro
  <1>6. ASSUME ListDistros PROVE FailuresInv'
    BY <1>3, <1>6, SelectForgets DEF ListDistros
  <1>7. ASSUME UNCHANGED vars PROVE FailuresInv'
    BY <1>3, <1>7 DEF vars
  <1>8. ASSUME NEW k \in Slow, LateAnswer(k)
        PROVE  FailuresInv'
    <2>1. /\ failures' = AllBut(failures, k) /\ overruled' = overruled \union {k}
          /\ UNCHANGED answers
      BY <1>8 DEF LateAnswer
    <2>2. /\ failures' \in Seq(DOMAIN Readings) /\ IsInjective(failures')
          /\ Range(failures') = Range(failures) \ {k}
      BY <2>1, Without DEF FailuresInv
    <2> QED
      BY <2>1, <2>2 DEF FailuresInv, FailedLast
  <1>9. ASSUME NEW k \in Slow, LateFailure(k)
        PROVE  FailuresInv'
    <2>1. /\ failures' = NoteRunnerFailure(failures, k)
          /\ overruled' = (overruled \union {k}) \union (Range(failures) \ Range(failures'))
          /\ UNCHANGED answers
      BY <1>9 DEF LateFailure, Note
    <2>2. FailedLast' = FailedLast
      BY <2>1 DEF FailedLast
    <2>3. /\ failures' \in Seq(DOMAIN Readings) /\ IsInjective(failures')
          /\ Range(failures') \subseteq Range(failures) \union {k}
      BY <1>0, <2>1, Noted DEF FailuresInv
    <2>4. Range(failures') \ overruled' = FailedLast' \ overruled'
      BY <2>1, <2>2, <2>3 DEF FailuresInv
    <2> QED
      BY <2>1, <2>3, <2>4 DEF FailuresInv
  <1> QED
    BY <1>1, <1>2, <1>4, <1>5, <1>6, <1>7, <1>8, <1>9 DEF Next

\* The queries the warnings name are the last failures remembered.
LEMMA NamedQueries ==
  ASSUME TypeOK, FailuresInv, warnings = RecomputeWarnings(Fields, failures)
  PROVE  /\ StaleQueries(Build) \ overruled \subseteq FailedLast
         /\ Cardinality(StaleQueries(Build)) <= MaxRunnerWarnings
         /\ Cardinality(StaleQueries(Build))
              >= Min({Cardinality(FailedLast \ overruled), MaxRunnerWarnings})
  <1> DEFINE sure == FailedLast \ overruled
  <1>1. IsList(failures) /\ IsInjective(failures) /\ Range(failures) \ overruled = sure
    BY ListOf DEF FailuresInv
  <1>2. /\ IsList(LastFailures(failures))
        /\ Range(LastFailures(failures)) \subseteq Range(failures)
        /\ Cardinality(Range(LastFailures(failures))) = Min({Len(failures), MaxRunnerWarnings})
    BY <1>1, LastOfDistinct
  <1>3. Cardinality(Range(failures)) = Len(failures) /\ Len(failures) \in Nat
    BY <1>1, DistinctItems DEF IsList
  <1>4. Fields.dash # None => Fields.dash \in DashboardSnapshot
    BY TypeParts DEF Fields
  <1>5. StaleQueries(Build) = Range(LastFailures(failures))
    <2>1. StaleQueries(Build) = {w.of : w \in {w \in Range(warnings) : w.id = "runner-failed"}}
      BY BuildFields DEF StaleQueries
    <2> QED
      BY <1>2, <1>4, <2>1, WarnedQueries
  <1>6. Cardinality(sure) \in Nat /\ Cardinality(sure) <= Len(failures)
    <2>1. IsFiniteSet(Range(failures))
      BY <1>1, DistinctItems
    <2>2. sure \subseteq Range(failures)
      BY <1>1
    <2> HIDE DEF sure
    <2> QED
      BY <1>3, <2>1, <2>2, FS_Subset, FS_CardinalityType
  <1> HIDE DEF sure
  <1>7. /\ Min({Len(failures), MaxRunnerWarnings}) <= MaxRunnerWarnings
        /\ Min({Len(failures), MaxRunnerWarnings}) >= Min({Cardinality(sure), MaxRunnerWarnings})
    <2>1. /\ Min({Len(failures), 3}) = IF Len(failures) <= 3 THEN Len(failures) ELSE 3
          /\ Min({Cardinality(sure), 3}) = IF Cardinality(sure) <= 3 THEN Cardinality(sure) ELSE 3
      BY <1>3, <1>6, MinOf
    <2> QED
      BY <1>3, <1>6, <2>1 DEF MaxRunnerWarnings
  <1>8. StaleQueries(Build) \ overruled \subseteq FailedLast
    BY <1>1, <1>2, <1>5 DEF sure
  <1> QED
    BY <1>2, <1>5, <1>7, <1>8 DEF sure

\* The provenance names queries of this selection that failed last, as many as the cap
\* lets through, at whatever moment and in whatever order they failed and recovered; of
\* a query whose failure was noted or forgotten by one of an earlier selection, or fell
\* out of the list, it promises nothing.
THEOREM StaleQueriesAreFailures == Spec => []StaleQueriesAreExact
  <1>1. TypeOK /\ FailuresInv => StaleQueriesAreExact
    BY NamedQueries DEF StaleQueriesAreExact, FailedLast
  <1> QED
    BY <1>1, TypeCorrect, FailuresInit, FailuresNext, PTL DEF Spec

-----------------------------------------------------------------------------
(* What is missing *)

\* What has been read is what the answers say: a section nobody has answered for is as
\* it was at the selection, the marks of the others are set, and the root's usage is
\* listed in every reading of the resources.
AnsweredInv ==
  /\ answers \in [DOMAIN Readings -> {None, "answered", "failed"}]
  /\ dash # None =>
       /\ \A k \in DOMAIN Readings : answers[k] = None =>
            \A f \in FieldsOf(k) : dash[f] = EmptySections[f]
       /\ \A k \in DOMAIN Readings : answers[k] = "answered" =>
            \E v \in Readings[k] : \A f \in FieldsOf(k) : dash[f] = Filled(k, v, f)
       /\ dash.resources \in Readings["resources"] \union {EmptySections.resources}

\* Every field belongs to one query.
LEMMA OwnFields ==
  /\ \A k \in SectionIds : FieldsOf(k) \subseteq FieldNames
  /\ \A k, l \in SectionIds : k # l => FieldsOf(k) \cap FieldsOf(l) = {}
  /\ \A k \in SectionIds : "resources" \in FieldsOf(k) => k = "resources"
  BY DEF FieldsOf, SectionIds, FieldNames

\* An answer on the resources fills that field alone, with what was read.
LEMMA FilledResources ==
  ASSUME NEW v
  PROVE  Filled("resources", v, "resources") = v /\ FieldsOf("resources") = {"resources"}
  BY DEF Filled, FieldsOf

\* The start: what has been read is what the answers say.
LEMMA AnsweredInit == Init => AnsweredInv
  <1> SUFFICES ASSUME Init PROVE AnsweredInv
    OBVIOUS
  <1>0. PICK seen \in Histories :
          /\ dash = AfterHistory(seen.read)
          /\ answers = [k \in DOMAIN Readings |->
                          IF k \in Range(seen.failed) THEN "failed"
                          ELSE IF k \in DOMAIN seen.read THEN "answered" ELSE None]
    BY DEF Init
  <1> DEFINE h == seen.read
             g == seen.failed
  <1>1. /\ dash = AfterHistory(h)
        /\ answers = [k \in DOMAIN Readings |->
                         IF k \in Range(g) THEN "failed"
                         ELSE IF k \in DOMAIN h THEN "answered" ELSE None]
    BY <1>0
  <1>2. /\ DOMAIN h \subseteq SectionIds /\ \A k \in DOMAIN h : h[k] \in Readings[k]
        /\ DOMAIN Readings = SectionIds
    BY HistoryAssumption, ReadingsAssumption
  <1> HIDE DEF h, g
  <1>3. DOMAIN EmptySections = FieldNames
    BY EmptyType, FieldsOfDashboard
  <1>4. ASSUME NEW k \in SectionIds, k \notin DOMAIN h, NEW f \in FieldsOf(k)
        PROVE  dash[f] = EmptySections[f]
    <2>1. {l \in DOMAIN h : f \in FieldsOf(l)} = {} /\ f \in FieldNames
      BY <1>2, <1>4, OwnFields
    <2> QED
      BY <1>1, <1>3, <2>1 DEF AfterHistory
  <1>5. ASSUME NEW k \in DOMAIN h, NEW f \in FieldsOf(k)
        PROVE  dash[f] = Filled(k, h[k], f)
    <2>1. {l \in DOMAIN h : f \in FieldsOf(l)} = {k} /\ f \in FieldNames
      BY <1>2, <1>5, OwnFields
    <2> QED
      BY <1>1, <1>3, <2>1 DEF AfterHistory
  <1>6. dash.resources \in Readings["resources"] \union {EmptySections.resources}
    <2>1. "resources" \in SectionIds /\ "resources" \in FieldsOf("resources")
      BY FilledResources DEF SectionIds
    <2>2. CASE "resources" \in DOMAIN h
      BY <1>2, <1>5, <2>1, <2>2, FilledResources
    <2>3. CASE "resources" \notin DOMAIN h
      BY <1>4, <2>1, <2>3
    <2> QED
      BY <2>2, <2>3
  <1>7. answers \in [DOMAIN Readings -> {None, "answered", "failed"}]
    BY <1>1
  <1>8. \A k \in DOMAIN Readings : answers[k] = None => k \notin DOMAIN h
    BY <1>1, NoneAssumption
  <1>9. \A k \in DOMAIN Readings : answers[k] = "answered" => k \in DOMAIN h
    BY <1>1, NoneAssumption
  <1> QED
    BY <1>2, <1>4, <1>5, <1>6, <1>7, <1>8, <1>9 DEF AnsweredInv

\* A newly selected distro has answered nothing.
LEMMA SelectUnread ==
  ASSUME NEW d, SelectInternal(d)
  PROVE  AnsweredInv'
  <1>1. dash' = EmptySections /\ answers' = [k \in DOMAIN Readings |-> None]
    BY DEF SelectInternal, NoAnswers
  <1> QED
    BY <1>1, NoneAssumption DEF AnsweredInv

\* Every step keeps what has been read in line with the answers.
LEMMA AnsweredNext == TypeOK /\ AnsweredInv /\ [Next]_vars => AnsweredInv'
  <1> SUFFICES ASSUME TypeOK, AnsweredInv, [Next]_vars PROVE AnsweredInv'
    OBVIOUS
  <1>0. DOMAIN Readings = SectionIds /\ "resources" \in SectionIds
    BY ReadingsAssumption DEF SectionIds
  <1>1. ASSUME NEW k \in DOMAIN Readings, Collected(k)
        PROVE  AnsweredInv'
    <2>1. PICK v \in Readings[k] : dash' = Apply(dash, k, v)
      BY <1>1 DEF Collected
    <2>2. dash # None /\ dash \in DashboardSnapshot /\ DOMAIN dash = FieldNames
      BY <1>1, TypeParts, FieldsOfDashboard DEF Collected, Asked
    <2>3. \A f \in FieldNames : dash'[f] = IF f \in FieldsOf(k) THEN Filled(k, v, f) ELSE dash[f]
      BY <2>1, <2>2 DEF Apply
    <2>4. answers' = [answers EXCEPT ![k] = "answered"]
      BY <1>1 DEF Collected
    <2>5. \A l \in DOMAIN Readings : l # k => answers'[l] = answers[l]
      BY <2>4 DEF AnsweredInv
    <2>6. /\ answers'[k] = "answered"
          /\ answers' \in [DOMAIN Readings -> {None, "answered", "failed"}]
      BY <2>4 DEF AnsweredInv
    <2>7. \A f \in FieldsOf(k) : dash'[f] = Filled(k, v, f)
      BY <1>0, <2>3, OwnFields
    <2>8. \A l \in DOMAIN Readings : l # k => \A f \in FieldsOf(l) : dash'[f] = dash[f]
      BY <1>0, <2>3, OwnFields
    <2>9. dash'.resources \in Readings["resources"] \union {EmptySections.resources}
      <3>1. CASE k = "resources"
        BY <2>7, <3>1, FilledResources
      <3>2. CASE k # "resources"
        <4>1. dash'.resources = dash.resources
          BY <1>0, <2>8, <3>2, FilledResources
        <4> QED
          BY <2>2, <4>1 DEF AnsweredInv
      <3> QED
        BY <3>1, <3>2
    <2>10. ASSUME NEW l \in DOMAIN Readings, answers'[l] = None, NEW f \in FieldsOf(l)
           PROVE  dash'[f] = EmptySections[f]
      <3>1. l # k
        BY <2>6, <2>10, NoneAssumption
      <3> QED
        BY <2>2, <2>5, <2>8, <2>10, <3>1 DEF AnsweredInv
    <2>11. ASSUME NEW l \in DOMAIN Readings, answers'[l] = "answered"
           PROVE  \E w \in Readings[l] : \A f \in FieldsOf(l) : dash'[f] = Filled(l, w, f)
      <3>1. CASE l = k
        BY <2>7, <3>1
      <3>2. CASE l # k
        <4>1. PICK w \in Readings[l] : \A f \in FieldsOf(l) : dash[f] = Filled(l, w, f)
          BY <2>2, <2>5, <2>11, <3>2 DEF AnsweredInv
        <4> QED
          BY <2>8, <3>2, <4>1
      <3> QED
        BY <3>1, <3>2
    <2> QED
      BY <2>6, <2>9, <2>10, <2>11 DEF AnsweredInv
  <1>2. ASSUME NEW k \in DOMAIN Readings, CollectFailed(k)
        PROVE  AnsweredInv'
    <2>1. dash # None /\ dash \in DashboardSnapshot /\ DOMAIN dash = FieldNames
      BY <1>2, TypeParts, FieldsOfDashboard DEF CollectFailed, Asked
    <2>2. \A f \in FieldNames : f \notin FieldsOf(k) => dash'[f] = dash[f]
      <3>1. dash' = CASE k = "tools" /\ ~ToolsKnown(dash) ->
                           [dash EXCEPT !.toolsCollectionStatus = "failed"]
                      [] k = "ports" /\ ~PortsKnown(dash) ->
                           [dash EXCEPT !.portsCollectionStatus = "failed"]
                      [] OTHER -> dash
        BY <1>2 DEF CollectFailed
      <3>2. CASE k = "tools"
        BY <2>1, <3>1, <3>2 DEF FieldsOf
      <3>3. CASE k = "ports"
        BY <2>1, <3>1, <3>3 DEF FieldsOf
      <3>4. CASE k \notin {"tools", "ports"}
        BY <3>1, <3>4
      <3> QED
        BY <3>2, <3>3, <3>4
    <2>3. answers' = [answers EXCEPT ![k] = "failed"]
      BY <1>2 DEF CollectFailed
    <2>4. \A l \in DOMAIN Readings : l # k => answers'[l] = answers[l]
      BY <2>3 DEF AnsweredInv
    <2>5. /\ answers'[k] = "failed"
          /\ answers' \in [DOMAIN Readings -> {None, "answered", "failed"}]
      BY <2>3 DEF AnsweredInv
    <2>6. \A l \in DOMAIN Readings : l # k => \A f \in FieldsOf(l) : dash'[f] = dash[f]
      BY <1>0, <2>2, OwnFields
    <2>7. dash'.resources = dash.resources
      <3>1. CASE k = "resources"
        BY <1>2, <3>1 DEF CollectFailed
      <3>2. CASE k # "resources"
        BY <1>0, <2>6, <3>2, FilledResources
      <3> QED
        BY <3>1, <3>2
    <2>8. ASSUME NEW l \in DOMAIN Readings, answers'[l] = None, NEW f \in FieldsOf(l)
          PROVE  dash'[f] = EmptySections[f]
      <3>1. l # k
        BY <2>5, <2>8, NoneAssumption
      <3> QED
        BY <2>1, <2>4, <2>6, <2>8, <3>1 DEF AnsweredInv
    <2>9. ASSUME NEW l \in DOMAIN Readings, answers'[l] = "answered"
          PROVE  \E w \in Readings[l] : \A f \in FieldsOf(l) : dash'[f] = Filled(l, w, f)
      <3>1. l # k
        BY <2>5, <2>9
      <3>2. PICK w \in Readings[l] : \A f \in FieldsOf(l) : dash[f] = Filled(l, w, f)
        BY <2>1, <2>4, <2>9, <3>1 DEF AnsweredInv
      <3> QED
        BY <2>6, <3>1, <3>2
    <2> QED
      BY <2>1, <2>5, <2>7, <2>8, <2>9 DEF AnsweredInv
  <1>3. ASSUME UNCHANGED <<dash, answers>>
        PROVE  AnsweredInv'
    BY <1>3 DEF AnsweredInv
  <1>4. ASSUME TierEnds \/ SetTerminalContext \/ SetExplorerContext \/ SetMcpStatus
               \/ \E alive \in BOOLEAN : ProbeDistro(alive)
               \/ \E k \in Slow : LateAnswer(k) \/ LateFailure(k)
        PROVE  AnsweredInv'
    BY <1>3, <1>4 DEF TierEnds, SetTerminalContext, SetExplorerContext, SetMcpStatus, ProbeDistro,
                     LateAnswer, LateFailure
  <1>5. ASSUME SetDistro PROVE AnsweredInv'
    BY <1>5, SelectUnread DEF SetDistro
  <1>6. ASSUME ListDistros PROVE AnsweredInv'
    <2>1. ASSUME dash' = None, UNCHANGED answers PROVE AnsweredInv'
      BY <2>1 DEF AnsweredInv
    <2> QED
      BY <1>3, <1>6, <2>1, SelectUnread DEF ListDistros
  <1>7. ASSUME UNCHANGED vars PROVE AnsweredInv'
    BY <1>3, <1>7 DEF vars
  <1> QED
    BY <1>1, <1>2, <1>4, <1>5, <1>6, <1>7 DEF Next

\* The parts of the context the claims look at.
LEMMA ContextParts ==
  ASSUME NEW s
  PROVE  LET c == BuildContext(s)
         IN  /\ c.provenance.notCollected = NotCollected(s.dash)
             /\ c.services = BuildServices(s.dash) /\ c.ports = BuildPorts(s.dash)
             /\ c.groups.tools = BuildToolGroup(s.dash, "tools")
             /\ c.docker = BuildDocker(s.dash) /\ c.path = BuildPath(s.dash)
             /\ c.network = BuildNetwork(s.dash) /\ c.configs = BuildConfigs(s)
             /\ c.storage = BuildStorage(s.dash)
  BY DEF BuildContext

\* What a newly selected distro starts with, section by section.
LEMMA EmptyParts ==
  /\ EmptySections.system.user = None /\ EmptySections.system.kernel = None
  /\ EmptySections.system.systemdEnabled = None
  /\ EmptySections.resources.cpuCount = None /\ EmptySections.resources.memTotalBytes = None
  /\ EmptySections.resources.disks = <<>>
  /\ \A k \in {"paths", "configuration", "environment", "processes"} : EmptySections[k] = <<>>
  /\ \A k \in SectionIds \ {"system", "resources", "paths", "configuration", "environment",
                            "processes", "tools", "ports", "services"} :
       EmptySections[k] = None
  BY DEF EmptySections, SectionIds

\* What is called not collected, section by section.
LEMMA NotCollectedParts ==
  ASSUME NEW d, d # None
  PROVE  /\ "system" \in NotCollected(d) <=> d.system.user = None /\ d.system.kernel = None
         /\ "resources" \in NotCollected(d) <=>
              d.resources.cpuCount = None /\ d.resources.memTotalBytes = None
         /\ \A k \in {"paths", "configuration", "environment", "processes"} :
              k \in NotCollected(d) <=> d[k] = <<>>
         /\ "tools" \in NotCollected(d) <=> ~ToolsKnown(d)
         /\ "ports" \in NotCollected(d) <=> ~PortsKnown(d)
         /\ "services" \in NotCollected(d) <=>
              ~d.servicesCollected \/ d.system.systemdEnabled = FALSE
         /\ \A k \in SectionIds \ {"system", "resources", "paths", "configuration", "environment",
                                   "processes", "tools", "ports", "services"} :
              k \in NotCollected(d) <=> d[k] = None
  BY DEF NotCollected, SectionIds

\* A count that is given is a number, and given exactly when its list was read.
LEMMA Counts ==
  ASSUME NEW d \in DashboardSnapshot, d # None
  PROVE  /\ BuildServices(d).total # None <=>
              d.servicesCollected /\ d.system.systemdEnabled # FALSE
         /\ BuildToolGroup(d, "tools").installedCount # None <=> ToolsKnown(d)
         /\ BuildPorts(d).listeningCount # None <=> PortsKnown(d)
  <1>1. /\ d.services \in Seq(ServiceInfo) /\ d.tools \in Seq(ToolInfo)
        /\ d.ports \in Seq(PortInfo)
    BY DEF DashboardSnapshot
  <1>2. Len(d.services) # None
    BY <1>1, NoneAssumption
  <1> DEFINE Mine(t) == t.installed /\ GroupOf(t.id) = "tools"
             mine == Where(d.tools, Mine)
             listening == Where(d.ports, Listening)
  <1>3. Len(mine) # None
    <2>1. mine \in Seq(ToolInfo)
      BY <1>1, ItemsAtPlaces DEF Where
    <2> QED
      BY <2>1, NoneAssumption
  <1>4. Len(listening) # None
    <2>1. listening \in Seq(PortInfo)
      BY <1>1, ItemsAtPlaces DEF Where
    <2> QED
      BY <2>1, NoneAssumption
  <1>5. BuildServices(d).total # None <=>
          d.servicesCollected /\ d.system.systemdEnabled # FALSE
    BY <1>2 DEF BuildServices, OrEmpty
  <1>6. BuildToolGroup(d, "tools").installedCount # None <=> ToolsKnown(d)
    <2>1. BuildToolGroup(d, "tools").installedCount = IF ToolsKnown(d) THEN Len(mine) ELSE None
      BY DEF BuildToolGroup
    <2> QED
      BY <1>3, <2>1
  <1>7. BuildPorts(d).listeningCount # None <=> PortsKnown(d)
    <2>1. BuildPorts(d).listeningCount = IF PortsKnown(d) THEN Len(listening) ELSE None
      BY DEF BuildPorts, OrEmpty
    <2> QED
      BY <1>4, <2>1
  <1> QED
    BY <1>5, <1>6, <1>7

\* A heading is left out when nothing is known under it.
LEMMA HeadingsLeftOut ==
  ASSUME NEW c, DOMAIN c.groups = {"runtimes", "packageManagers", "tools"}
  PROVE  LET printed == DevEnvContextToMarkdown(c).headings
         IN  /\ DevEnvContextToMarkdown(c).notCollected = c.provenance.notCollected
             /\ "docker" \notin printed => ~PrintsDocker(c)
             /\ "services" \notin printed => ~PrintsServices(c)
             /\ "path" \notin printed => ~PrintsPath(c)
             /\ "network" \notin printed => ~PrintsNetwork(c)
             /\ "configs" \notin printed => ~PrintsConfigs(c)
             /\ "storage" \notin printed => ~PrintsStorage(c)
             /\ "ports" \notin printed => ~PrintsPorts(c)
             /\ "tools" \notin printed => ~PrintsToolGroup(c, "tools")
  <1> DEFINE m == DevEnvContextToMarkdown(c)
  <1>1. /\ m.headings = Printed(c) \union {"header", "doctor", "provenance"}
        /\ m.notCollected = c.provenance.notCollected
    BY DEF DevEnvContextToMarkdown
  <1>2. /\ PrintsDocker(c) => "docker" \in Printed(c)
        /\ PrintsServices(c) => "services" \in Printed(c)
        /\ PrintsPath(c) => "path" \in Printed(c)
        /\ PrintsNetwork(c) => "network" \in Printed(c)
        /\ PrintsConfigs(c) => "configs" \in Printed(c)
        /\ PrintsStorage(c) => "storage" \in Printed(c)
        /\ PrintsPorts(c) => "ports" \in Printed(c)
        /\ PrintsToolGroup(c, "tools") => "tools" \in Printed(c)
    BY DEF Printed
  <1> HIDE DEF m
  <1> QED
    BY <1>1, <1>2 DEF m

\* What the context says it does not know is what nobody answered for.
LEMMA ProvenanceHolds ==
  TypeOK /\ AnsweredInv /\ dash # None => ProvenanceIsExact(BuildContext(Build))
  <1> SUFFICES ASSUME TypeOK, AnsweredInv, dash # None
               PROVE  ProvenanceIsExact(BuildContext(Build))
    OBVIOUS
  <1> DEFINE c == BuildContext(Build)
             named == c.provenance.notCollected
             Read(k) == dash[k] # EmptySections[k]
             known == {k \in {"services", "tools", "ports"} :
                         CASE k = "services" -> c.services.total # None
                           [] k = "tools" -> c.groups.tools.installedCount # None
                           [] k = "ports" -> c.ports.listeningCount # None}
  <1>1. dash \in DashboardSnapshot /\ Build.dash = dash /\ DOMAIN Readings = SectionIds
    BY TypeParts, BuildFields, ReadingsAssumption
  <1>2. /\ "services" \in known <=> dash.servicesCollected /\ dash.system.systemdEnabled # FALSE
        /\ "tools" \in known <=> ToolsKnown(dash)
        /\ "ports" \in known <=> PortsKnown(dash)
        /\ known \subseteq {"services", "tools", "ports"}
    <2>1. /\ c.services = BuildServices(dash) /\ c.ports = BuildPorts(dash)
          /\ c.groups.tools = BuildToolGroup(dash, "tools")
      BY <1>1, ContextParts
    <2> HIDE DEF c
    <2> QED
      BY <1>1, <2>1, Counts
  <1>3. named = NotCollected(dash)
    BY <1>1, ContextParts
  <1> HIDE DEF c, known, named
  <1>4. ASSUME NEW k \in SectionIds, answers[k] = None
        PROVE  k \in named /\ k \notin known
    <2>1. \A f \in FieldsOf(k) : dash[f] = EmptySections[f]
      BY <1>1, <1>4 DEF AnsweredInv
    <2>2. CASE k = "services"
      BY <1>2, <1>3, <2>1, <2>2, NotCollectedParts DEF FieldsOf, EmptySections
    <2>3. CASE k = "tools"
      <3>1. dash.toolsCollectionStatus = "pending"
        BY <2>1, <2>3 DEF FieldsOf, EmptySections
      <3> QED
        BY <1>2, <1>3, <2>3, <3>1, NotCollectedParts DEF ToolsKnown, CollectionSucceeded
    <2>4. CASE k = "ports"
      <3>1. dash.portsCollectionStatus = "pending"
        BY <2>1, <2>4 DEF FieldsOf, EmptySections
      <3> QED
        BY <1>2, <1>3, <2>4, <3>1, NotCollectedParts DEF PortsKnown, CollectionSucceeded
    <2>5. CASE k \notin {"services", "tools", "ports"}
      <3>1. dash[k] = EmptySections[k] /\ k \notin known
        BY <1>2, <2>1, <2>5 DEF FieldsOf
      <3>2. CASE k = "system"
        BY <1>3, <3>1, <3>2, NotCollectedParts, EmptyParts
      <3>3. CASE k = "resources"
        BY <1>3, <3>1, <3>3, NotCollectedParts, EmptyParts
      <3>4. CASE k \in {"paths", "configuration", "environment", "processes"}
        BY <1>3, <3>1, <3>4, NotCollectedParts, EmptyParts
      <3>5. CASE k \notin {"system", "resources", "paths", "configuration", "environment",
                           "processes"}
        <4>1. EmptySections[k] = None
          BY <1>4, <2>5, <3>5, EmptyParts
        <4> QED
          BY <1>3, <1>4, <2>5, <3>1, <3>5, <4>1, NotCollectedParts
      <3> QED
        BY <3>1, <3>2, <3>3, <3>4, <3>5
    <2> QED
      BY <2>2, <2>3, <2>4, <2>5
  <1>5. \A k \in SectionIds : answers[k] = "answered" =>
          \E v \in Readings[k] : \A f \in FieldsOf(k) : dash[f] = Filled(k, v, f)
    BY <1>1 DEF AnsweredInv
  <1>6. /\ answers["services"] = "answered" => dash.servicesCollected
        /\ answers["tools"] = "answered" => ToolsKnown(dash)
        /\ answers["ports"] = "answered" => PortsKnown(dash)
    <2>1. {"services", "tools", "ports"} \subseteq SectionIds
      BY DEF SectionIds
    <2>2. ASSUME answers["services"] = "answered" PROVE dash.servicesCollected
      BY <1>5, <2>1, <2>2 DEF FieldsOf, Filled
    <2>3. ASSUME answers["tools"] = "answered" PROVE ToolsKnown(dash)
      <3>1. dash.toolsCollectionStatus = "succeeded"
        BY <1>5, <2>1, <2>3 DEF FieldsOf, Filled
      <3> QED
        BY <3>1 DEF ToolsKnown, CollectionSucceeded
    <2>4. ASSUME answers["ports"] = "answered" PROVE PortsKnown(dash)
      <3>1. dash.portsCollectionStatus = "succeeded"
        BY <1>5, <2>1, <2>4 DEF FieldsOf, Filled
      <3> QED
        BY <3>1 DEF PortsKnown, CollectionSucceeded
    <2> QED
      BY <2>2, <2>3, <2>4
  <1>7. ASSUME NEW k \in SectionIds, answers[k] = "answered", k \in named, Read(k)
        PROVE  \/ k = "services" /\ dash.system.systemdEnabled = FALSE
               \/ k = "system" /\ dash.system.user = None /\ dash.system.kernel = None
               \/ k = "resources" /\ dash.resources.cpuCount = None
                    /\ dash.resources.memTotalBytes = None
    <2>1. CASE k = "services"
      BY <1>3, <1>6, <1>7, <2>1, NotCollectedParts
    <2>2. CASE k \in {"system", "resources"}
      BY <1>3, <1>7, <2>2, NotCollectedParts
    <2>3. k \notin {"tools", "ports"}
      BY <1>3, <1>6, <1>7, NotCollectedParts
    <2>4. k \notin {"paths", "configuration", "environment", "processes"}
      <3>1. CASE k \in {"paths", "configuration", "environment", "processes"}
        <4>1. k \in NotCollected(dash) <=> dash[k] = <<>>
          BY <3>1, NotCollectedParts
        <4>2. EmptySections[k] = <<>>
          BY <3>1, EmptyParts
        <4> QED
          BY <1>3, <1>7, <4>1, <4>2
      <3> QED
        BY <3>1
    <2>5. CASE k \notin {"services", "system", "resources"}
      <3>1. EmptySections[k] = None
        BY <1>7, <2>3, <2>4, <2>5, EmptyParts
      <3> QED
        BY <1>3, <1>7, <2>3, <2>4, <2>5, <3>1, NotCollectedParts
    <2> QED
      BY <2>1, <2>2, <2>5
  <1>8. ASSUME NEW k \in {"services", "tools", "ports"}, answers[k] = "answered"
        PROVE  k \in known \union
                 (IF dash.system.systemdEnabled = FALSE THEN {"services"} ELSE {})
    BY <1>2, <1>6, <1>8
  <1> QED
    BY <1>1, <1>4, <1>7, <1>8 DEF ProvenanceIsExact, c, known, named

\* What the printed context names as missing is what nobody answered for.
LEMMA LeftOutHolds ==
  TypeOK /\ AnsweredInv /\ dash # None => LeftOutIsNamed(BuildContext(Build))
  <1> SUFFICES ASSUME TypeOK, AnsweredInv, dash # None
               PROVE  LeftOutIsNamed(BuildContext(Build))
    OBVIOUS
  <1> DEFINE c == BuildContext(Build)
             m == DevEnvContextToMarkdown(c)
             named == NotCollected(dash)
  <1>1. dash \in DashboardSnapshot /\ Build.dash = dash
    BY TypeParts, BuildFields
  <1>2. /\ m.notCollected = named
        /\ "docker" \notin m.headings => ~PrintsDocker(c)
        /\ "services" \notin m.headings => ~PrintsServices(c)
        /\ "path" \notin m.headings => ~PrintsPath(c)
        /\ "network" \notin m.headings => ~PrintsNetwork(c)
        /\ "configs" \notin m.headings => ~PrintsConfigs(c)
        /\ "storage" \notin m.headings => ~PrintsStorage(c)
        /\ "ports" \notin m.headings => ~PrintsPorts(c)
        /\ "tools" \notin m.headings => ~PrintsToolGroup(c, "tools")
    <2>1. DOMAIN c.groups = {"runtimes", "packageManagers", "tools"}
      BY DEF BuildContext
    <2>2. c.provenance.notCollected = named
      BY <1>1, ContextParts
    <2> HIDE DEF c
    <2> QED
      BY <2>1, <2>2, HeadingsLeftOut
  <1>3. /\ c.services = BuildServices(dash) /\ c.ports = BuildPorts(dash)
        /\ c.groups.tools = BuildToolGroup(dash, "tools") /\ c.docker = BuildDocker(dash)
        /\ c.path = BuildPath(dash) /\ c.network = BuildNetwork(dash)
        /\ c.configs = BuildConfigs(Build) /\ c.storage = BuildStorage(dash)
    BY <1>1, ContextParts
  <1> HIDE DEF c, m, named
  <1>4. ~PrintsDocker(c) => "docker" \in named
    <2>1. dash.docker # None => BuildDocker(dash).status # "unknown"
      BY DEF BuildDocker, DockerStatus, OrNull
    <2>2. "docker" \in named <=> dash.docker = None
      BY NotCollectedParts DEF named, SectionIds
    <2> QED
      BY <1>3, <2>1, <2>2 DEF PrintsDocker
  <1>5. ~PrintsServices(c) => "services" \in named
    <2>1. BuildServices(dash).systemd = dash.system.systemdEnabled
      BY DEF BuildServices
    <2> QED
      BY <1>1, <1>3, <2>1, Counts, NotCollectedParts, NoneAssumption DEF PrintsServices, named
  <1>6. ~PrintsPath(c) => "environment" \in named
    <2>1. dash.environment \in Seq(EnvironmentVariableInfo)
      BY <1>1 DEF DashboardSnapshot
    <2>2. BuildPath(dash).environmentVariableCount
            = IF dash.environment = <<>> THEN None ELSE Len(dash.environment)
      BY DEF BuildPath, OrEmpty
    <2>3. dash.environment # <<>> => BuildPath(dash).environmentVariableCount # None
      BY <2>1, <2>2, NoneAssumption
    <2> QED
      BY <1>3, <2>3, NotCollectedParts DEF PrintsPath, named
  <1>7. ~PrintsNetwork(c) => {"dns", "portProxy"} \subseteq named
    <2>1. dash.dns # None => BuildNetwork(dash).dns # None
      <3> SUFFICES ASSUME dash.dns # None PROVE BuildNetwork(dash).dns # None
        OBVIOUS
      <3> DEFINE servers == dash.dns.nameservers
                 said == [nameservers |-> Cap("nameservers", servers),
                          nameserverCount |-> Len(servers),
                          handManaged |-> IF dash.dns.generateResolvConf = None THEN None
                                          ELSE ~dash.dns.generateResolvConf,
                          error |-> dash.dns.error]
      <3>1. /\ servers \in Seq({"ns1", "ns2"}) /\ dash.dns.error \in Text
            /\ dash.dns.generateResolvConf \in Tri
        BY <1>1 DEF DashboardSnapshot, Maybe, DnsInfo
      <3>2. Len(servers) \in Nat
        BY <3>1
      <3>3. Cap("nameservers", servers)
              \in [label : {"nameservers"}, items : Seq({"ns1", "ns2"}), omitted : Nat]
        <4> DEFINE l == Len(servers)  n == Limits["nameservers"]
        <4>1. l \in Nat /\ n \in Nat
          BY <3>2, LimitsAssumption
        <4> HIDE DEF l, n
        <4>2. Min({l, n}) \in 0 .. l
          BY <4>1, MinOf
        <4>3. Max({0, l - n}) \in Nat
          BY <4>1, MaxOf
        <4>4. SubSeq(servers, 1, Min({l, n})) \in Seq({"ns1", "ns2"})
          BY <3>1, <4>2, StartOfList DEF l
        <4> QED
          BY <4>3, <4>4 DEF Cap, l, n
      <3>4. (IF dash.dns.generateResolvConf = None THEN None ELSE ~dash.dns.generateResolvConf)
              \in Tri
        BY <3>1 DEF Tri, Maybe
      <3>5. said \in DnsPart
        BY <3>1, <3>2, <3>3, <3>4 DEF DnsPart
      <3>6. BuildNetwork(dash).dns = said
        BY DEF BuildNetwork, OrNull
      <3> QED
        BY <3>5, <3>6, NoneAssumption
    <2>2. dash.portProxy # None => BuildNetwork(dash).portProxy # None
      <3> SUFFICES ASSUME dash.portProxy # None PROVE BuildNetwork(dash).portProxy # None
        OBVIOUS
      <3> DEFINE rules == dash.portProxy.rules
                 CountOf(v) == Len(ItemsAt(rules, {i \in DOMAIN rules : rules[i].verdict = v}))
                 said == [ruleCount |-> Len(rules), live |-> CountOf("live"),
                          stale |-> CountOf("stale"), elsewhere |-> CountOf("elsewhere"),
                          unknown |-> CountOf("unknown")]
      <3>1. rules \in Seq(PortProxyRule)
        BY <1>1 DEF DashboardSnapshot, Maybe, PortProxyInfo
      <3>2. Len(rules) \in Nat
        BY <3>1
      <3>3. \A v : CountOf(v) \in Nat
        BY <3>1, ItemsAtPlaces
      <3>4. BuildNetwork(dash).portProxy = said
        BY DEF BuildNetwork, OrNull, Where
      <3> HIDE DEF CountOf
      <3>5. said \in PortProxyPart
        BY <3>2, <3>3 DEF PortProxyPart
      <3> QED
        BY <3>4, <3>5, NoneAssumption
    <2>3. {"dns", "portProxy"} \subseteq SectionIds
      BY DEF SectionIds
    <2> QED
      BY <1>3, <2>1, <2>2, <2>3, NotCollectedParts DEF PrintsNetwork, named
  <1>8. ~PrintsConfigs(c) => "wslSettings" \in named
    <2>1. dash.wslSettings # None => dash.wslSettings.wslconfigExists \in BOOLEAN
      BY <1>1 DEF DashboardSnapshot, Maybe, WslConfigInfo
    <2>2. dash.wslSettings # None => BuildConfigs(Build).wslconfigExists # None
      BY <1>1, <2>1, NoneAssumption DEF BuildConfigs, OrNull
    <2> QED
      BY <1>3, <2>2, NotCollectedParts DEF PrintsConfigs, named, SectionIds
  <1>9. ~PrintsStorage(c) => "resources" \in named
    <2>1. CASE dash.resources = EmptySections.resources
      BY <2>1, NotCollectedParts, EmptyParts DEF named
    <2>2. CASE dash.resources \in Readings["resources"]
      <3>1. PICK i : i \in DOMAIN dash.resources.disks
        BY <2>2, ReadingsAssumption
      <3>2. dash.resources.disks \in Seq(DiskUsage)
        BY <1>1 DEF DashboardSnapshot, ResourceInfo
      <3>3. Len(dash.resources.disks) \in Nat /\ Len(dash.resources.disks) >= 1
        BY <3>1, <3>2
      <3> DEFINE l == Len(dash.resources.disks)  n == Limits["filesystems"]
      <3>4. Min({l, n}) \in Nat /\ Min({l, n}) >= 1 /\ Min({l, n}) <= l
        BY <3>3, MinOf, LimitsAssumption
      <3> HIDE DEF l, n
      <3>5. SubSeq(dash.resources.disks, 1, Min({l, n})) # <<>>
        BY <3>2, <3>4 DEF l
      <3>6. BuildStorage(dash).filesystems.items = SubSeq(dash.resources.disks, 1, Min({l, n}))
        BY DEF BuildStorage, Cap, l, n
      <3> QED
        BY <1>3, <3>5, <3>6 DEF PrintsStorage
    <2> QED
      BY <2>1, <2>2 DEF AnsweredInv
  <1>10. ~PrintsPorts(c) => "ports" \in named \/ c.ports.listeningCount = 0
    <2>1. c.ports.listeningCount # None <=> PortsKnown(dash)
      BY <1>1, <1>3, Counts
    <2>2. "ports" \in named <=> ~PortsKnown(dash)
      BY NotCollectedParts DEF named
    <2> QED
      BY <2>1, <2>2 DEF PrintsPorts
  <1>11. ~PrintsToolGroup(c, "tools") => "tools" \in named \/ c.groups.tools.installedCount = 0
    <2>1. c.groups.tools.installedCount # None <=> ToolsKnown(dash)
      BY <1>1, <1>3, Counts
    <2>2. "tools" \in named <=> ~ToolsKnown(dash)
      BY NotCollectedParts DEF named
    <2> QED
      BY <2>1, <2>2 DEF PrintsToolGroup
  <1> QED
    BY <1>2, <1>4, <1>5, <1>6, <1>7, <1>8, <1>9, <1>10, <1>11 DEF LeftOutIsNamed, c, m

\* What an agent is told to be missing is what is missing, whatever the queries answer
\* and in whatever order they answer, fail and are asked of another distro.
THEOREM MissingIsNamed == Spec => []WhatIsMissingIsNamed
  <1>1. TypeOK /\ AnsweredInv => WhatIsMissingIsNamed
    BY ProvenanceHolds, LeftOutHolds DEF WhatIsMissingIsNamed
  <1>2. Spec => [](TypeOK /\ AnsweredInv)
    BY TypeCorrect, AnsweredInit, AnsweredNext, PTL DEF Spec
  <1> QED
    BY <1>1, <1>2, PTL

-----------------------------------------------------------------------------
(* Reports *)

\* The kinds of warnings in a list.
Ids(a) == {w.id : w \in Range(a)}

\* The empty list holds nothing.
LEMMA NoItems == Range(<<>>) = {} /\ IsList(<<>>) /\ Ids(<<>>) = {}
  <1>1. Range(<<>>) = {}
    BY DEF Range
  <1>2. <<>> \in Seq({})
    OBVIOUS
  <1> QED
    BY <1>1, <1>2 DEF IsList, Ids

\* The ids in a list of one warning, or of none.
LEMMA IdsOfWarn ==
  ASSUME NEW when, NEW id, NEW of
  PROVE  IsList(Warn(when, id, of)) /\ Ids(Warn(when, id, of)) = IF when THEN {id} ELSE {}
  <1> DEFINE w == [id |-> id, of |-> of]
  <1>1. w.id = id
    OBVIOUS
  <1> HIDE DEF w
  <1>2. <<w>> \in Seq({w}) /\ w \in Range(<<w>>)
    BY DEF Range
  <1>3. IsList(<<w>>) /\ Range(<<w>>) = {w}
    BY <1>2, ListOf
  <1>4. Ids(<<w>>) = {id}
    BY <1>1, <1>3 DEF Ids
  <1> QED
    BY <1>3, <1>4, NoItems DEF Warn, w

\* Warnings other than those of the clock, the services and the Console's directory.
LEMMA OtherWarn ==
  ASSUME NEW when, NEW id, NEW of,
         id \notin {"clock-skew", "service-failed", "console-cwd-cross-boundary"}
  PROVE  /\ IsList(Warn(when, id, of))
         /\ Ids(Warn(when, id, of))
              \cap {"clock-skew", "service-failed", "console-cwd-cross-boundary"} = {}
  BY IdsOfWarn

\* The ids in a list with a warning for each of some items.
LEMMA IdsOfEach ==
  ASSUME NEW S, NEW items \in Seq(S), NEW id, NEW a,
         a = [i \in DOMAIN items |-> a[i]], \A i \in DOMAIN items : a[i].id = id
  PROVE  IsList(a) /\ Ids(a) = IF DOMAIN items = {} THEN {} ELSE {id}
  <1> DEFINE T == {a[i] : i \in DOMAIN items}
  <1>1. DOMAIN items = 1 .. Len(items) /\ Len(items) \in Nat
    OBVIOUS
  <1>2. a \in Seq(T)
    BY <1>1
  <1>3. IsList(a) /\ Range(a) = T
    BY <1>2, ListOf DEF Range
  <1> QED
    BY <1>3 DEF Ids

\* The ids in two lists are those of the one and those of the other.
LEMMA IdsOfConcat ==
  ASSUME NEW a, NEW b, IsList(a), IsList(b)
  PROVE  IsList(a \o b) /\ Ids(a \o b) = Ids(a) \union Ids(b)
  BY ConcatList DEF Ids

\* A selection of a list is empty when no place is selected.
LEMMA NothingAtNoPlace ==
  ASSUME NEW S, NEW seq \in Seq(S), NEW places \in SUBSET DOMAIN seq
  PROVE  /\ DOMAIN ItemsAt(seq, places) = {} <=> places = {}
         /\ ItemsAt(seq, places) = <<>> <=> places = {}
  <1> DEFINE picked == ItemsAt(seq, places)
  <1>1. picked \in Seq(S) /\ Range(picked) = {seq[i] : i \in places}
    BY ItemsAtPlaces
  <1> HIDE DEF picked
  <1>2. DOMAIN picked = {} <=> Range(picked) = {}
    BY DEF Range
  <1>3. picked = <<>> <=> DOMAIN picked = {}
    BY <1>1
  <1> QED
    BY <1>1, <1>2, <1>3 DEF picked

\* Of what a dashboard is warned of, the drift of the clock and the failed services; the
\* Console's directory is not among it.
LEMMA DashboardIds ==
  ASSUME NEW d \in DashboardSnapshot, NEW running \in BOOLEAN
  PROVE  LET ids == Ids(DashboardWarnings(d, running))
         IN  /\ IsList(DashboardWarnings(d, running))
             /\ "clock-skew" \in ids <=>
                  /\ running /\ d.clock # None
                  /\ d.clock.skewSeconds # None /\ Abs(d.clock.skewSeconds) >= ClockSkewWarning
             /\ "service-failed" \in ids <=> \E v \in Range(d.services) : Failed(v)
             /\ "console-cwd-cross-boundary" \notin ids
  <1> DEFINE Low(v) == v.exists /\ v.usePercent # None /\ v.usePercent >= 90
             skew == IF d.clock = None THEN None ELSE d.clock.skewSeconds
             crossing == Where(d.paths, LAMBDA p : p.exists # FALSE /\ IsCrossBoundary(p.side))
                         \o Where(d.tools, LAMBDA t : t.installed /\ IsCrossBoundary(t.side))
             a1 == Warn(d.system.systemdEnabled = FALSE, "systemd-disabled", None)
             a2 == Warn(running /\ d.system.user # None /\ d.system.home = None,
                        "home-inaccessible", None)
             a3 == IF running /\ skew # None
                   THEN Warn(Abs(skew) >= ClockSkewWarning, "clock-skew", None) ELSE <<>>
             a4 == WarnEach(Where(d.resources.disks, Low), LAMBDA v : v.mountPoint, "disk-low")
             a5 == IF d.hermes = None THEN <<>>
                   ELSE Warn(d.hermes.executablePath # None /\ d.hermes.dataDir = None,
                             "hermes-no-config", None)
                        \o Warn(d.hermes.dataDir # None /\ d.hermes.executablePath = None,
                                "hermes-no-exec", None)
             a6 == WarnEach(Where(d.services, Failed), LAMBDA v : v.name, "service-failed")
             a7 == WarnEach(Conflicts(d), LAMBDA n : n, "port-conflict")
             a8 == Warn(crossing # <<>>, "cross-boundary-paths", None)
             Told == {"clock-skew", "service-failed", "console-cwd-cross-boundary"}
             failed == \E v \in Range(d.services) : Failed(v)
             late == /\ running /\ d.clock # None /\ d.clock.skewSeconds # None
                     /\ Abs(d.clock.skewSeconds) >= ClockSkewWarning
  <1>0. DashboardWarnings(d, running) = a1 \o a2 \o a3 \o a4 \o a5 \o a6 \o a7 \o a8
    BY DEF DashboardWarnings
  <1>1. /\ IsList(a1) /\ Ids(a1) \cap Told = {}
        /\ IsList(a2) /\ Ids(a2) \cap Told = {}
        /\ IsList(a8) /\ Ids(a8) \cap Told = {}
    <2> HIDE DEF crossing
    <2> QED
      BY OtherWarn
  <1>2. IsList(a3) /\ Ids(a3) = IF late THEN {"clock-skew"} ELSE {}
    <2>1. late <=> running /\ skew # None /\ Abs(skew) >= ClockSkewWarning
      OBVIOUS
    <2> HIDE DEF skew, late
    <2> QED
      BY <2>1, IdsOfWarn, NoItems
  <1>3. IsList(a4) /\ Ids(a4) \cap Told = {}
    <2> DEFINE items == Where(d.resources.disks, Low)
    <2>1. d.resources.disks \in Seq(DiskUsage)
      BY DEF DashboardSnapshot, ResourceInfo
    <2>2. items \in Seq(DiskUsage)
      BY <2>1, ItemsAtPlaces DEF Where
    <2> HIDE DEF items
    <2>3. /\ a4 = [i \in DOMAIN items |-> a4[i]]
          /\ \A i \in DOMAIN items : a4[i].id = "disk-low"
      BY DEF WarnEach, items
    <2> HIDE DEF a4
    <2>4. IsList(a4) /\ Ids(a4) \subseteq {"disk-low"}
      BY <2>2, <2>3, IdsOfEach
    <2> QED
      BY <2>4
  <1>4. IsList(a5) /\ Ids(a5) \cap Told = {}
    <2> DEFINE b == Warn(d.hermes.executablePath # None /\ d.hermes.dataDir = None,
                         "hermes-no-config", None)
               e == Warn(d.hermes.dataDir # None /\ d.hermes.executablePath = None,
                         "hermes-no-exec", None)
    <2>1. /\ IsList(b) /\ Ids(b) \subseteq {"hermes-no-config"}
          /\ IsList(e) /\ Ids(e) \subseteq {"hermes-no-exec"}
      BY IdsOfWarn
    <2> HIDE DEF b, e
    <2>2. IsList(b \o e) /\ Ids(b \o e) \cap Told = {}
      BY <2>1, IdsOfConcat
    <2> QED
      BY <2>2, NoItems DEF b, e
  <1>5. IsList(a6) /\ Ids(a6) = IF failed THEN {"service-failed"} ELSE {}
    <2> DEFINE items == Where(d.services, Failed)
               places == {i \in DOMAIN d.services : Failed(d.services[i])}
    <2>1. d.services \in Seq(ServiceInfo)
      BY DEF DashboardSnapshot
    <2>2. items = ItemsAt(d.services, places)
      BY DEF Where
    <2>3. items \in Seq(ServiceInfo) /\ (DOMAIN items = {} <=> places = {})
      <3>1. places \in SUBSET DOMAIN d.services
        OBVIOUS
      <3> HIDE DEF items, places
      <3> QED
        BY <2>1, <2>2, <3>1, ItemsAtPlaces, NothingAtNoPlace
    <2>4. places = {} <=> ~failed
      BY DEF Range
    <2> HIDE DEF items, places, failed
    <2>5. /\ a6 = [i \in DOMAIN items |-> a6[i]]
          /\ \A i \in DOMAIN items : a6[i].id = "service-failed"
      BY DEF WarnEach, items
    <2> HIDE DEF a6
    <2> QED
      BY <2>3, <2>4, <2>5, IdsOfEach
  <1>6. IsList(a7) /\ Ids(a7) \cap Told = {}
    <2>1. PICK S : Conflicts(d) \in Seq(S)
      BY ConflictsAreListed
    <2>2. /\ a7 = [i \in DOMAIN Conflicts(d) |-> a7[i]]
          /\ \A i \in DOMAIN Conflicts(d) : a7[i].id = "port-conflict"
      BY DEF WarnEach
    <2> HIDE DEF a7
    <2>3. IsList(a7) /\ Ids(a7) \subseteq {"port-conflict"}
      BY <2>1, <2>2, IdsOfEach
    <2> QED
      BY <2>3
  <1> HIDE DEF a1, a2, a3, a4, a5, a6, a7, a8, failed, late
  <1>7. IsList(a1 \o a2 \o a3) /\ Ids(a1 \o a2 \o a3) = Ids(a1) \union Ids(a2) \union Ids(a3)
    <2>1. IsList(a1 \o a2) /\ Ids(a1 \o a2) = Ids(a1) \union Ids(a2)
      BY <1>1, IdsOfConcat
    <2> QED
      BY <1>2, <2>1, IdsOfConcat
  <1> DEFINE b == a1 \o a2 \o a3
  <1> HIDE DEF b
  <1>8. IsList(b \o a4 \o a5) /\ Ids(b \o a4 \o a5) = Ids(b) \union Ids(a4) \union Ids(a5)
    <2>1. IsList(b \o a4) /\ Ids(b \o a4) = Ids(b) \union Ids(a4)
      BY <1>3, <1>7, IdsOfConcat DEF b
    <2> QED
      BY <1>4, <2>1, IdsOfConcat
  <1> DEFINE e == b \o a4 \o a5
  <1> HIDE DEF e
  <1>9. IsList(e \o a6 \o a7) /\ Ids(e \o a6 \o a7) = Ids(e) \union Ids(a6) \union Ids(a7)
    <2>1. IsList(e \o a6) /\ Ids(e \o a6) = Ids(e) \union Ids(a6)
      BY <1>5, <1>8, IdsOfConcat DEF e
    <2> QED
      BY <1>6, <2>1, IdsOfConcat
  <1>10. /\ IsList(e \o a6 \o a7 \o a8)
         /\ Ids(e \o a6 \o a7 \o a8) = Ids(e \o a6 \o a7) \union Ids(a8)
    BY <1>1, <1>9, IdsOfConcat
  <1>11. DashboardWarnings(d, running) = e \o a6 \o a7 \o a8
    BY <1>0 DEF e, b
  <1>12. Ids(DashboardWarnings(d, running)) = Ids(a1) \union Ids(a2) \union Ids(a3) \union Ids(a4)
           \union Ids(a5) \union Ids(a6) \union Ids(a7) \union Ids(a8)
    BY <1>7, <1>8, <1>9, <1>10, <1>11 DEF e, b
  <1>13. /\ "clock-skew" \in Ids(DashboardWarnings(d, running)) <=> late
         /\ "service-failed" \in Ids(DashboardWarnings(d, running)) <=> failed
         /\ "console-cwd-cross-boundary" \notin Ids(DashboardWarnings(d, running))
    BY <1>1, <1>2, <1>3, <1>4, <1>5, <1>6, <1>12
  <1> QED
    BY <1>10, <1>11, <1>13 DEF failed, late

\* The same of all warnings computed for a snapshot.
LEMMA WarnedIds ==
  ASSUME NEW s, s.dash # None, s.dash \in DashboardSnapshot,
         NEW queries, IsList(LastFailures(queries))
  PROVE  LET ids == Ids(ComputeWarnings(s, queries))
         IN  /\ "clock-skew" \in ids <=>
                  /\ StateOf(s) = "Running" /\ s.dash.clock # None
                  /\ s.dash.clock.skewSeconds # None
                  /\ Abs(s.dash.clock.skewSeconds) >= ClockSkewWarning
             /\ "service-failed" \in ids <=> \E v \in Range(s.dash.services) : Failed(v)
             /\ "console-cwd-cross-boundary" \in ids
                  <=> IsCrossBoundary(ClassifyPathSide(s.cwd, "/mnt/"))
  <1> DEFINE last == LastFailures(queries)
             running == StateOf(s) = "Running"
             a1 == Warn(StateOf(s) = "Stopped", "distro-stopped", None)
             a2 == DashboardWarnings(s.dash, running)
             a3 == Warn(IsCrossBoundary(ClassifyPathSide(s.cwd, "/mnt/")),
                        "console-cwd-cross-boundary", None)
             a4 == WarnEach(last, LAMBDA c : c, "runner-failed")
             a5 == Warn(s.mcp.error # None, "mcp-start-failed", None)
             Told == {"clock-skew", "service-failed", "console-cwd-cross-boundary"}
  <1>0. ComputeWarnings(s, queries) = a1 \o a2 \o a3 \o a4 \o a5
    BY DEF ComputeWarnings
  <1>1. /\ IsList(a1) /\ Ids(a1) \cap Told = {}
        /\ IsList(a5) /\ Ids(a5) \cap Told = {}
    BY OtherWarn
  <1>7. /\ IsList(a3)
        /\ Ids(a3) = IF IsCrossBoundary(ClassifyPathSide(s.cwd, "/mnt/"))
                      THEN {"console-cwd-cross-boundary"} ELSE {}
    BY IdsOfWarn
  <1>2. /\ IsList(a2)
        /\ "clock-skew" \in Ids(a2) <=>
             /\ running /\ s.dash.clock # None /\ s.dash.clock.skewSeconds # None
             /\ Abs(s.dash.clock.skewSeconds) >= ClockSkewWarning
        /\ "service-failed" \in Ids(a2) <=> \E v \in Range(s.dash.services) : Failed(v)
        /\ "console-cwd-cross-boundary" \notin Ids(a2)
    BY DashboardIds
  <1>3. IsList(a4) /\ Ids(a4) \cap Told = {}
    <2>1. last \in Seq(Range(last))
      BY DEF IsList
    <2> HIDE DEF last
    <2>2. /\ a4 = [i \in DOMAIN last |-> a4[i]]
          /\ \A i \in DOMAIN last : a4[i].id = "runner-failed"
      BY DEF WarnEach
    <2> HIDE DEF a4
    <2>3. IsList(a4) /\ Ids(a4) \subseteq {"runner-failed"}
      BY <2>1, <2>2, IdsOfEach
    <2> QED
      BY <2>3
  <1> HIDE DEF a1, a2, a3, a4, a5
  <1>4. IsList(a1 \o a2 \o a3) /\ Ids(a1 \o a2 \o a3) = Ids(a1) \union Ids(a2) \union Ids(a3)
    <2>1. IsList(a1 \o a2) /\ Ids(a1 \o a2) = Ids(a1) \union Ids(a2)
      BY <1>1, <1>2, IdsOfConcat
    <2> QED
      BY <1>7, <2>1, IdsOfConcat
  <1> DEFINE b == a1 \o a2 \o a3
  <1> HIDE DEF b
  <1>5. Ids(b \o a4 \o a5) = Ids(b) \union Ids(a4) \union Ids(a5)
    <2>1. IsList(b \o a4) /\ Ids(b \o a4) = Ids(b) \union Ids(a4)
      BY <1>3, <1>4, IdsOfConcat DEF b
    <2> QED
      BY <1>1, <2>1, IdsOfConcat
  <1>6. Ids(ComputeWarnings(s, queries))
          = Ids(a1) \union Ids(a2) \union Ids(a3) \union Ids(a4) \union Ids(a5)
    BY <1>0, <1>4, <1>5 DEF b
  <1> QED
    BY <1>1, <1>2, <1>3, <1>6, <1>7

\* The last failures of any list are a list.
LEMMA LastIsList ==
  ASSUME NEW S, NEW queries \in Seq(S)
  PROVE  IsList(LastFailures(queries))
  <1> DEFINE index == [i \in DOMAIN queries |-> i]
             Distinct(i) == \A j \in i + 1 .. Len(queries) : queries[j] # queries[i]
             places == {i \in DOMAIN index : Distinct(index[i])}
             all == ItemsAt(index, places)
             first == Max({1, Len(all) - MaxRunnerWarnings + 1})
             cut == SubSeq(all, first, Len(all))
             last == [i \in DOMAIN cut |-> queries[cut[i]]]
  <1>0. LastFailures(queries) = last
    BY DEF LastFailures, Where
  <1>1. index \in Seq(DOMAIN queries) /\ places \in SUBSET DOMAIN index
    OBVIOUS
  <1> HIDE DEF index, places
  <1>2. all \in Seq(DOMAIN queries)
    BY <1>1, ItemsAtPlaces
  <1> HIDE DEF all
  <1>3. first \in Nat /\ first >= 1
    <2>1. Len(all) \in Nat /\ Len(all) - MaxRunnerWarnings + 1 \in Int
      BY <1>2 DEF MaxRunnerWarnings
    <2> QED
      BY <2>1, MaxOf
  <1> HIDE DEF first
  <1>4. cut \in Seq(DOMAIN queries)
    BY <1>2, <1>3
  <1> HIDE DEF cut
  <1>5. last \in Seq(S)
    BY <1>4, PickedList
  <1> QED
    BY <1>0, <1>5, ListOf

\* The remembered failures are a list of queries.
FailureListInv == failures \in Seq(DOMAIN Readings)

\* The start: what is remembered is a list of queries.
LEMMA FailureListInit == Init => FailureListInv
  <1> SUFFICES ASSUME Init PROVE FailureListInv
    OBVIOUS
  <1>1. PICK h \in Histories : failures = h.failed
    BY DEF Init
  <1> QED
    BY <1>1, HistoryAssumption DEF FailureListInv

\* Every step keeps it a list of queries.
LEMMA FailureListNext == FailureListInv /\ [Next]_vars => FailureListInv'
  <1> SUFFICES ASSUME FailureListInv, [Next]_vars PROVE FailureListInv'
    OBVIOUS
  <1> DEFINE S == DOMAIN Readings
  <1>1. \A k : AllBut(failures, k) \in Seq(S)
    <2> TAKE k
    <2> DEFINE places == {i \in DOMAIN failures : failures[i] # k}
    <2>1. AllBut(failures, k) = ItemsAt(failures, places)
      BY DEF AllBut, Where
    <2>2. places \in SUBSET DOMAIN failures
      OBVIOUS
    <2> HIDE DEF places
    <2> QED
      BY <2>1, <2>2, ItemsAtPlaces DEF FailureListInv
  <1>2. ASSUME NEW k, Collected(k) \/ LateAnswer(k)
        PROVE  FailureListInv'
    BY <1>1, <1>2 DEF Collected, LateAnswer, FailureListInv
  <1>3. ASSUME NEW k \in DOMAIN Readings, CollectFailed(k) \/ LateFailure(k)
        PROVE  FailureListInv'
    <2> DEFINE all == Append(AllBut(failures, k), k)
               first == Max({1, Len(all) - MaxTrackedRunnerFailures + 1})
    <2>1. all \in Seq(S)
      BY <1>1
    <2>2. failures' = SubSeq(all, first, Len(all))
      BY <1>3 DEF CollectFailed, LateFailure, Note, NoteRunnerFailure
    <2> HIDE DEF all
    <2>3. first \in Nat /\ first >= 1
      <3>1. Len(all) \in Nat /\ Len(all) - MaxTrackedRunnerFailures + 1 \in Int
        BY <2>1 DEF MaxTrackedRunnerFailures
      <3> QED
        BY <3>1, MaxOf
    <2> HIDE DEF first
    <2> QED
      BY <2>1, <2>2, <2>3 DEF FailureListInv
  <1>4. ASSUME failures' \in {failures, <<>>}
        PROVE  FailureListInv'
    <2>1. <<>> \in Seq(DOMAIN Readings)
      OBVIOUS
    <2>2. failures' \in Seq(DOMAIN Readings)
      BY <1>4, <2>1 DEF FailureListInv
    <2> QED
      BY <2>2 DEF FailureListInv
  <1>5. ASSUME TierEnds \/ SetTerminalContext \/ SetExplorerContext \/ SetMcpStatus
               \/ \E alive \in BOOLEAN : ProbeDistro(alive)
        PROVE  FailureListInv'
    BY <1>4, <1>5 DEF TierEnds, SetTerminalContext, SetExplorerContext, SetMcpStatus, ProbeDistro
  <1>6. ASSUME SetDistro PROVE FailureListInv'
    BY <1>4, <1>6 DEF SetDistro, SelectInternal
  <1>7. ASSUME ListDistros PROVE FailureListInv'
    BY <1>4, <1>7 DEF ListDistros, SelectInternal
  <1>8. ASSUME UNCHANGED vars PROVE FailureListInv'
    BY <1>4, <1>8 DEF vars
  <1> QED
    BY SlowAssumption, <1>2, <1>3, <1>5, <1>6, <1>7, <1>8 DEF Next

\* The clock: ten seconds are a warning and a problem, and no clock that is warned of or
\* called broken is healthy to another judge.
LEMMA ClockAgrees ==
  ASSUME NEW d \in DashboardSnapshot
  PROVE  LET late == /\ d.clock # None /\ d.clock.skewSeconds # None
                     /\ Abs(d.clock.skewSeconds) >= ClockSkewWarning
         IN  /\ late <=> ClockCheck(d) = "problem"
             /\ late => CheckClockSkew(d) # "healthy"
             /\ CheckClockSkew(d) = "error" => late
  <1>1. d.clock # None => d.clock.skewSeconds \in Int \union {None}
    BY DEF DashboardSnapshot, Maybe, ClockInfo
  <1>2. \A n \in Int : Abs(n) \in Int
    BY DEF Abs
  <1> DEFINE n == Abs(d.clock.skewSeconds)
  <1>3. ClockCheck(d) = IF d.clock = None THEN "unknown"
                        ELSE IF d.clock.skewSeconds = None THEN "unknown"
                        ELSE IF n >= 10 THEN "problem" ELSE "ok"
    BY DEF ClockCheck, OkUnless, ClockSkewWarnSeconds
  <1>4. CheckClockSkew(d) = IF d.clock = None THEN "unknown"
                            ELSE IF d.clock.skewSeconds = None THEN "unknown"
                            ELSE IF n <= 2 THEN "healthy" ELSE IF n <= 30 THEN "warning" ELSE "error"
    BY DEF CheckClockSkew
  <1>5. ClockSkewWarning = 10
    BY DEF ClockSkewWarning, ClockSkewWarnSeconds
  <1>6. d.clock # None /\ d.clock.skewSeconds # None => n \in Int
    BY <1>1, <1>2
  <1> HIDE DEF n
  <1> QED
    BY <1>3, <1>4, <1>5, <1>6 DEF n

\* The services: one that failed is ok to nobody.
LEMMA ServicesAgree ==
  ASSUME NEW s, s.dash \in DashboardSnapshot
  PROVE  LET failed == \E v \in Range(s.dash.services) : Failed(v)
         IN  /\ failed => /\ ServicesCheck(s) # "ok"
                          /\ CheckSystemdDocker(s.dash) \in {"error", "unknown"}
             /\ ServicesCheck(s) = "problem" => failed
  <1> DEFINE places == {i \in DOMAIN s.dash.services : Failed(s.dash.services[i])}
             failed == \E v \in Range(s.dash.services) : Failed(v)
  <1>1. s.dash.services \in Seq(ServiceInfo) /\ places \in SUBSET DOMAIN s.dash.services
    BY DEF DashboardSnapshot
  <1>2. Where(s.dash.services, Failed) = ItemsAt(s.dash.services, places)
    BY DEF Where
  <1>3. failed <=> places # {}
    BY DEF Range
  <1> HIDE DEF places
  <1>4. Where(s.dash.services, Failed) # <<>> <=> failed
    BY <1>1, <1>2, <1>3, NothingAtNoPlace
  <1>5. failed => CheckSystemdDocker(s.dash) \in {"error", "unknown"}
    BY <1>4 DEF CheckSystemdDocker
  <1> HIDE DEF failed
  <1>6. /\ failed => ServicesCheck(s) # "ok"
        /\ ServicesCheck(s) = "problem" => failed
    BY DEF ServicesCheck, OkUnless, failed
  <1> QED
    BY <1>5, <1>6 DEF failed

\* The root: low for the warnings exactly when the doctor calls its headroom a problem.
LEMMA HeadroomAgrees ==
  ASSUME NEW d \in DashboardSnapshot,
         d.resources \in Readings["resources"] \union {EmptySections.resources}
  PROVE  (\E v \in Range(d.resources.disks) :
            v.mountPoint = "/" /\ v.exists /\ v.usePercent # None
            /\ v.usePercent >= DiskProblemPercent)
         = (HeadroomCheck(d) = "problem")
  <1> DEFINE disks == d.resources.disks
             root == {v \in Range(disks) : v.mountPoint = "/" /\ v.exists}
             low == \E v \in Range(disks) : v.mountPoint = "/" /\ v.exists /\ v.usePercent # None
                                            /\ v.usePercent >= DiskProblemPercent
             the == CHOOSE v \in root : TRUE
  <1>1. \A v, w \in root : v = w
    <2>1. CASE d.resources = EmptySections.resources
      <3>1. disks = <<>>
        BY <2>1, EmptyParts
      <3> QED
        BY <3>1 DEF Range
    <2>2. CASE d.resources \in Readings["resources"]
      <3>1. PICK i \in DOMAIN disks : \A j \in DOMAIN disks : disks[j].mountPoint = "/" <=> j = i
        BY <2>2, ReadingsAssumption
      <3>2. \A v \in root : v = disks[i]
        BY <3>1 DEF Range
      <3> QED
        BY <3>2
    <2> QED
      BY <2>1, <2>2
  <1>2. low <=> \E v \in root : v.usePercent # None /\ v.usePercent >= DiskProblemPercent
    OBVIOUS
  <1>3. HeadroomCheck(d) = IF \A v \in root : v.usePercent = None THEN "unknown"
                           ELSE IF the.usePercent >= DiskProblemPercent THEN "problem"
                           ELSE IF the.usePercent >= DiskAttentionPercent THEN "attention"
                           ELSE "ok"
    BY DEF HeadroomCheck, OkUnless
  <1> HIDE DEF root, low
  <1>4. CASE root = {}
    BY <1>2, <1>3, <1>4 DEF low
  <1>5. CASE root # {}
    <2>1. the \in root /\ \A v \in root : v = the
      BY <1>1, <1>5
    <2> HIDE DEF the
    <2> QED
      BY <1>2, <1>3, <2>1 DEF low
  <1> QED
    BY <1>4, <1>5

\* Of a dashboard of its type, the two doctors and the warnings judge alike.
LEMMA ReportsHold == TypeOK /\ AnsweredInv /\ FailureListInv => ReportsAgree
  <1> SUFFICES ASSUME TypeOK, AnsweredInv, FailureListInv, dash # None PROVE ReportsAgree
    BY DEF ReportsAgree
  <1> DEFINE agent == Checks(Build)
             desktop == RunDoctor(dash)
             warned == {w.id : w \in Range(ComputeWarnings(Build, failures))}
             late == /\ dash.clock # None /\ dash.clock.skewSeconds # None
                     /\ Abs(dash.clock.skewSeconds) >= ClockSkewWarning
             failed == \E v \in Range(dash.services) : Failed(v)
  <1>1. dash \in DashboardSnapshot /\ Build.dash = dash
    BY TypeParts, BuildFields
  <1>2. /\ agent["clock-skew"] = ClockCheck(dash) /\ agent["services"] = ServicesCheck(Build)
        /\ agent["disk-headroom"] = HeadroomCheck(dash)
        /\ agent["windows-binaries"] = BinariesCheck(dash) /\ agent["dns"] = DnsCheck(dash)
        /\ agent["docker"] = DockerCheck(dash) /\ agent["cwd-boundary"] = CwdCheck(Build)
    BY <1>1 DEF Checks, CheckIds
  <1>3. /\ desktop.clockSkew = CheckClockSkew(dash)
        /\ desktop.systemdDocker = CheckSystemdDocker(dash)
        /\ desktop.binaryShadowing = CheckBinaryShadowing(dash)
        /\ desktop.dnsConfig = CheckDns(dash)
    BY DEF RunDoctor
  <1>4. /\ "clock-skew" \in warned <=> StateOf(Build) = "Running" /\ late
        /\ "service-failed" \in warned <=> failed
        /\ "console-cwd-cross-boundary" \in warned
             <=> IsCrossBoundary(ClassifyPathSide(Build.cwd, "/mnt/"))
    <2>1. IsList(LastFailures(failures))
      BY LastIsList DEF FailureListInv
    <2>2. warned = Ids(ComputeWarnings(Build, failures))
      BY DEF Ids
    <2> QED
      BY <1>1, <2>1, <2>2, WarnedIds
  <1>5. /\ late <=> ClockCheck(dash) = "problem"
        /\ late => CheckClockSkew(dash) # "healthy"
        /\ CheckClockSkew(dash) = "error" => late
    BY <1>1, ClockAgrees
  <1>6. /\ failed => /\ ServicesCheck(Build) # "ok"
                     /\ CheckSystemdDocker(dash) \in {"error", "unknown"}
        /\ ServicesCheck(Build) = "problem" => failed
    BY <1>1, ServicesAgree
  <1>7. (\E v \in Range(dash.resources.disks) :
            v.mountPoint = "/" /\ v.exists /\ v.usePercent # None
            /\ v.usePercent >= DiskProblemPercent)
         = (HeadroomCheck(dash) = "problem")
    BY <1>1, HeadroomAgrees DEF AnsweredInv
  <1>8. CheckBinaryShadowing(dash) = "warning" => BinariesCheck(dash) # "ok"
    <2> DEFINE places == {i \in DOMAIN dash.tools : Shadowed(dash.tools[i])}
    <2>1. dash.tools \in Seq(ToolInfo) /\ places \in SUBSET DOMAIN dash.tools
      BY <1>1 DEF DashboardSnapshot
    <2>2. Where(dash.tools, Shadowed) = ItemsAt(dash.tools, places)
      BY DEF Where
    <2>3. places # {} <=> \E t \in Range(dash.tools) : Shadowed(t)
      BY DEF Range
    <2> HIDE DEF places
    <2>4. Where(dash.tools, Shadowed) # <<>> <=> \E t \in Range(dash.tools) : Shadowed(t)
      BY <2>1, <2>2, <2>3, NothingAtNoPlace
    <2>5. CheckBinaryShadowing(dash) = "warning" => Where(dash.tools, Shadowed) # <<>>
      BY DEF CheckBinaryShadowing
    <2>6. (\E t \in Range(dash.tools) : Shadowed(t)) => BinariesCheck(dash) # "ok"
      BY DEF BinariesCheck, OkUnless
    <2> QED
      BY <2>4, <2>5, <2>6
  <1>9. /\ CheckDns(dash) = "error" => DnsCheck(dash) = "unknown"
        /\ CheckDns(dash) = "warning" => DnsCheck(dash) # "ok"
        /\ DnsCheck(dash) = "problem" /\ CheckDns(dash) = "healthy" =>
             dash.dns.generateResolvConf \/ dash.dns.isGeneratedSymlink
    <2>1. /\ CheckDns(dash) = "error" => DnsCheck(dash) = "unknown"
          /\ CheckDns(dash) = "warning" => DnsCheck(dash) # "ok"
      BY DEF CheckDns, DnsCheck, OkUnless
    <2>2. DnsCheck(dash) = "problem" => dash.dns.nameservers = <<>>
      BY DEF DnsCheck, OkUnless
    <2>3. CheckDns(dash) = "healthy" /\ dash.dns.nameservers = <<>> =>
            dash.dns.generateResolvConf \/ dash.dns.isGeneratedSymlink
      BY DEF CheckDns
    <2> QED
      BY <2>1, <2>2, <2>3
  <1>13. DockerCheck(dash) = "problem" => CheckSystemdDocker(dash) # "healthy"
    <2>1. DockerCheck(dash) = "problem" => dash.docker # None /\ dash.docker.error # None
      BY DEF DockerCheck, DockerStatus, OrNull
    <2> QED
      BY <2>1 DEF CheckSystemdDocker
  <1>14. IsCrossBoundary(ClassifyPathSide(Build.cwd, "/mnt/")) /\ CwdCheck(Build) = "ok" =>
           AutomountRoot(dash) # "/mnt/"
    BY <1>1 DEF CwdCheck, OkUnless
  <1> HIDE DEF agent, desktop, warned, late, failed
  <1>10. /\ "clock-skew" \in warned => agent["clock-skew"] = "problem"
                                       /\ desktop.clockSkew # "healthy"
         /\ desktop.clockSkew = "error" => agent["clock-skew"] = "problem"
         /\ agent["clock-skew"] = "problem" /\ StateOf(Build) = "Running" => "clock-skew" \in warned
    BY <1>2, <1>3, <1>4, <1>5
  <1>11. /\ "service-failed" \in warned =>
              agent["services"] # "ok" /\ desktop.systemdDocker \in {"error", "unknown"}
         /\ agent["services"] = "problem" => "service-failed" \in warned
    BY <1>2, <1>3, <1>4, <1>6
  <1>12. /\ desktop.binaryShadowing = "warning" => agent["windows-binaries"] # "ok"
         /\ desktop.dnsConfig = "error" => agent["dns"] = "unknown"
         /\ desktop.dnsConfig = "warning" => agent["dns"] # "ok"
         /\ agent["dns"] = "problem" /\ desktop.dnsConfig = "healthy" =>
              dash.dns.generateResolvConf \/ dash.dns.isGeneratedSymlink
    BY <1>2, <1>3, <1>8, <1>9
  <1>15. /\ agent["docker"] = "problem" => desktop.systemdDocker # "healthy"
         /\ "console-cwd-cross-boundary" \in warned /\ agent["cwd-boundary"] = "ok" =>
              AutomountRoot(dash) # "/mnt/"
    BY <1>2, <1>3, <1>4, <1>13, <1>14
  <1> QED
    BY <1>2, <1>7, <1>10, <1>11, <1>12, <1>15 DEF ReportsAgree, agent, desktop, warned

\* On the facts they share the warnings card, the desktop's doctor and the agents' doctor do
\* not contradict each other, for whatever the queries answer, but in two named cases: a
\* resolv.conf of WSL's own without a nameserver, and a directory under another automount
\* root.
THEOREM JudgesAgree == Spec => []ReportsAgree
  <1>1. Spec => []AnsweredInv
    BY TypeCorrect, AnsweredInit, AnsweredNext, PTL DEF Spec
  <1>2. Spec => []FailureListInv
    BY FailureListInit, FailureListNext, PTL DEF Spec
  <1> QED
    BY <1>1, <1>2, TypeCorrect, ReportsHold, PTL

-----------------------------------------------------------------------------
(* Tools *)

\* A fact is answered with what was read, and what nothing holds is not found.
LEMMA FactsHold == TypeOK => FactsOrNothing
  <1> SUFFICES ASSUME TypeOK, dash # None PROVE FactsOrNothing
    BY DEF FactsOrNothing
  <1>1. dash \in DashboardSnapshot /\ Build.dash = dash
    BY TypeParts, BuildFields
  <1>2. ASSUME NEW tool \in DOMAIN FactTools
        PROVE  CallFact(Build, tool).data = dash[FactTools[tool]]
    BY <1>1 DEF CallFact, WithDashboard, OrNull, Ok
  <1>3. ASSUME NEW tool \in DOMAIN LateFactTools
        PROVE  CallLateFact(Build, tool).data = dash[LateFactTools[tool]]
    BY <1>1 DEF CallLateFact, WithDashboard, OrNull, Ok
  <1>4. ASSUME NEW name \in {"docker", "postgres"}
        PROVE  CallFind(Build, "GetService", name).isError
                 = (name \notin {u.name : u \in Range(dash.services)})
    <2> DEFINE places == {i \in DOMAIN dash.services : dash.services[i].name = name}
               hits == ItemsAt(dash.services, places)
    <2>1. dash.services \in Seq(ServiceInfo) /\ places \in SUBSET DOMAIN dash.services
      BY <1>1 DEF DashboardSnapshot
    <2>2. places = {} <=> name \notin {u.name : u \in Range(dash.services)}
      BY DEF Range
    <2>3. CallFind(Build, "GetService", name)
            = LET found == IF hits = <<>> THEN None ELSE hits[1]
              IN  IF found = None THEN Fail("not-found") ELSE Ok(None, found)
      BY <1>1 DEF CallFind, WithDashboard, First, Where, OrEmpty
    <2> HIDE DEF places, hits
    <2>4. hits \in Seq(ServiceInfo) /\ (hits = <<>> <=> places = {})
      BY <2>1, ItemsAtPlaces, NothingAtNoPlace DEF hits
    <2>5. hits # <<>> => hits[1] \in ServiceInfo
      BY <2>4
    <2> DEFINE found == IF hits = <<>> THEN None ELSE hits[1]
    <2>6. found = None <=> places = {}
      BY <2>4, <2>5, NoneAssumption
    <2>7. CallFind(Build, "GetService", name).isError = (found = None)
      <3> HIDE DEF found
      <3>1. CallFind(Build, "GetService", name)
              = IF found = None THEN Fail("not-found") ELSE Ok(None, found)
        BY <2>3 DEF found
      <3>2. Fail("not-found").isError = TRUE /\ Ok(None, found).isError = FALSE
        BY DEF Fail, Ok
      <3>3. CASE found = None
        BY <3>1, <3>2, <3>3
      <3>4. CASE found # None
        BY <3>1, <3>2, <3>4
      <3> QED
        BY <3>3, <3>4
    <2> HIDE DEF found
    <2> QED
      BY <2>2, <2>6, <2>7
  <1>5. ASSUME NEW port \in {80, 99}, CallPortOwner(Build, port).summary = "nothing-listening"
        PROVE  \A p \in Range(dash.ports) : p.port # port
    <2> DEFINE places == {i \in DOMAIN dash.ports : dash.ports[i].port = port}
               mine == ItemsAt(dash.ports, places)
               own == PortOwnership(dash, port)
    <2>1. dash.ports \in Seq(PortInfo) /\ places \in SUBSET DOMAIN dash.ports
      BY <1>1 DEF DashboardSnapshot
    <2>2. mine \in Seq(PortInfo) /\ (mine = <<>> <=> places = {})
      <3> HIDE DEF places
      <3> QED
        BY <2>1, ItemsAtPlaces, NothingAtNoPlace
    <2>3. places = {} <=> \A p \in Range(dash.ports) : p.port # port
      BY DEF Range
    <2>4. own.linux = IF First(mine, Listening) # None \/ mine = <<>>
                      THEN First(mine, Listening) ELSE mine[1]
      BY DEF PortOwnership, Where
    <2>5. CallPortOwner(Build, port).summary = DescribeOwnership(own)
      BY <1>1 DEF CallPortOwner, WithDashboard, Ok
    <2> HIDE DEF places, mine, own
    <2>6. own.linux = None
      BY <1>5, <2>5 DEF DescribeOwnership
    <2>7. mine # <<>> => mine[1] \in PortInfo
      BY <2>2
    <2> QED
      BY <2>2, <2>3, <2>4, <2>6, <2>7, NoneAssumption
  <1> QED
    BY <1>2, <1>3, <1>4, <1>5 DEF FactsOrNothing

\* What cannot be answered is an error, and only that.
LEMMA ErrorsHold == ErrorsAreErrors
  <1>1. ASSUME NEW tool \in OverviewTools \ {"GetDistros", "GetSelectedDistro"}
        PROVE  CallOverview(Build, tool).isError = (dash = None)
    BY BuildFields DEF CallOverview, OverviewTools, WithDashboard, Ok, Fail
  <1>2. GetCommandResolution(Build, None).isError
    BY DEF GetCommandResolution, WithDistro, Fail
  <1>3. ASSUME NEW path \in {"linux", "windows", "neither"}
        PROVE  GetPathMapping(Build, path, [linux |-> "windows", windows |-> "linux"]).isError
                 = (selected = None \/ path = "neither")
    BY BuildFields DEF GetPathMapping, WithDistro, Ok, Fail
  <1>4. selected # None =>
          GetServiceLog(Build, [lines |-> <<>>, error |-> "text"]).summary = "text"
    BY BuildFields, NoneAssumption DEF GetServiceLog, WithDistro, Ok
  <1> QED
    BY <1>1, <1>2, <1>3, <1>4 DEF ErrorsAreErrors

\* The value of a secret is only ever held under a variable that is known to be one.
Marked(d) ==
  d # None => \A i \in DOMAIN d.environment :
                d.environment[i].value = "secret" => IsSecret(d.environment[i])
MarkedInv == Marked(dash) /\ Marked(current.dash)

\* Where nothing has been read no secret is held.
LEMMA MarkedEmpty == Marked(EmptySections) /\ Marked(None)
  BY DEF Marked, EmptySections

\* An answer on the environment fills that field alone, with what was read.
LEMMA FilledEnvironment ==
  ASSUME NEW v
  PROVE  Filled("environment", v, "environment") = v /\ FieldsOf("environment") = {"environment"}
  BY DEF Filled, FieldsOf

\* The start: every secret held is marked as one.
LEMMA MarkedInit == Init => MarkedInv
  <1> SUFFICES ASSUME Init PROVE MarkedInv
    OBVIOUS
  <1>0. PICK seen \in Histories : dash = AfterHistory(seen.read)
    BY DEF Init
  <1> DEFINE h == seen.read
  <1>1. dash = AfterHistory(h)
    BY <1>0
  <1>2. /\ DOMAIN h \subseteq SectionIds /\ \A k \in DOMAIN h : h[k] \in Readings[k]
        /\ DOMAIN Readings = SectionIds
    BY HistoryAssumption, ReadingsAssumption
  <1> HIDE DEF h
  <1>3. "environment" \in DOMAIN EmptySections
    BY DEF EmptySections
  <1>4. dash.environment \in Readings["environment"] \union {EmptySections.environment}
    <2> DEFINE fills == {k \in DOMAIN h : "environment" \in FieldsOf(k)}
    <2>1. \A k \in fills : k = "environment"
      BY <1>2 DEF FieldsOf, SectionIds
    <2>2. dash.environment
            = IF fills = {} THEN EmptySections.environment
              ELSE LET k == CHOOSE k \in fills : TRUE IN Filled(k, h[k], "environment")
      BY <1>1, <1>3 DEF AfterHistory
    <2>3. CASE fills = {}
      BY <2>2, <2>3
    <2>4. CASE fills # {}
      <3>1. fills = {"environment"}
        BY <2>1, <2>4
      <3>2. "environment" \in DOMAIN h
        BY <3>1
      <3> HIDE DEF fills
      <3>3. (CHOOSE k \in fills : TRUE) = "environment"
        BY <3>1
      <3>4. dash.environment = Filled("environment", h["environment"], "environment")
        BY <2>2, <3>1, <3>3
      <3> QED
        BY <1>2, <3>2, <3>4, FilledEnvironment
    <2> QED
      BY <2>3, <2>4
  <1>5. Marked(dash)
    BY <1>4, MarkedEmpty, ReadingsAssumption, EmptyType, NoneAssumption DEF Marked
  <1>6. current.dash = dash
    BY BuildFields DEF Init
  <1> QED
    BY <1>5, <1>6 DEF MarkedInv

\* Every step keeps every secret held marked as one.
LEMMA MarkedNext == TypeOK /\ MarkedInv /\ [Next]_vars => MarkedInv'
  <1> SUFFICES ASSUME TypeOK, MarkedInv, [Next]_vars PROVE MarkedInv'
    OBVIOUS
  <1>0. Build'.dash = dash'
    BY DEF Build, Fields
  <1>1. ASSUME Marked(dash'), Publish \/ current' = current
        PROVE  MarkedInv'
    BY <1>0, <1>1 DEF MarkedInv, Publish, Marked
  <1>2. ASSUME NEW k \in DOMAIN Readings, Collected(k)
        PROVE  MarkedInv'
    <2>1. PICK v \in Readings[k] : dash' = Apply(dash, k, v)
      BY <1>2 DEF Collected
    <2>2. dash # None /\ DOMAIN dash = FieldNames
      BY <1>2, TypeParts, FieldsOfDashboard DEF Collected, Asked
    <2>3. dash'.environment = IF "environment" \in FieldsOf(k) THEN Filled(k, v, "environment")
                              ELSE dash.environment
      BY <2>1, <2>2 DEF Apply, FieldNames
    <2>4. "environment" \in FieldsOf(k) => k = "environment"
      BY ReadingsAssumption DEF FieldsOf, SectionIds
    <2>5. dash'.environment \in Readings["environment"] \union {dash.environment}
      BY <2>3, <2>4, FilledEnvironment
    <2>6. Marked(dash')
      BY <2>2, <2>5, ReadingsAssumption DEF Marked, MarkedInv
    <2> QED
      BY <1>1, <1>2, <2>6 DEF Collected
  <1>3. ASSUME NEW k \in DOMAIN Readings, CollectFailed(k)
        PROVE  MarkedInv'
    <2>1. dash # None /\ DOMAIN dash = FieldNames
      BY <1>3, TypeParts, FieldsOfDashboard DEF CollectFailed, Asked
    <2>2. dash'.environment = dash.environment
      BY <1>3, <2>1 DEF CollectFailed
    <2>3. Marked(dash')
      BY <2>1, <2>2 DEF Marked, MarkedInv
    <2> QED
      BY <1>1, <1>3, <2>3 DEF CollectFailed
  <1>4. ASSUME UNCHANGED dash, Publish \/ current' = current
        PROVE  MarkedInv'
    BY <1>1, <1>4 DEF MarkedInv
  <1>5. ASSUME TierEnds \/ SetTerminalContext \/ SetExplorerContext \/ SetMcpStatus
               \/ \E alive \in BOOLEAN : ProbeDistro(alive)
               \/ \E k \in Slow : LateAnswer(k) \/ LateFailure(k)
        PROVE  MarkedInv'
    BY <1>4, <1>5 DEF TierEnds, SetTerminalContext, SetExplorerContext, SetMcpStatus, ProbeDistro,
                     LateAnswer, LateFailure
  <1>6. ASSUME SetDistro PROVE MarkedInv'
    BY <1>1, <1>6, MarkedEmpty DEF SetDistro, SelectInternal
  <1>7. ASSUME ListDistros PROVE MarkedInv'
    BY <1>1, <1>4, <1>7, MarkedEmpty DEF ListDistros, SelectInternal
  <1>8. ASSUME UNCHANGED vars PROVE MarkedInv'
    BY <1>4, <1>8 DEF vars
  <1> QED
    BY <1>2, <1>3, <1>5, <1>6, <1>7, <1>8 DEF Next

\* What leaves a list of variables, and what the context says of two of them, is no secret.
LEMMA Sanitized ==
  ASSUME NEW d \in DashboardSnapshot, d # None, Marked(d)
  PROVE  /\ \A v \in Range(SanitizeEnvironment(d.environment)) : v.value # "secret"
         /\ \A name : PlainEnvValue(d, name) # "secret"
  <1>1. d.environment \in Seq(EnvironmentVariableInfo)
    BY DEF DashboardSnapshot
  <1> DEFINE env == d.environment
  <1>2. \A i \in DOMAIN env : env[i] \in EnvironmentVariableInfo
    BY <1>1
  <1>3. ASSUME NEW i \in DOMAIN env
        PROVE  SanitizeEnvironment(env)[i].value # "secret"
    <2>1. SanitizeEnvironment(env)[i]
            = IF IsSecret(env[i]) THEN [env[i] EXCEPT !.value = "masked"] ELSE env[i]
      BY DEF SanitizeEnvironment
    <2>2. CASE IsSecret(env[i])
      <3>1. [env[i] EXCEPT !.value = "masked"].value = "masked"
        BY <1>2 DEF EnvironmentVariableInfo
      <3> QED
        BY <2>1, <2>2, <3>1
    <2>3. CASE ~IsSecret(env[i])
      BY <2>1, <2>3 DEF Marked
    <2> QED
      BY <2>2, <2>3
  <1>4. \A v \in Range(SanitizeEnvironment(env)) : v.value # "secret"
    <2>1. DOMAIN SanitizeEnvironment(env) = DOMAIN env
      BY DEF SanitizeEnvironment
    <2> QED
      BY <1>3, <2>1 DEF Range
  <1>5. ASSUME NEW name
        PROVE  PlainEnvValue(d, name) # "secret"
    <2> DEFINE found == {v \in Range(env) : v.name = name}
               v == CHOOSE v \in found : TRUE
    <2>1. PlainEnvValue(d, name) = IF found = {} THEN None
                                   ELSE IF IsSecret(v) \/ v.value = "masked" THEN None ELSE v.value
      BY DEF PlainEnvValue, OrEmpty
    <2>2. found # {} => v \in Range(env)
      OBVIOUS
    <2> HIDE DEF found, v
    <2>3. \A w \in Range(env) : w.value = "secret" => IsSecret(w)
      BY DEF Marked, Range
    <2> QED
      BY <2>1, <2>2, <2>3, NoneAssumption
  <1> QED
    BY <1>4, <1>5

\* What is marked as a secret is told by no tool and printed in no context.
LEMMA SecretsHold == TypeOK /\ MarkedInv => SecretsStay
  <1> SUFFICES ASSUME TypeOK, MarkedInv PROVE SecretsStay
    OBVIOUS
  <1> DEFINE d == current.dash
             c == BuildContext(current)
  <1>1. Marked(d) /\ (d # None => d \in DashboardSnapshot)
    BY TypeParts DEF MarkedInv
  <1>2. \A name : PlainEnvValue(d, name) # "secret"
    <2>1. CASE d = None
      <3>1. Range(<<>>) = {}
        BY DEF Range
      <3> QED
        BY <2>1, <3>1, NoneAssumption DEF PlainEnvValue, OrEmpty
    <2>2. CASE d # None
      BY <1>1, <2>2, Sanitized
    <2> QED
      BY <2>1, <2>2
  <1>3. c.path.entries = PlainEnvValue(d, "PATH") /\ c.path.wslenv = PlainEnvValue(d, "WSLENV")
    <2>1. c.path = BuildPath(d)
      BY ContextParts
    <2> HIDE DEF c, d
    <2> QED
      BY <2>1 DEF BuildPath
  <1>4. "secret" \notin EnvironmentValues(current)
    <2> DEFINE whole == CallOverview(current, "GetDashboardSnapshot")
               list == CallList(current, "GetEnvironment")
    <2>1. /\ whole.isError <=> d = None
          /\ d # None => whole.data.dashboard
                           = [d EXCEPT !.environment = SanitizeEnvironment(d.environment)]
      BY DEF CallOverview, WithDashboard, Ok, Fail
    <2>2. /\ list.isError <=> d = None
          /\ d # None => list.data = SanitizeEnvironment(d.environment)
      BY DEF CallList, WithDashboard, ListTools, OrEmpty, Ok, Fail
    <2>3. ~whole.isError => \A v \in Range(whole.data.dashboard.environment) : v.value # "secret"
      <3> SUFFICES ASSUME d # None
                   PROVE  \A v \in Range(whole.data.dashboard.environment) : v.value # "secret"
        BY <2>1
      <3>1. [d EXCEPT !.environment = SanitizeEnvironment(d.environment)].environment
              = SanitizeEnvironment(d.environment)
        BY <1>1 DEF DashboardSnapshot
      <3> QED
        BY <1>1, <2>1, <3>1, Sanitized
    <2>4. ~list.isError => \A v \in Range(list.data) : v.value # "secret"
      BY <1>1, <2>2, Sanitized
    <2>5. /\ CallDerived(current, "GetDeveloperEnvironmentContext").data.context = c
      BY DEF CallDerived, Ok
    <2> HIDE DEF whole, list, c, d
    <2>6. EnvironmentValues(current)
            = (IF whole.isError THEN {}
               ELSE {v.value : v \in Range(whole.data.dashboard.environment)})
              \union (IF list.isError THEN {} ELSE {v.value : v \in Range(list.data)})
              \union {c.path.entries, c.path.wslenv}
      BY <2>5 DEF EnvironmentValues, whole, list
    <2> QED
      BY <1>2, <1>3, <2>3, <2>4, <2>6
  <1>5. ASSUME NEW preset \in {"default", "bug-report", "agent-context"}
        PROVE  "secret" \notin SnapshotToMarkdown(current, preset).env
    <2>1. DefaultMarkdown(current).env = {} /\ BugReportMarkdown(current).env = {}
      BY DEF DefaultMarkdown, BugReportMarkdown
    <2>2. AgentContextMarkdown(current).env \subseteq {c.path.entries, c.path.wslenv}
      BY DEF AgentContextMarkdown, DevEnvContextToMarkdown
    <2> HIDE DEF c, d
    <2> QED
      BY <1>2, <1>3, <2>1, <2>2 DEF SnapshotToMarkdown
  <1>6. ASSUME NEW path \in DOMAIN Files,
               ~GetTextFile(current, path, Files, {}, {}).isError
        PROVE  GetTextFile(current, path, Files, {}, {}).data.content
                 \notin {"private-key", "secret-assignment"}
    <2> DEFINE masked == MaskTextFileContent(path, Files[path], {})
    <2>1. masked.content \notin {"private-key", "secret-assignment"}
      BY DEF MaskTextFileContent
    <2>2. GetTextFile(current, path, Files, {}, {})
            \in {Ok(masked.warning, masked), Fail("binary-file"), Fail("no-distro-selected")}
      BY DEF GetTextFile, WithDistro
    <2> HIDE DEF masked
    <2> QED
      BY <1>6, <2>1, <2>2 DEF Ok, Fail
  <1> QED
    BY <1>4, <1>5, <1>6 DEF SecretsStay

\* Whatever the queries answer, no answer, export or tool carries a secret, a fact is
\* answered with what was read or with null, and what cannot be answered is an error.
THEOREM ToolsAnswerWhatIsKnown == Spec => [](SecretsStay /\ FactsOrNothing /\ ErrorsAreErrors)
  <1>1. Spec => []MarkedInv
    BY TypeCorrect, MarkedInit, MarkedNext, PTL DEF Spec
  <1>2. TypeOK /\ MarkedInv => SecretsStay /\ FactsOrNothing /\ ErrorsAreErrors
    BY SecretsHold, FactsHold, ErrorsHold
  <1> QED
    BY <1>1, <1>2, TypeCorrect, PTL
=============================================================================
