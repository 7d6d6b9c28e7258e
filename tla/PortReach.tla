------------------------------ MODULE PortReach ------------------------------
(***************************************************************************)
(* Who can connect to a port a program in the distro listens on: the       *)
(* verdict of src/main/wsl/reachability.ts on readings that come from four *)
(* places at four rates, each with a cache of its own: the sockets of the  *)
(* distro (ports.ts), the listener table of Windows (windows-ports.ts),    *)
(* the Hyper-V firewall (firewall.ts) and the networking mode.  Beside it  *)
(* the forwarding rules of Windows (portproxy.ts), judged against the      *)
(* address of the distro.                                                  *)
(*                                                                         *)
(* The world moves on meanwhile.  `behind' is history: the readings, and   *)
(* what is derived from them, that have not been renewed since the world   *)
(* last changed.  The time to live of a cache ends by an action.           *)
(***************************************************************************)
EXTENDS Integers, FiniteSets

CONSTANTS
  Nil,      \* null
  Addresses, \* addresses WSL hands out
  Starts,    \* what may hold when the app starts, and the host reads of the provider:
             \* [world, offers], the last a set of caches
  Changes,   \* bound: how often the world may change
  Failures   \* bound: how many reads may fail

BindScopes == {"none", "loopback", "address", "wildcard"}
Caches == {"table", "fw", "rules"}
Audiences == {"unreachable", "loopback-only", "windows-only", "lan"}
Rulings == {"live", "stale", "elsewhere", "unknown"}

\* Where Windows listens for what it forwards to the distro.
Relays == {"none", "loopback", "all"}

\* What there may be: the socket, what forwards the port to it, whether another
\* program has it, how WSL is connected, the firewall of its VM, and a forwarding rule.
Networks ==
  [sock : BindScopes, relay : Relays, other : BOOLEAN, mode : {"nat", "mirrored"},
   fw : [on : BOOLEAN, blocks : BOOLEAN, exempts : BOOLEAN],
   ip : Addresses, rule : Addresses \union {Nil, "local"}]

ASSUME StartsAssumption == Starts \subseteq [world : Networks, offers : SUBSET Caches]
ASSUME AddressAssumption == Nil \notin Addresses /\ "local" \notin Addresses
ASSUME NilAssumption ==
  Nil \notin BOOLEAN /\ Nil \notin Audiences \union Rulings \union {"nat", "mirrored", "Block", "Allow"}

VARIABLES
  world,   \* what holds: [sock, relay, other, mode, fw, ip, rule]
  offers,  \* the host reads of the provider in use
  caches,  \* [Caches -> [has, fresh, value]]
  fast,    \* refreshFast: the reads that are out, or Nil
  medium,  \* refreshMedium: likewise, with the address it judges by
  shown,   \* the sections: [sock, table, fw, mode, ip, reach, rule, verdict, error]
  behind,  \* history: what was not renewed since the last change
  left     \* what is left of the bounds

reachVars == <<world, offers, caches, fast, medium, shown, behind, left>>

FirewallFields == {"enabled", "inbound", "loopback"}

-----------------------------------------------------------------------------
(* reachability.ts *)

\* Mutated form: a layer that does not say whether it is on decides all the same.
MutantInboundPolicy(fw) ==
  CASE fw.enabled = FALSE -> "allowed"
    [] fw.enabled # FALSE /\ fw.inbound = "Block" -> "blocked"
    [] fw.enabled # FALSE /\ fw.inbound = "Allow" -> "allowed"
    [] OTHER -> "unknown"

\* inboundPolicy: off filters nothing; unreadable decides nothing.
InboundPolicy(fw) ==
  CASE fw.enabled = FALSE -> "allowed"
    [] fw.enabled = TRUE /\ fw.inbound = "Block" -> "blocked"
    [] fw.enabled = TRUE /\ fw.inbound = "Allow" -> "allowed"
    [] OTHER -> "unknown"

\* mirroredVerdict
MirroredVerdict(scope, fw) ==
  LET in == InboundPolicy(fw)
      inside == fw.loopback = FALSE
  IN CASE scope # "loopback" /\ in = "allowed" -> "lan"
       [] scope # "loopback" /\ in = "unknown" -> "unknown"
       [] OTHER -> IF inside THEN "loopback-only" ELSE "windows-only"

\* natVerdict
NatVerdict(scope, bound, fw) ==
  LET in == InboundPolicy(fw)
      relayed == scope # "address" /\ bound = TRUE
      direct == scope # "loopback" /\ in = "allowed"
  IN IF \/ scope # "address" /\ bound = Nil
        \/ scope # "loopback" /\ in = "unknown"
     THEN "unknown"
     ELSE IF scope = "wildcard" /\ relayed /\ direct THEN "lan"
     ELSE IF relayed \/ direct THEN "windows-only" ELSE "loopback-only"

\* classifyReachability, for one socket; "none" has no row to judge.
ClassifyReachability(scope, bound, mode, fw) ==
  CASE scope = "none" -> Nil
    [] scope # "none" /\ mode = "mirrored" -> MirroredVerdict(scope, fw)
    [] scope # "none" /\ mode = "nat" -> NatVerdict(scope, bound, fw)
    [] OTHER -> "unknown"

-----------------------------------------------------------------------------
(* windows-ports.ts and portproxy.ts *)

\* parseNetstat: whoever listens on the port has a row.
NetstatRow(w) == w.relay # "none" \/ w.other

\* correlatePorts: a table that was never read leaves the port unknown.
Correlate(sock, table) == IF sock = "none" THEN Nil ELSE table

\* judgeRules, for one rule.
JudgeRule(rule, ip) ==
  IF rule = Nil THEN Nil
  ELSE IF ip = Nil THEN "unknown"
  ELSE IF rule = ip THEN "live"
  ELSE IF rule = "local" THEN "elsewhere" ELSE "stale"

-----------------------------------------------------------------------------
(* What is true, by following the packets *)

Admits(fw) == ~fw.on \/ ~fw.blocks

\* Localhost forwarding carries what is bound to loopback or to everything; the
\* address of the distro is behind the Hyper-V layer; mirrored shares all.  Another
\* machine gets in where Windows itself listens for the network.
FromThisPc(w) ==
  \/ w.mode = "nat" /\ w.relay # "none" /\ w.sock # "address"
  \/ w.mode = "nat" /\ w.sock # "loopback" /\ Admits(w.fw)
  \/ w.mode = "mirrored" /\ w.fw.exempts
  \/ w.mode = "mirrored" /\ w.sock # "loopback" /\ Admits(w.fw)

FromOthers(w) ==
  \/ w.mode = "nat" /\ w.relay = "all" /\ w.sock = "wildcard" /\ Admits(w.fw)
  \/ w.mode = "mirrored" /\ w.sock # "loopback" /\ Admits(w.fw)

Audience(w) ==
  IF FromOthers(w) THEN "lan" ELSE IF FromThisPc(w) THEN "windows-only" ELSE "loopback-only"

Width == [a \in Audiences |->
  CASE a = "unreachable" -> 0 [] a = "loopback-only" -> 1 [] a = "windows-only" -> 2
    [] a = "lan" -> 3]

-----------------------------------------------------------------------------
(* The world changes; only what the provider reads is worth a step *)

\* What a change of the world leaves to be renewed: nothing a provider does not read.
Owed ==
  {"sock", "mode", "ip", "reach"} \union offers
    \union {v \in {"verdict"} : "rules" \in offers}

Become(w) ==
  /\ left.changes > 0
  /\ world' = w /\ w # world
  /\ left' = [left EXCEPT !.changes = @ - 1]
  /\ behind' = Owed
  /\ UNCHANGED <<offers, caches, fast, medium, shown>>

\* A program opens or closes the socket; Windows forwards loopback and wildcard, or not,
\* and what is bound to everything also from the network.
Listen ==
  \E s \in BindScopes, r \in Relays :
    /\ r # "none" => world.mode = "nat" /\ s \in {"loopback", "wildcard"}
    /\ r = "all" => s = "wildcard"
    /\ Become([world EXCEPT !.sock = s, !.relay = r])

\* WSL restarts: no socket is left and the address is another; mirrored may fall back.
Restart ==
  \E m \in {"nat", "mirrored"}, a \in Addresses \ {world.ip} :
    Become([world EXCEPT !.sock = "none", !.relay = "none", !.mode = m, !.ip = a])

\* One setting at a time.
EditFirewall ==
  /\ "fw" \in offers
  /\ \E s \in {"on", "blocks", "exempts"} : Become([world EXCEPT !.fw[s] = ~@])

EditRule ==
  /\ "rules" \in offers
  /\ \E r \in Addresses \union {Nil, "local"} : Become([world EXCEPT !.rule = r])

OtherProgram == "table" \in offers /\ Become([world EXCEPT !.other = ~@])

-----------------------------------------------------------------------------
(* The collectors *)

ReadFails == left.failures > 0 /\ left' = [left EXCEPT !.failures = @ - 1]

\* What a read of the firewall carries: every field that could not be read is null.
FirewallRead(fields) ==
  [enabled  |-> IF "enabled" \in fields THEN world.fw.on ELSE Nil,
   inbound  |-> IF "inbound" \notin fields THEN Nil
                ELSE IF world.fw.blocks THEN "Block" ELSE "Allow",
   loopback |-> IF "loopback" \in fields THEN world.fw.exempts ELSE Nil]

UnknownFirewall == [enabled |-> Nil, inbound |-> Nil, loopback |-> Nil]

Keep(c, v) == [caches EXCEPT ![c] = [has |-> TRUE, fresh |-> TRUE, value |-> v]]

\* What is behind after a reading: what is derived from it if it says something new.
Renewed(names, derived, new) ==
  (behind \ names) \union {d \in derived \intersect Owed : new}

\* Mutated form: an answer is used for ever.
MutantServes(c) == caches[c].has

\* cached !== null && now() - cachedAt < ttlMs
Serves(c) == caches[c].has /\ caches[c].fresh

\* The time to live of an answer is over.
Expire(c) ==
  /\ caches[c].fresh
  /\ caches' = [caches EXCEPT ![c].fresh = FALSE]
  /\ UNCHANGED <<world, offers, fast, medium, shown, behind, left>>

\* applyReachability on the correlated ports: the last verdict is no input.
Judged(s) == ClassifyReachability(s.sock, Correlate(s.sock, s.table), s.mode, s.fw)

\* A fast read is over, with the sections s and what is then behind; after the last
\* of them the tier judges and ends.
Landed(name, s, late) ==
  IF fast = {name}
  THEN /\ fast' = Nil
       /\ shown' = [s EXCEPT !.reach = Judged(s)]
       /\ behind' = late \ {"reach"}
  ELSE /\ fast' = fast \ {name}
       /\ shown' = s
       /\ behind' = late

\* refreshFast begins: the table of Windows is asked for unless the cache serves it.
FastStart ==
  /\ fast = Nil
  /\ fast' = {"sock"} \union {c \in offers \intersect {"table"} : ~Serves(c)}
  /\ shown' = IF Serves("table") THEN [shown EXCEPT !.table = caches["table"].value] ELSE shown
  /\ UNCHANGED <<world, offers, caches, medium, behind, left>>

\* createWindowsPortCollector.collect: a failed netstat is cached by nobody.
TableRead ==
  /\ fast # Nil /\ "table" \in fast
  /\ \/ /\ caches' = Keep("table", NetstatRow(world))
        /\ Landed("table", [shown EXCEPT !.table = NetstatRow(world)],
                  Renewed({"table"}, {"reach"}, shown.table # NetstatRow(world)))
        /\ UNCHANGED left
     \/ ReadFails /\ Landed("table", shown, behind) /\ UNCHANGED caches
  /\ UNCHANGED <<world, offers, medium>>

\* collectPorts: what goes wrong in the distro reads as a list without sockets.
PortsRead ==
  /\ fast # Nil /\ "sock" \in fast
  /\ \/ /\ Landed("sock", [shown EXCEPT !.sock = world.sock],
                  Renewed({"sock"}, {"reach"}, shown.sock # world.sock))
        /\ UNCHANGED left
     \/ /\ ReadFails
        /\ Landed("sock", [shown EXCEPT !.sock = "none"], behind \union {"sock", "reach"})
  /\ UNCHANGED <<world, offers, caches, medium>>

\* A medium read is over; the tier with the last of them.
Done(name) ==
  IF medium.out = {name} THEN Nil ELSE [medium EXCEPT !.out = @ \ {name}]

\* refreshMedium begins; the address the rules are judged by is read here.
MediumStart ==
  /\ medium = Nil
  /\ offers \intersect {"fw", "rules"} # {}
  /\ medium' = [out |-> offers \intersect {"fw", "rules"}, ip |-> shown.ip]
  /\ UNCHANGED <<world, offers, caches, fast, shown, behind, left>>

\* createFirewallCollector.collect: a failure is an answer, and is cached as one.
FirewallAnswer ==
  /\ medium # Nil /\ "fw" \in medium.out
  /\ medium' = Done("fw")
  /\ \/ Serves("fw")
        /\ shown' = [shown EXCEPT !.fw = caches["fw"].value]
        /\ UNCHANGED <<caches, behind, left>>
     \/ /\ ~Serves("fw")
        /\ \E fields \in {FirewallFields, {}} \union {FirewallFields \ {f} : f \in FirewallFields} :
             LET read == FirewallRead(fields) IN
             /\ IF fields = FirewallFields THEN UNCHANGED left ELSE ReadFails
             /\ caches' = Keep("fw", read)
             /\ shown' = [shown EXCEPT !.fw = read]
             /\ behind' = Renewed({"fw"}, {"reach"}, shown.fw # read)
  /\ UNCHANGED <<world, offers, fast>>

\* cached?.rules ?? []
RulesAfterFailure == caches["rules"].value.rule

\* createPortProxyCollector.collect: a failure keeps the rules read last; the
\* verdict is made anew each time.
ProxyAnswer ==
  /\ medium # Nil /\ "rules" \in medium.out
  /\ medium' = Done("rules")
  /\ LET Judge(rule, error) ==
           shown' = [shown EXCEPT !.rule = rule, !.verdict = JudgeRule(rule, medium.ip),
                                  !.error = error]
         cached == caches["rules"].value
     IN
     \/ /\ Serves("rules")
        /\ Judge(cached.rule, cached.error)
        /\ behind' = IF "ip" \in behind \/ medium.ip # shown.ip THEN behind
                     ELSE behind \ {"verdict"}
        /\ UNCHANGED <<caches, left>>
     \/ /\ ~Serves("rules")
        /\ caches' = Keep("rules", [rule |-> world.rule, error |-> FALSE])
        /\ Judge(world.rule, FALSE)
        /\ behind' = IF "ip" \in behind \/ medium.ip # shown.ip THEN behind \ {"rules"}
                     ELSE behind \ {"rules", "verdict"}
        /\ UNCHANGED left
     \/ /\ ~Serves("rules") /\ ReadFails
        /\ caches' = Keep("rules", [rule |-> RulesAfterFailure, error |-> TRUE])
        /\ Judge(RulesAfterFailure, TRUE)
        /\ UNCHANGED behind
  /\ UNCHANGED <<world, offers, fast>>

\* refreshSlow: the mode WSL runs in (null when it does not say) and the address.
SlowTick ==
  /\ \/ /\ shown' = [shown EXCEPT !.mode = world.mode, !.ip = world.ip]
        /\ UNCHANGED left
     \/ /\ ReadFails
        /\ shown' = [shown EXCEPT !.mode = Nil, !.ip = Nil]
  /\ behind' = Renewed({"mode", "ip"}, {"reach", "verdict"},
                      <<shown.mode, shown.ip>> # <<shown'.mode, shown'.ip>>)
  /\ shown' # shown \/ behind' # behind
  /\ UNCHANGED <<world, offers, caches, fast, medium>>

-----------------------------------------------------------------------------

ReachInit ==
  /\ \E s \in Starts : world = s.world /\ offers = s.offers
  /\ caches = [c \in Caches |-> [has |-> FALSE, fresh |-> FALSE,
       value |-> IF c = "rules" THEN [rule |-> Nil, error |-> FALSE] ELSE Nil]]
  /\ fast = Nil /\ medium = Nil
  /\ shown = [sock |-> "none", table |-> Nil, fw |-> UnknownFirewall, mode |-> Nil,
              ip |-> Nil, reach |-> Nil, rule |-> Nil, verdict |-> Nil, error |-> FALSE]
  /\ behind = Owed
  /\ left = [changes |-> Changes, failures |-> Failures]

World == Listen \/ Restart \/ EditFirewall \/ EditRule \/ OtherProgram
Fast == FastStart \/ TableRead \/ PortsRead
Medium == MediumStart \/ FirewallAnswer \/ ProxyAnswer

ReachNext == World \/ Fast \/ Medium \/ SlowTick \/ \E c \in Caches : Expire(c)

\* The timers of the tiers run for as long as the distro does, every read has a
\* time-out, and time passes.
ReachSpec ==
  /\ ReachInit /\ [][ReachNext]_reachVars
  /\ WF_reachVars(Fast) /\ WF_reachVars(Medium) /\ WF_reachVars(SlowTick)
  /\ \A c \in Caches : WF_reachVars(Expire(c))

-----------------------------------------------------------------------------
(* Properties *)

\* Where a confident verdict is wider than the truth, against the word of
\* reachability.ts:10: another Windows program has the port and passes for a forwarding;
\* what Windows forwards from localhost alone passes for forwarded from the network; and
\* a loopback setting that could not be read is taken for one that lets through.
IsTooWide ==
  \/ world.other
  \/ world.mode = "nat" /\ world.relay = "loopback" /\ shown.reach = "lan"
  \/ world.mode = "mirrored" /\ shown.fw.loopback = Nil /\ shown.reach = "windows-only"

\* Once every reading is from after the last change and the fast tier has judged
\* them, a definite verdict is what following the packets gives, but for three cases in
\* which it says more than is true (IsTooWide), and never less; and a verdict is only
\* missing when a reading is.
ReachIsTrue ==
  {"sock", "table", "fw", "mode", "reach"} \intersect behind = {} /\ shown.sock # "none" =>
    /\ shown.reach \in Audiences =>
         \/ shown.reach = Audience(world)
         \/ IsTooWide /\ Width[shown.reach] > Width[Audience(world)]
    /\ shown.reach = "unknown" =>
         shown.mode = Nil \/ shown.table = Nil \/ shown.fw.enabled = Nil \/ shown.fw.inbound = Nil

\* A forwarding rule is only called dead, or alive, on an address that was read, and
\* rightly so once rule and address were read after the last change.
RuleVerdictIsTrue ==
  "rules" \in offers =>
  /\ "verdict" \notin behind /\ shown.verdict # Nil /\ shown.ip = Nil =>
       shown.verdict = "unknown"
  /\ {"rules", "ip", "verdict"} \intersect behind = {} /\ shown.ip # Nil =>
       /\ shown.verdict = "live" <=> world.rule = world.ip
       /\ shown.verdict = "stale" <=> world.rule \in Addresses \ {world.ip}

\* The verdicts on screen are true of the network they were made from, but for the three
\* cases of IsTooWide, in which the code tells of more than gets through.
VerdictsAreTrue == ReachIsTrue /\ RuleVerdictIsTrue

\* Everything on screen is renewed once the world stands still and reads succeed:
\* no cache serves for ever, no tier keeps a verdict of old readings.
CatchesUp == <>[](behind = {})
=============================================================================
