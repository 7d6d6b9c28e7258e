---------------------------- MODULE MCPortReach ----------------------------
(* Instances of PortReach: sockets under every firewall and mode, and every *)
(* rule; each start is one change away from its neighbours.                 *)
EXTENDS PortReach


Fw(on, blocks, exempts) == [on |-> on, blocks |-> blocks, exempts |-> exempts]
Start(reads, s, r, m, f, rule) ==
  [offers |-> reads,
   world |-> [sock |-> s, relay |-> r, other |-> FALSE, mode |-> m, fw |-> f,
              ip |-> "a", rule |-> rule]]

MCStarts ==
  {Start({"table", "fw"}, "wildcard", "all", "nat", Fw(FALSE, TRUE, TRUE), Nil),
   Start({"table", "fw"}, "address", "none", "nat", Fw(TRUE, TRUE, TRUE), Nil),
   Start({"table", "fw"}, "loopback", "none", "nat", Fw(TRUE, TRUE, TRUE), Nil),
   Start({"table", "fw"}, "wildcard", "none", "mirrored", Fw(TRUE, TRUE, FALSE), Nil),
   Start({"rules"}, "none", "none", "nat", Fw(TRUE, TRUE, TRUE), "a")}
=============================================================================
