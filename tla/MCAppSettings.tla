---------------------------- MODULE MCAppSettings ----------------------------
(* Instances of AppSettings for TLC: two ports, two periods, and the         *)
(* defaults of constants.ts in that vocabulary.                              *)
EXTENDS AppSettings

MCPeriods == {"slow", "quick"}
MCDefaults ==
  [paused |-> FALSE, ms |-> "slow", enabled |-> FALSE, port |-> 1, token |-> 0]
MCAnyPause == {[MCDefaults EXCEPT !.paused = p, !.enabled = e] : p, e \in BOOLEAN}
=============================================================================
