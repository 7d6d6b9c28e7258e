--------------------------- MODULE MCDiagnostics ---------------------------
(* Two distros, a log of four incidents, and two histories: mostly changes,    *)
(* and checks that overlap with each other, with changes and with sleep.       *)
EXTENDS Diagnostics


MCBudgets ==
  {[publish |-> 4, power |-> 0, check |-> 0],
   [publish |-> 1, power |-> 0, check |-> 2],
   [publish |-> 1, power |-> 2, check |-> 1]}
MCModes == {"nat", "mirrored"}
MCResolvers == {"generated", "manual"}
=============================================================================
