--------------------------- MODULE MCSnapshotStore ---------------------------
(* Instance of SnapshotStore for TLC: two distros, the default one and a     *)
(* second to switch to, with strings of one tick for trust and backoff, and  *)
(* the scenarios the runs start from.                                        *)
EXTENDS SnapshotStore

CONSTANTS ubuntu, debian

MCDistros == {ubuntu, debian}
MCDefault == ubuntu

Upto(changes, faults, selects, contexts, disposals) ==
  [changes |-> changes, faults |-> faults, selects |-> selects, contexts |-> contexts,
   disposals |-> disposals]

\* WSL changes under a switch and a failing collector.
Disturbed == Upto(1, 1, 1, 0, 0)
\* The rest of the app reports and quits meanwhile.
Used == Upto(0, 0, 1, 1, 1)

MCBoth == {Disturbed, Used}
=============================================================================
