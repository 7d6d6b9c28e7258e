-------------------------- MODULE MCConsoleSession --------------------------
(* Instances of ConsoleSession for TLC: two directories, one printable      *)
(* character and the blank, a handful of keys.                              *)
EXTENDS ConsoleSession

CONSTANTS home, a, b

=============================================================================
