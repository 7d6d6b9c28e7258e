---------------------------- MODULE ConsoleService ----------------------------
(***************************************************************************)
(* What TerminalManager promises (src/main/terminal/manager.ts): "exactly  *)
(* one per distro".  A distro has no shell, one being opened, or one that  *)
(* is open; a second one is never begun while the first is there, and one  *)
(* that is being opened opens or fails.  Who asks, how often, and what     *)
(* becomes of the answers is the business of ConsoleHub, which implements  *)
(* this module.                                                            *)
(***************************************************************************)
CONSTANT Distros

VARIABLE shell   \* [Distros -> {"none", "opening", "open"}]

Init == shell = [d \in Distros |-> "none"]

Begin(d) == shell[d] = "none" /\ shell' = [shell EXCEPT ![d] = "opening"]

Settle(d) ==
  /\ shell[d] = "opening"
  /\ \E outcome \in {"open", "none"} : shell' = [shell EXCEPT ![d] = outcome]

\* Shells end by themselves, or all that are open at once when the app quits.
End(D) ==
  /\ D # {}
  /\ \A d \in D : shell[d] = "open"
  /\ shell' = [d \in Distros |-> IF d \in D THEN "none" ELSE shell[d]]

Next ==
  \/ \E d \in Distros : Begin(d) \/ Settle(d)
  \/ \E D \in SUBSET Distros : End(D)

Spec == Init /\ [][Next]_shell
=============================================================================
