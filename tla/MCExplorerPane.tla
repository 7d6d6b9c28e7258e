---------------------------- MODULE MCExplorerPane ----------------------------
(* ExplorerPane for TLC: two distros, a directory they share and one that     *)
(* only the first has.                                                        *)
EXTENDS ExplorerPane, TLC

MCExists == ("d1" :> {"home", "src", "old"} @@ "d2" :> {"home", "src"})
Nothing == [w \in PaneRequests |-> 0]
\* Listings against each other; sizes against everything that ends them; switches.
MCBudgets == {
  ("navigate" :> 2 @@ "history" :> 1 @@ "refresh" :> 1 @@ "hidden" :> 1) @@ Nothing,
  ("navigate" :> 1 @@ "refresh" :> 1 @@ "measure" :> 2 @@ "cancel" :> 1) @@ Nothing,
  ("measure" :> 2 @@ "switch" :> 2 @@ "refresh" :> 1) @@ Nothing,
  ("navigate" :> 1 @@ "search" :> 1 @@ "switch" :> 1 @@ "refresh" :> 1) @@ Nothing }
=============================================================================
