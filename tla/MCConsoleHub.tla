----------------------------- MODULE MCConsoleHub -----------------------------
(* ConsoleHub for TLC: two distros.                                          *)
EXTENDS ConsoleHub, TLC

Calm == [w \in Disturbances |-> 0]
\* Switching between distros whose shells come and go; dead shells and their
\* retries; quitting while a shell is being opened.
MCBudgets == {
  ("select" :> 3 @@ "exit" :> 1 @@ "fail" :> 1 @@ "prepare" :> 1) @@ Calm,
  ("select" :> 1 @@ "exit" :> 1 @@ "fail" :> 3 @@ "flip" :> 2 @@ "click" :> 1) @@ Calm,
  ("select" :> 2 @@ "fail" :> 1 @@ "quit" :> 1) @@ Calm }
=============================================================================
