---------------------------- MODULE MCAppLifecycle ----------------------------
(* AppLifecycle for TLC: settings, updates and recordings each get their runs. *)
EXTENDS AppLifecycle, TLC

Nothing == [t \in Things |-> 0]
MCBudgets == {
  ("again" :> 3 @@ "patch" :> 2 @@ "reset" :> 1 @@ "renew" :> 1 @@ "spoil" :> 1 @@ "disk" :> 1
    @@ "crash" :> 1 @@ "quit" :> 1) @@ Nothing,
  ("again" :> 3 @@ "patch" :> 1 @@ "lock" :> 1 @@ "crash" :> 2) @@ Nothing,
  ("again" :> 4 @@ "release" :> 2 @@ "check" :> 3 @@ "fetch" :> 1 @@ "quit" :> 4 @@ "disk" :> 1
    @@ "crash" :> 1) @@ Nothing,
  ("again" :> 1 @@ "start" :> 2 @@ "stop" :> 1 @@ "sample" :> 1 @@ "tick" :> 1 @@ "export" :> 1
    @@ "disk" :> 1 @@ "quit" :> 1) @@ Nothing,
  ("again" :> 1 @@ "start" :> 1 @@ "stop" :> 1 @@ "sample" :> 2 @@ "tick" :> 2 @@ "export" :> 2
    @@ "disk" :> 2) @@ Nothing,
  ("again" :> 2 @@ "start" :> 2 @@ "sample" :> 1 @@ "tick" :> 1 @@ "export" :> 1 @@ "crash" :> 1)
    @@ Nothing }
=============================================================================
