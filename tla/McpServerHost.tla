---------------------------- MODULE McpServerHost ----------------------------
(***************************************************************************)
(* The local MCP endpoint, src/main/mcp/server.ts: one HTTP server that is *)
(* started, stopped and restarted by whoever calls.  Calls are not         *)
(* serialized, so every await (closing a server, binding a port) is a      *)
(* place where another call may run.                                       *)
(*                                                                         *)
(* The module is the server object and its calls; AppSettings says who     *)
(* calls it.                                                               *)
(***************************************************************************)
EXTENDS Integers, FiniteSets, Sequences

CONSTANTS
  Ports,   \* ports the settings may name
  None     \* null

ASSUME PortAssumption == None \notin Ports \union Nat

VARIABLES
  host,       \* the McpServerHost object
  ops,        \* start, stop and restart calls that wait for a close or a bind
  listening,  \* servers that hold a port: [id, port, failed], failed: with an error since
  taken       \* ports held by other programs

hostVars == <<host, ops, listening, taken>>

Fresh(used) == CHOOSE i \in 1..(Cardinality(used) + 1) : i \notin used

\* status(): what the store, the renderer and the tray are told.
Status(h) ==
  [running |-> h.http # None, endpoint |-> IF h.http # None THEN h.port ELSE None,
   error |-> h.error]

EmitStatus(h) == [h EXCEPT !.reported = Status(h)]

-----------------------------------------------------------------------------
(* A call is the steps it still has to take, each ending in an await.       *)
(* Operators map [h, ops, listening] "m" to the same.                       *)

StopSteps == <<"stop">>
StartSteps == <<"stop", "listen">>
RestartSteps == <<"stop", "stop", "listen">>

Waiting(m, op) == [m EXCEPT !.ops = @ \union {op}]

\* listen: token, port and error are set before the port is bound.
Listen(m, op) ==
  Waiting([m EXCEPT !.h = [@ EXCEPT !.token = op.token, !.port = op.port, !.error = FALSE]],
          [op EXCEPT !.at = "binding"])

\* stop's synchronous half: the server is forgotten and stops listening, then
\* its close is awaited.  With no server it returns at once and the call goes on
\* (a call has at most two stops before it listens).
Close(m, op) ==
  Waiting([m EXCEPT !.h.http = None, !.listening = {s \in @ : s.id # m.h.http}],
          [op EXCEPT !.at = "closing", !.steps = Tail(@)])

\* A call that only stops is over when there is nothing to stop.
Run(m, op) ==
  IF m.h.http # None /\ op.steps # <<>> /\ Head(op.steps) = "stop" THEN Close(m, op)
  ELSE IF op.steps # <<>> /\ op.steps[Len(op.steps)] = "listen" THEN Listen(m, op)
  ELSE m

NewOp(steps, port, token, tag) ==
  [id |-> Fresh({op.id : op \in ops}), steps |-> steps, port |-> port, token |-> token,
   at |-> "running", tag |-> tag]

Host == [h |-> host, ops |-> ops, listening |-> listening]

HostBecomes(m) == host' = m.h /\ ops' = m.ops /\ listening' = m.listening

Resumed(op) == [Host EXCEPT !.ops = @ \ {op}]

\* Mutated form: the end of a stop is not reported.
AfterCloseSilent(m) == m

\* stop after its await.
AfterClose(m) == [m EXCEPT !.h = EmitStatus(@)]

\* server.close called back.
Closed(op) ==
  /\ op.at = "closing"
  /\ HostBecomes(Run(AfterClose(Resumed(op)), [op EXCEPT !.at = "running"]))
  /\ UNCHANGED taken

Free(port) == port \notin taken /\ \A s \in listening : s.port # port

\* Mutated form: a server that could not bind is kept as if it had.
BindFailedKept(h, id) == EmitStatus([h EXCEPT !.error = TRUE, !.http = id])

BindFailed(h, id) == EmitStatus([h EXCEPT !.error = TRUE])

Kept(op) ==
  LET id == Fresh({s.id : s \in listening}) IN
  [Resumed(op) EXCEPT !.listening = @ \union {[id |-> id, port |-> op.port, failed |-> FALSE]},
                      !.h = EmitStatus([@ EXCEPT !.http = id])]

NotKept(op) ==
  [Resumed(op) EXCEPT !.h = BindFailed(@, Fresh({s.id : s \in listening}))]

\* The listen promise settled: the server is kept, or its error is.
Bound(op) ==
  /\ op.at = "binding"
  /\ HostBecomes(IF Free(op.port) THEN Kept(op) ELSE NotKept(op))
  /\ UNCHANGED taken

\* server.on('error'), set once the port is bound: a server that goes on listening,
\* kept or not, puts its error into the status.
ServerFails(server) ==
  /\ listening' = (listening \ {server}) \union {[server EXCEPT !.failed = TRUE]}
  /\ host' = EmitStatus([host EXCEPT !.error = TRUE])
  /\ UNCHANGED <<ops, taken>>

\* Another program takes or gives up a port.
TogglePort(port) ==
  /\ \A s \in listening : s.port # port
  /\ taken' = IF port \in taken THEN taken \ {port} ELSE taken \union {port}
  /\ UNCHANGED <<host, ops, listening>>

HostInit ==
  /\ host = [http |-> None, port |-> None, token |-> 0, error |-> FALSE,
             reported |-> [running |-> FALSE, endpoint |-> None, error |-> FALSE]]
  /\ ops = {} /\ listening = {} /\ taken = {}

-----------------------------------------------------------------------------
(* Properties; AppSettings checks them *)

OpType ==
  [id : Nat, steps : Seq({"stop", "listen"}), port : Ports, token : Nat,
   at : {"closing", "binding"}, tag : {"start", "handler"}]
StatusType == [running : BOOLEAN, endpoint : Ports \union {None}, error : BOOLEAN]

HostType ==
  [http : Nat \union {None}, port : Ports \union {None}, token : Nat, error : BOOLEAN,
   reported : StatusType]
ServerType == [id : Nat, port : Ports, failed : BOOLEAN]

HostTypeOK ==
  /\ host \in HostType
  /\ ops \in SUBSET OpType
  /\ listening \in SUBSET ServerType
  /\ taken \in SUBSET Ports

\* A server that is kept is one that holds a port, however calls overlap: status
\* never calls a closed or never bound server running.
RunningListens == host.http # None => \E s \in listening : s.id = host.http

\* Once no call is under way the last status reported is the status: store, tray
\* and renderer are told of every end of every overlapping call.
StatusReported == ops = {} => host.reported = Status(host)
=============================================================================
