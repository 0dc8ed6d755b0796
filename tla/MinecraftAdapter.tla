-------------------------- MODULE MinecraftAdapter --------------------------
(***************************************************************************)
(* The Minecraft adapter's process lifecycle (games/minecraft/adapter.go) *)
(* run by the job loop, one job after another, against the server         *)
(* processes of one instance.  Start spawns the server with               *)
(* exec.CommandContext on the loop's context and waits the 2s startup     *)
(* window; Stop runs the configured stop_command or sends RCON "stop";    *)
(* Restart is Stop, a 3s grace pause, Start; Status probes with RCON      *)
(* "list".  One RCON session is one step here: RconSession models its     *)
(* wire protocol.                                                          *)
(*                                                                         *)
(* A server process boots, then binds the port and the world lock, or     *)
(* dies at that point if another process still holds them; a stopping     *)
(* server holds them until it has exited.  Nothing bounds how long either *)
(* takes against the adapter's fixed 2s and 3s waits, so their order is   *)
(* free.                                                                   *)
(***************************************************************************)
EXTENDS Naturals, Sequences, SequencesExt, FiniteSets

CONSTANTS
  Procs,           \* slots for server processes (the first may pre-exist)
  JobSeq           \* the job types the loop hands the adapter, in order

(* Execute's cases, and a type it does not match: job.Type is compared   *)
(* as sent, so a lower-case "server_start" is an unsupported job type.   *)
JobTypes == {"SERVER_START", "SERVER_STOP", "SERVER_RESTART", "STATUS",
             "RCON", "SEND_COMMAND", "LIST_PLAYERS", "server_start"}

(* The RCON commands a job sends: a query, or a command that stops the   *)
(* server.                                                                 *)
Commands == {"list", "stop"}
ProcStates == {"unused", "booting", "serving", "stopping", "exited"}

ASSUME JobSeq \in Seq(JobTypes)
(* One slot per process a Start or Restart job can spawn, one for a server *)
(* that runs before the agent starts.                                      *)
ASSUME Cardinality(Procs) > Len(SelectSeq(JobSeq, LAMBDA t : t \in {"SERVER_START", "SERVER_RESTART"}))

VARIABLES
  procs,      \* state of each server process slot
  owned,      \* processes spawned by Start, tied to the loop's ctx
  cancelled,  \* the loop's ctx is done (SIGINT)
  jobs,       \* job types not yet taken
  apc,        \* where the adapter is in the current job
  job,        \* the current job's type
  cfg,        \* payloadToConfig of the current job: what Start can launch,
              \* whether stop_command and the RCON password are set
  command,    \* the RCON command the current job sends
  child,      \* the process startAndCheck is watching
  results,    \* history: <<job type, "ok" or "err">> per finished job
  restartOk   \* history: some Restart returned success

vars == <<procs, owned, cancelled, jobs, apc, job, cfg, command, child, results, restartOk>>

Pcs == {"idle", "start", "window", "stop", "stopcmd", "grace", "status", "rcon"}

Serving == {p \in Procs : procs[p] = "serving"}
Holding == {p \in Procs : procs[p] \in {"serving", "stopping"}}
Alive == {p \in Procs : procs[p] \in {"booting", "serving", "stopping"}}

(* start: a start_command, or none and a server.jar in install_path, or   *)
(* nothing Start can launch (no install_path, a blank start_command, no  *)
(* server.jar).                                                            *)
Configs == [start : {"command", "jar", "none"}, stopCommand : BOOLEAN, password : BOOLEAN]

TypeOK ==
  /\ procs \in [Procs -> ProcStates]
  /\ owned \subseteq Procs
  /\ apc \in Pcs
  /\ cfg \in Configs
  /\ command \in Commands
  /\ results \in Seq(JobTypes \X {"ok", "err"})

(* Either no server runs when the agent starts, or one started earlier does. *)
Init ==
  /\ \E first \in Procs :
       procs \in {[p \in Procs |-> "unused"],
                  [p \in Procs |-> IF p = first THEN "serving" ELSE "unused"]}
  /\ owned = {}
  /\ cancelled = FALSE
  /\ jobs = JobSeq
  /\ apc = "idle"
  /\ job = "STATUS"
  /\ cfg = [start |-> "none", stopCommand |-> FALSE, password |-> FALSE]
  /\ command = "list"
  /\ child = CHOOSE p \in Procs : TRUE
  /\ results = <<>>
  /\ restartOk = FALSE

(* Execute returns: resultOrErr turns the adapter's error into a failed  *)
(* JobResult; Status always succeeds.                                     *)
Return(r) ==
  /\ apc' = "idle"
  /\ results' = Append(results, <<job, r>>)
  /\ restartOk' = (restartOk \/ (job = "SERVER_RESTART" /\ r = "ok"))

(* Execute: payloadToConfig(job.Payload), switch job.Type.  An RCON or  *)
(* SEND_COMMAND job sends the payload's command, LIST_PLAYERS sends       *)
(* "list"; a type no case matches is answered "unsupported job type".    *)
TakeJob ==
  /\ apc = "idle" /\ jobs # <<>>
  /\ job' = Head(jobs)
  /\ cfg' \in Configs
  /\ jobs' = Tail(jobs)
  /\ \/ /\ Head(jobs) \in {"RCON", "SEND_COMMAND"}
        /\ command' \in Commands
        /\ apc' = "rcon" /\ UNCHANGED results
     \/ /\ Head(jobs) = "LIST_PLAYERS"
        /\ command' = "list"
        /\ apc' = "rcon" /\ UNCHANGED results
     \/ /\ Head(jobs) \notin {"RCON", "SEND_COMMAND", "LIST_PLAYERS"}
        /\ UNCHANGED command
        /\ CASE Head(jobs) = "SERVER_START" -> apc' = "start" /\ UNCHANGED results
             [] Head(jobs) = "STATUS"       -> apc' = "status" /\ UNCHANGED results
             [] Head(jobs) \in {"SERVER_STOP", "SERVER_RESTART"} ->
                  apc' = "stop" /\ UNCHANGED results
             [] OTHER -> apc' = "idle" /\ results' = Append(results, <<Head(jobs), "err">>)
  /\ UNCHANGED <<procs, owned, cancelled, child, restartOk>>

(* Start: install_path, then start_command (strings.Fields) or server.jar; *)
(* nothing to launch is a config error.  exec.CommandContext(ctx, ...)    *)
(* and cmd.Start(): Start refuses a context that is already done;         *)
(* otherwise the process is spawned and the context's watcher will kill  *)
(* it if ctx is cancelled.                                                 *)
Spawn ==
  /\ apc = "start"
  /\ \/ /\ cfg.start = "none" \/ cancelled
        /\ Return("err")
        /\ UNCHANGED <<procs, owned, child>>
     \/ /\ cfg.start # "none" /\ ~cancelled
        /\ \E p \in Procs :
             /\ procs[p] = "unused"
             /\ procs' = [procs EXCEPT ![p] = "booting"]
             /\ owned' = owned \cup {p}
             /\ child' = p
        /\ apc' = "window"
        /\ UNCHANGED <<results, restartOk>>
  /\ UNCHANGED <<cancelled, jobs, job, cfg, command>>

(* startAndCheck: select { case err := <-done: ... exited immediately    *)
(* case <-time.After(2s): return nil   case <-ctx.Done(): return ctx.Err() } *)
WindowExited ==
  /\ apc = "window" /\ procs[child] = "exited"
  /\ Return("err")
  /\ UNCHANGED <<procs, owned, cancelled, jobs, job, cfg, command, child>>

WindowElapsed ==
  /\ apc = "window" /\ procs[child] # "exited"
  /\ Return("ok")
  /\ UNCHANGED <<procs, owned, cancelled, jobs, job, cfg, command, child>>

WindowCancelled ==
  /\ apc = "window" /\ cancelled
  /\ Return("err")
  /\ UNCHANGED <<procs, owned, cancelled, jobs, job, cfg, command, child>>

(* After a Stop: a Restart whose Stop succeeded goes on to the pause;    *)
(* otherwise the job returns Stop's result.                               *)
StopReturns(r) ==
  IF job = "SERVER_RESTART" /\ r = "ok"
  THEN apc' = "grace" /\ UNCHANGED <<results, restartOk>>
  ELSE Return(r)

(* Stop with stop_command: exec.CommandContext(ctx, ...) and cmd.Run(),   *)
(* which fails at once for a done ctx and otherwise waits for the program *)
(* to exit, with no timeout (the adapter's stopTimeout is never used).    *)
StopByCommand ==
  /\ apc = "stop" /\ cfg.stopCommand
  /\ \/ cancelled /\ StopReturns("err")
     \/ ~cancelled /\ apc' = "stopcmd" /\ UNCHANGED <<results, restartOk>>
  /\ UNCHANGED <<procs, owned, cancelled, jobs, job, cfg, command, child>>

(* Mutation: the stop program is started with exec.Command; nothing but *)
(* its own exit ends cmd.Run.                                             *)
StopCommandNotKilled == FALSE

(* Once ctx is done, exec.CommandContext kills the stop program and      *)
(* cmd.Run returns the kill's error.                                      *)
StopCommandKilled ==
  /\ apc = "stopcmd" /\ cancelled
  /\ StopReturns("err")
  /\ UNCHANGED <<procs, owned, cancelled, jobs, job, cfg, command, child>>

(* withRCON(ctx, cfg, func(c) { c.Exec(cmd) }), as the outcomes it can  *)
(* have: the server processes after it and its error.  No password is an *)
(* error before any connection; Connect and Exec need a serving server,  *)
(* and the session can still fail (wrong password, a read timeout).      *)
(* "stop" makes the server shut down, and it may close the connection    *)
(* before Exec has read an answer.                                         *)
RconExec(cmd) ==
  {[procs |-> procs, r |-> "err"]}
  \cup {[procs |-> IF cmd = "stop" THEN [procs EXCEPT ![p] = "stopping"] ELSE procs,
         r |-> r] : p \in IF cfg.password THEN Serving ELSE {}, r \in {"ok", "err"}}

(* Stop without stop_command: withRCON(... c.Exec("stop")). *)
StopByRcon ==
  /\ apc = "stop" /\ ~cfg.stopCommand
  /\ \E o \in RconExec("stop") : procs' = o.procs /\ StopReturns(o.r)
  /\ UNCHANGED <<owned, cancelled, jobs, job, cfg, command, child>>

(* SendCommand: withRCON(... out, err = c.Exec(command)); the job fails  *)
(* with Exec's error.                                                      *)
SendCommand ==
  /\ apc = "rcon"
  /\ \E o \in RconExec(command) : procs' = o.procs /\ Return(o.r)
  /\ UNCHANGED <<owned, cancelled, jobs, job, cfg, command, child>>

(* Restart: select { case <-ctx.Done(): return ctx.Err()                  *)
(*                   case <-time.After(3s): }  then Start.               *)
GraceElapsed ==
  /\ apc = "grace"
  /\ apc' = "start"
  /\ UNCHANGED <<procs, owned, cancelled, jobs, job, cfg, command, child, results, restartOk>>

GraceCancelled ==
  /\ apc = "grace" /\ cancelled
  /\ Return("err")
  /\ UNCHANGED <<procs, owned, cancelled, jobs, job, cfg, command, child>>

(* Mutation: the probed server state is sent as the job's status. *)
StatusAsJobStatus ==
  /\ apc = "status"
  /\ \E o \in RconExec("list") :
       procs' = o.procs /\ Return(IF o.r = "ok" THEN "running" ELSE "stopped")
  /\ UNCHANGED <<owned, cancelled, jobs, job, cfg, command, child>>

(* Status: withRCON(Exec("list")); any error reads as "stopped", and the  *)
(* job succeeds either way.                                               *)
Status ==
  /\ apc = "status"
  /\ \E o \in RconExec("list") : procs' = o.procs /\ Return("ok")
  /\ UNCHANGED <<owned, cancelled, jobs, job, cfg, command, child>>

AdapterNext ==
  \/ TakeJob \/ Spawn \/ WindowExited \/ WindowElapsed \/ WindowCancelled
  \/ StopByCommand \/ StopCommandKilled \/ StopByRcon \/ GraceElapsed
  \/ GraceCancelled \/ Status \/ SendCommand

-----------------------------------------------------------------------------
(* The environment: SIGINT, and the server processes. *)
Interrupt ==
  /\ ~cancelled
  /\ cancelled' = TRUE
  /\ UNCHANGED <<procs, owned, jobs, apc, job, cfg, command, child, results, restartOk>>

(* A booting server binds the port and world lock, or exits because a    *)
(* running or stopping server still holds them.                          *)
Bind(p) ==
  /\ procs[p] = "booting"
  /\ procs' = [procs EXCEPT ![p] = IF Holding = {} THEN "serving" ELSE "exited"]
  /\ UNCHANGED <<owned, cancelled, jobs, apc, job, cfg, command, child, results, restartOk>>

(* A stopping server finishes saving and exits. *)
Exit(p) ==
  /\ procs[p] = "stopping"
  /\ procs' = [procs EXCEPT ![p] = "exited"]
  /\ UNCHANGED <<owned, cancelled, jobs, apc, job, cfg, command, child, results, restartOk>>

(* The stop program exits on its own: it had the server shut down, or it  *)
(* failed.  It may also never exit.                                        *)
StopCommandExits ==
  /\ apc = "stopcmd"
  /\ \/ /\ procs' = [p \in Procs |-> IF procs[p] = "serving" THEN "stopping" ELSE procs[p]]
        /\ StopReturns("ok")
     \/ UNCHANGED procs /\ StopReturns("err")
  /\ UNCHANGED <<owned, cancelled, jobs, job, cfg, command, child>>

(* exec.CommandContext kills a process it started once ctx is done. *)
CtxKill(p) ==
  /\ cancelled /\ p \in owned /\ p \in Alive
  /\ procs' = [procs EXCEPT ![p] = "exited"]
  /\ UNCHANGED <<owned, cancelled, jobs, apc, job, cfg, command, child, results, restartOk>>

ProcNext == \E p \in Procs : Bind(p) \/ Exit(p) \/ CtxKill(p)

Next == AdapterNext \/ ProcNext \/ StopCommandExits \/ Interrupt

(* The loop goroutine, the Go runtime's ctx watcher and the server       *)
(* processes make progress; SIGINT never has to come, and a stop program  *)
(* never has to exit: nothing in the adapter bounds it.                   *)
Spec ==
  /\ Init /\ [][Next]_vars
  /\ WF_vars(AdapterNext)
  /\ \A p \in Procs : WF_vars(Bind(p)) /\ WF_vars(Exit(p)) /\ WF_vars(CtxKill(p))

-----------------------------------------------------------------------------
(* Spec 5: cancellation reaches every blocking step.  A stop_command that *)
(* never exits holds the job loop (cmd.Run has no timeout), and SIGINT is *)
(* then the only way out: once ctx is done, every job still to come gets  *)
(* its result, the waiting one through the kill of exec.CommandContext,   *)
(* the startup window and the restart pause through ctx.Done, the Starts  *)
(* through a refused cmd.Start.                                           *)
InterruptDrainsJobs == cancelled ~> (jobs = <<>> /\ apc = "idle")

(* Spec 4.3: Restart = Stop, grace period, Start; a Restart that returns  *)
(* success leaves the server running (unless SIGINT kills it).            *)
RestartLeavesServerUp == restartOk ~> (Serving # {} \/ cancelled)

=============================================================================
