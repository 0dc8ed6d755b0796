-------------------------- MODULE SevenDaysAdapter --------------------------
(***************************************************************************)
(* The 7 Days to Die adapter (games/7dtd/adapter.go) run by the job loop, *)
(* one job after another, against the server processes of one instance.  *)
(* Start and the stop scripts go through runnerShim.run, which waits for  *)
(* the command to exit (cmd.Run) under the loop's context; the shim's     *)
(* timeout context is made after exec.CommandContext has taken ctx, so no *)
(* timeout applies.  Stop sends "quit" over telnet and takes any output   *)
(* as an acknowledgement, else runs stop.sh.  sendTelnet writes the       *)
(* password and the command, then reads until a read brings nothing       *)
(* within its 2s deadline; ctx is only used to dial.                       *)
(*                                                                         *)
(* The launched program either returns once the server runs (a service   *)
(* manager or a detaching wrapper) or is the server itself (the stock     *)
(* start script runs the server in the foreground).  A running server may *)
(* write log lines to every telnet client.                                 *)
(***************************************************************************)
EXTENDS Naturals, Sequences, SequencesExt, FiniteSets

CONSTANTS
  Procs,               \* slots for server processes (the first may pre-exist)
  JobSeq,              \* job types the loop hands the adapter, in order
  ServerPassword       \* the server's telnet asks for a password

JobTypes == {"SERVER_START", "SERVER_STOP", "SERVER_RESTART", "SEND_COMMAND", "STATUS"}
ProcStates == {"unused", "booting", "serving", "stopping", "exited"}

ASSUME JobSeq \in Seq(JobTypes)
ASSUME ServerPassword \in BOOLEAN
ASSUME Cardinality(Procs) >
         Len(SelectSeq(JobSeq, LAMBDA t : t \in {"SERVER_START", "SERVER_RESTART"}))

VARIABLES
  procs,      \* state of each server process slot
  owned,      \* processes cmd.Run waits on, killed if ctx is cancelled
  cancelled,  \* the loop's ctx is done (SIGINT)
  jobs,       \* job types not yet taken
  apc,        \* where the adapter is in the current job
  job,        \* the current job's type
  cfg,        \* jobPayloadToConfig of the current job
  child,      \* the process cmd.Run waits for
  queued,     \* the server has output the telnet read loop has not read
  text,       \* the telnet read loop has read some output
  results     \* history: <<job type, "ok" or "err">> per finished job

vars == <<procs, owned, cancelled, jobs, apc, job, cfg, child, queued, text, results>>

Pcs == {"idle", "start", "run", "stop", "stopRun", "telnet", "read", "stopScript", "grace"}

Serving == {p \in Procs : procs[p] = "serving"}
Holding == {p \in Procs : procs[p] \in {"serving", "stopping"}}
Alive == {p \in Procs : procs[p] \in {"booting", "serving", "stopping"}}

(* The payload fields that steer the adapter: start_command or start.sh  *)
(* or neither, whether that program runs the server in the foreground,   *)
(* stop_command, a stop.sh in install_path, telnet_password.              *)
Configs == [start : {"command", "script", "none"}, foreground : BOOLEAN,
            stopCommand : BOOLEAN, stopScript : BOOLEAN,
            password : {"none", "right", "wrong"}]

(* The telnet session may run commands. *)
Authenticated == ~ServerPassword \/ cfg.password = "right"

TypeOK ==
  /\ procs \in [Procs -> ProcStates]
  /\ owned \subseteq Procs
  /\ apc \in Pcs
  /\ cfg \in Configs
  /\ queued \in BOOLEAN /\ text \in BOOLEAN
  /\ results \in Seq(JobTypes \X {"ok", "err"})

Init ==
  /\ \E first \in Procs :
       procs \in {[p \in Procs |-> "unused"],
                  [p \in Procs |-> IF p = first THEN "serving" ELSE "unused"]}
  /\ owned = {}
  /\ cancelled = FALSE
  /\ jobs = JobSeq
  /\ apc = "idle"
  /\ job = "STATUS"
  /\ cfg = [start |-> "none", foreground |-> FALSE, stopCommand |-> FALSE,
            stopScript |-> FALSE, password |-> "none"]
  /\ child = CHOOSE p \in Procs : TRUE
  /\ queued = FALSE /\ text = FALSE
  /\ results = <<>>

(* Execute returns: resultOrErr, or a failed JobResult for SendCommand's error. *)
Return(r) ==
  /\ apc' = "idle"
  /\ results' = Append(results, <<job, r>>)

(* Execute: jobPayloadToConfig, switch strings.ToUpper(job.Type).  There  *)
(* is no STATUS case: it falls to "unsupported job type".                 *)
TakeJob ==
  /\ apc = "idle" /\ jobs # <<>>
  /\ job' = Head(jobs)
  /\ jobs' = Tail(jobs)
  /\ cfg' \in Configs
  /\ \/ Head(jobs) = "SERVER_START" /\ apc' = "start" /\ UNCHANGED results
     \/ Head(jobs) \in {"SERVER_STOP", "SERVER_RESTART"} /\ apc' = "stop" /\ UNCHANGED results
     \/ Head(jobs) = "SEND_COMMAND" /\ apc' = "telnet" /\ UNCHANGED results
     \/ Head(jobs) = "STATUS" /\ apc' = "idle" /\ results' = Append(results, <<"STATUS", "err">>)
  /\ UNCHANGED <<procs, owned, cancelled, child, queued, text>>

(* Mutant: the program is started with exec.Command, not tied to ctx. *)
LaunchWithoutCtx ==
  /\ apc = "start"
  /\ \/ /\ cfg.start = "none" \/ cancelled
        /\ Return("err")
        /\ UNCHANGED <<procs, owned, child>>
     \/ /\ cfg.start # "none" /\ ~cancelled /\ cfg.foreground
        /\ \E p \in Procs :
             /\ procs[p] = "unused"
             /\ procs' = [procs EXCEPT ![p] = "booting"]
             /\ child' = p
        /\ apc' = "run"
        /\ UNCHANGED <<owned, results>>
     \/ /\ cfg.start # "none" /\ ~cancelled /\ ~cfg.foreground
        /\ \/ \E p \in Procs :
                /\ procs[p] = "unused"
                /\ procs' = [procs EXCEPT ![p] = "booting"]
                /\ Return("ok")
           \/ UNCHANGED procs /\ Return("err")
        /\ UNCHANGED <<owned, child>>
  /\ UNCHANGED <<cancelled, jobs, job, cfg, queued, text>>

(* Start: start_command, else start.sh, else "no start_command and no    *)
(* start.sh".  runnerShim.run: cmd.Run under ctx, which fails at once     *)
(* when ctx is done.  A program that is the server keeps cmd.Run waiting *)
(* on it; one that only launches the server returns nil, or exits        *)
(* non-zero without having started it.                                   *)
Launch ==
  /\ apc = "start"
  /\ \/ /\ cfg.start = "none" \/ cancelled
        /\ Return("err")
        /\ UNCHANGED <<procs, owned, child>>
     \/ /\ cfg.start # "none" /\ ~cancelled /\ cfg.foreground
        /\ \E p \in Procs :
             /\ procs[p] = "unused"
             /\ procs' = [procs EXCEPT ![p] = "booting"]
             /\ owned' = owned \cup {p} /\ child' = p
        /\ apc' = "run"
        /\ UNCHANGED results
     \/ /\ cfg.start # "none" /\ ~cancelled /\ ~cfg.foreground
        /\ \/ \E p \in Procs :
                /\ procs[p] = "unused"
                /\ procs' = [procs EXCEPT ![p] = "booting"]
                /\ Return("ok")
           \/ UNCHANGED procs /\ Return("err")
        /\ UNCHANGED <<owned, child>>
  /\ UNCHANGED <<cancelled, jobs, job, cfg, queued, text>>

(* cmd.Run returns when the server it waits for exits: nil for a clean   *)
(* exit, an error when it failed or was killed.                          *)
RunReturns ==
  /\ apc = "run" /\ procs[child] = "exited"
  /\ \E r \in {"ok", "err"} : Return(r)
  /\ UNCHANGED <<procs, owned, cancelled, jobs, job, cfg, child, queued, text>>

(* After a Stop: a Restart whose Stop succeeded goes on to the pause.    *)
StopReturns(r) ==
  IF job = "SERVER_RESTART" /\ r = "ok"
  THEN apc' = "grace" /\ UNCHANGED results
  ELSE Return(r)

(* A stop program run through runnerShim (stop_command or stop.sh):     *)
(* exec.CommandContext and cmd.Run, which fails at once for a done ctx   *)
(* and otherwise waits for the program to exit; no timeout applies.      *)
RunStopProgram ==
  \/ cancelled /\ StopReturns("err")
  \/ ~cancelled /\ apc' = "stopRun" /\ UNCHANGED results

(* Once ctx is done, exec.CommandContext kills the stop program and      *)
(* cmd.Run returns the kill's error.                                      *)
StopProgramKilled ==
  /\ apc = "stopRun" /\ cancelled
  /\ StopReturns("err")
  /\ UNCHANGED <<procs, owned, cancelled, jobs, job, cfg, child, queued, text>>

(* Stop: stop_command if set, else telnet "quit". *)
StopByCommand ==
  /\ apc = "stop" /\ cfg.stopCommand
  /\ RunStopProgram
  /\ UNCHANGED <<procs, owned, cancelled, jobs, job, cfg, child, queued, text>>

StopByTelnet ==
  /\ apc = "stop" /\ ~cfg.stopCommand
  /\ apc' = "telnet"
  /\ UNCHANGED <<procs, owned, cancelled, jobs, job, cfg, child, queued, text, results>>

(* After telnet "quit" brought no output or an error: stop.sh if present, *)
(* else "no stop_command, telnet quit failed, and no stop.sh".            *)
StopFallback ==
  /\ apc = "stopScript"
  /\ \/ cfg.stopScript /\ RunStopProgram
     \/ ~cfg.stopScript /\ StopReturns("err")
  /\ UNCHANGED <<procs, owned, cancelled, jobs, job, cfg, child, queued, text>>

(* Mutant: a console command's job carries its output where the status goes. *)
TelnetReturnsOutput(ok) ==
  IF job = "SEND_COMMAND"
  THEN Return(IF ok /\ text THEN "output" ELSE IF ok THEN "ok" ELSE "err")
  ELSE IF ok /\ text
       THEN StopReturns("ok")
       ELSE apc' = "stopScript" /\ UNCHANGED results

(* Where sendTelnet's result goes: SendCommand returns it as the job's   *)
(* result; Stop succeeds on (no error, non-empty output) and otherwise   *)
(* falls back.                                                             *)
TelnetReturns(ok) ==
  IF job = "SEND_COMMAND"
  THEN Return(IF ok THEN "ok" ELSE "err")
  ELSE IF ok /\ text
       THEN StopReturns("ok")
       ELSE apc' = "stopScript" /\ UNCHANGED results

(* sendTelnet: DialContext (refused without a running server, failing at *)
(* once for a done ctx), drain the banner, write the password if one is  *)
(* set, drain, write the command.  An authenticated session runs it      *)
(* ("quit" shuts the server down); otherwise the server answers with its *)
(* password prompt.  A failed dial or write returns ("", err); a write   *)
(* can fail on any connection the server has dropped.                     *)
TelnetSend ==
  /\ apc = "telnet"
  /\ text' = FALSE
  /\ \/ /\ TelnetReturns(FALSE)
        /\ UNCHANGED <<procs, queued>>
     \/ /\ ~cancelled
        /\ \E p \in Serving :
             /\ procs' = IF Authenticated /\ job # "SEND_COMMAND"
                         THEN [procs EXCEPT ![p] = "stopping"] ELSE procs
             /\ queued' \in IF Authenticated THEN BOOLEAN ELSE {TRUE}
        /\ apc' = "read" /\ UNCHANGED results
  /\ UNCHANGED <<owned, cancelled, jobs, job, cfg, child>>

(* The read loop: a read that returns bytes appends them and goes on.   *)
TelnetRead ==
  /\ apc = "read" /\ queued
  /\ queued' = FALSE /\ text' = TRUE
  /\ UNCHANGED <<procs, owned, cancelled, jobs, apc, job, cfg, child, results>>

(* A read that brings nothing before its 2s deadline, or fails (the      *)
(* server closed the connection), ends the loop; sendTelnet returns the   *)
(* trimmed output and no error.                                           *)
TelnetQuiet ==
  /\ apc = "read" /\ ~queued
  /\ TelnetReturns(TRUE)
  /\ UNCHANGED <<procs, owned, cancelled, jobs, job, cfg, child, queued, text>>

(* Restart: select { case <-ctx.Done(): return ctx.Err()                  *)
(*                   case <-time.After(3s): }  then Start.               *)
GraceElapsed ==
  /\ apc = "grace"
  /\ apc' = "start"
  /\ UNCHANGED <<procs, owned, cancelled, jobs, job, cfg, child, queued, text, results>>

GraceCancelled ==
  /\ apc = "grace" /\ cancelled
  /\ Return("err")
  /\ UNCHANGED <<procs, owned, cancelled, jobs, job, cfg, child, queued, text>>

AdapterNext ==
  \/ TakeJob \/ Launch \/ RunReturns \/ StopByCommand \/ StopByTelnet
  \/ StopProgramKilled \/ StopFallback \/ TelnetSend \/ TelnetRead
  \/ TelnetQuiet \/ GraceElapsed \/ GraceCancelled

-----------------------------------------------------------------------------
(* The environment: SIGINT, the server processes, their telnet log output. *)
Interrupt ==
  /\ ~cancelled
  /\ cancelled' = TRUE
  /\ UNCHANGED <<procs, owned, jobs, apc, job, cfg, child, queued, text, results>>

(* A booting server binds its ports, or exits if another still holds them. *)
Bind(p) ==
  /\ procs[p] = "booting"
  /\ procs' = [procs EXCEPT ![p] = IF Holding = {} THEN "serving" ELSE "exited"]
  /\ UNCHANGED <<owned, cancelled, jobs, apc, job, cfg, child, queued, text, results>>

Exit(p) ==
  /\ procs[p] = "stopping"
  /\ procs' = [procs EXCEPT ![p] = "exited"]
  /\ UNCHANGED <<owned, cancelled, jobs, apc, job, cfg, child, queued, text, results>>

(* The stop program exits on its own: it had the serving server shut     *)
(* down, or it failed.  It may also never exit.                           *)
StopProgramExits ==
  /\ apc = "stopRun"
  /\ \/ /\ procs' = [p \in Procs |-> IF procs[p] = "serving" THEN "stopping" ELSE procs[p]]
        /\ StopReturns("ok")
     \/ UNCHANGED procs /\ StopReturns("err")
  /\ UNCHANGED <<owned, cancelled, jobs, job, cfg, child, queued, text>>

(* exec.CommandContext kills the process cmd.Run waits on once ctx is done. *)
CtxKill(p) ==
  /\ cancelled /\ p \in owned /\ p \in Alive
  /\ procs' = [procs EXCEPT ![p] = "exited"]
  /\ UNCHANGED <<owned, cancelled, jobs, apc, job, cfg, child, queued, text, results>>

(* A running server writes a log line to the open telnet session, as    *)
(* often as it likes: nothing bounds the lines a read loop can get.       *)
LogLine ==
  /\ apc = "read" /\ ~queued /\ Serving # {}
  /\ queued' = TRUE
  /\ UNCHANGED <<procs, owned, cancelled, jobs, apc, job, cfg, child, text, results>>

ProcNext == \E p \in Procs : Bind(p) \/ Exit(p) \/ CtxKill(p)

Next == AdapterNext \/ ProcNext \/ StopProgramExits \/ Interrupt \/ LogLine

(* The loop goroutine, the Go runtime's ctx watcher and the server       *)
(* processes make progress; SIGINT and log output never have to come, and *)
(* a stop program never has to exit.                                      *)
Spec ==
  /\ Init /\ [][Next]_vars
  /\ WF_vars(AdapterNext)
  /\ \A p \in Procs : WF_vars(Bind(p)) /\ WF_vars(Exit(p)) /\ WF_vars(CtxKill(p))

-----------------------------------------------------------------------------
(* Every job the loop hands the adapter gets its result: cmd.Run,          *)
(* sendTelnet's read loop and Restart's pause all end, so the loop goes on. *)
AllJobsAnswered == <>(jobs = <<>> /\ apc = "idle")

(* Spec 5: cancellation reaches the commands the adapter waits on.  The   *)
(* shim's timeout never applies, so a server run in the foreground or a   *)
(* stop program that does not exit holds the job in cmd.Run; once ctx is *)
(* done, exec.CommandContext kills it and the job leaves cmd.Run.          *)
InterruptEndsCommandWaits ==
  \A w \in {"run", "stopRun"} : (cancelled /\ apc = w) ~> (apc # w)

(* The step in which Stop returns nil: a Restart moves on to its pause, or *)
(* a Stop job reports success.                                              *)
StopSucceeds ==
  \/ apc' = "grace" /\ apc # "grace"
  \/ Len(results') > Len(results) /\ Last(results') = <<"SERVER_STOP", "ok">>

(* When Stop reports success no server is serving any more: Stop takes a  *)
(* non-empty answer to telnet "quit" as the server's acknowledgement.      *)
StopOkMeansStopped == [][StopSucceeds => Serving' = {}]_vars

=============================================================================
