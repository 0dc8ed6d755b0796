------------------------------ MODULE JobLoop ------------------------------
(***************************************************************************)
(* The agent process as cmd main.go runs it.  main blocks on the context  *)
(* of signal.NotifyContext and returns (ending the process) when it is    *)
(* done; the jobs.Loop goroutine polls the control plane, runs each job   *)
(* of a poll through JobExecutor.Execute and submits its result with      *)
(* SubmitJobResult, whose error is ignored.  The control plane is the     *)
(* environment: it hands out jobs from its queue, and a poll response can *)
(* be lost after it has handed jobs out (client timeout, broken body).    *)
(* The heartbeat goroutine runs beside the loop on the same context.      *)
(***************************************************************************)
EXTENDS Naturals, Sequences, SequencesExt

CONSTANTS
  JobOrder,      \* the jobs queued at the control plane, in queue order
  ExecOutcomes,  \* what Execute may return: a JobResult with status
                 \* "success" or "failed", or a Go "error"
  NoJob          \* model value: runOne is not working on a job

ASSUME IsInjective(JobOrder)
ASSUME ExecOutcomes \subseteq {"success", "failed", "error"}

Jobs == ToSet(JobOrder)

VARIABLES
  alive,      \* main has not returned: the process and its goroutines run
  cancelled,  \* the signal context is done (SIGINT received)
  pending,    \* jobs the control plane has not handed out yet
  lpc,        \* where the jobs.Loop goroutine is
  batch,      \* jobs of the current poll not yet started by the range loop
  cur,        \* the job runOne is working on
  res,        \* what Execute returned for cur
  received,   \* history: the jobs polls returned to the loop, in order
  submitted,  \* history: the jobs runOne called SubmitJobResult for, in order
  cpResult,   \* the result status the control plane holds for each job
  hpc         \* where the heartbeat.Run goroutine is

vars == <<alive, cancelled, pending, lpc, batch, cur, res, received,
          submitted, cpResult, hpc>>

LoopPcs == {"poll", "backoff", "next", "exec", "submit", "check", "returned"}

TypeOK ==
  /\ alive \in BOOLEAN
  /\ cancelled \in BOOLEAN
  /\ lpc \in LoopPcs
  /\ cur \in Jobs \cup {NoJob}
  /\ res \in ExecOutcomes \cup {"none"}
  /\ cpResult \in [Jobs -> {"none", "success", "failed"}]
  /\ hpc \in {"send", "wait", "returned"}

Init ==
  /\ alive = TRUE
  /\ cancelled = FALSE
  /\ pending = JobOrder
  /\ lpc = "poll"
  /\ batch = <<>>
  /\ cur = NoJob
  /\ res = "none"
  /\ received = <<>>
  /\ submitted = <<>>
  /\ cpResult = [j \in Jobs |-> "none"]
  /\ hpc = "send"

(* Mutation: the payload's Status is filled from result.Error, which is  *)
(* empty on success.                                                      *)
ReportedStatusFromError(o) == IF o = "success" THEN "" ELSE o

(* The status runOne sends: a Go error becomes "failed", a JobResult is   *)
(* sent with its own status.                                              *)
ReportedStatus(o) == IF o = "error" THEN "failed" ELSE o

(* SIGINT: signal.NotifyContext cancels ctx. *)
Interrupt ==
  /\ alive /\ ~cancelled
  /\ cancelled' = TRUE
  /\ UNCHANGED <<alive, pending, lpc, batch, cur, res, received, submitted, cpResult, hpc>>

(* main: <-ctx.Done(), log, return.  Returning from main ends every      *)
(* goroutine wherever it is; main does not wait for jobs.Loop.           *)
MainReturn ==
  /\ alive /\ cancelled
  /\ alive' = FALSE
  /\ UNCHANGED <<cancelled, pending, lpc, batch, cur, res, received, submitted, cpResult, hpc>>

LoopStep(from, to) == alive /\ lpc = from /\ lpc' = to

(* PollJobs returns an error and no job was handed out: transport error,  *)
(* non-200 status, or a request made with a cancelled ctx.               *)
PollFailed ==
  /\ LoopStep("poll", "backoff")
  /\ UNCHANGED <<alive, cancelled, pending, batch, cur, res, received, submitted, cpResult, hpc>>

(* The control plane handed out k jobs but the response never reached    *)
(* the loop (http.Client timeout of 30s, broken body, bad JSON, or SIGINT *)
(* cancelling the request's ctx in flight).                               *)
PollLost ==
  /\ LoopStep("poll", "backoff")
  /\ \E k \in 1..Len(pending) : pending' = SubSeq(pending, k + 1, Len(pending))
  /\ UNCHANGED <<alive, cancelled, batch, cur, res, received, submitted, cpResult, hpc>>

(* Mutation: the decoded jobs land in a shadowed variable and the range *)
(* loop sees an empty slice.                                              *)
PollOkShadowed ==
  /\ LoopStep("poll", "next")
  /\ ~cancelled
  /\ \E k \in 0..Len(pending) :
       /\ pending' = SubSeq(pending, k + 1, Len(pending))
       /\ received' = received \o SubSeq(pending, 1, k)
  /\ UNCHANGED <<alive, cancelled, batch, cur, res, submitted, cpResult, hpc>>

(* PollJobs returns the first k queued jobs (k = 0: the poll timed out). *)
PollOk ==
  /\ LoopStep("poll", "next")
  /\ ~cancelled
  /\ \E k \in 0..Len(pending) :
       /\ batch' = SubSeq(pending, 1, k)
       /\ pending' = SubSeq(pending, k + 1, Len(pending))
       /\ received' = received \o SubSeq(pending, 1, k)
  /\ UNCHANGED <<alive, cancelled, cur, res, submitted, cpResult, hpc>>

(* After a failed poll: select { case <-ctx.Done(): return                *)
(*                               case <-time.After(poll interval): }      *)
(* Either case may be chosen once both are ready.                         *)
BackoffElapsed ==
  /\ LoopStep("backoff", "poll")
  /\ UNCHANGED <<alive, cancelled, pending, batch, cur, res, received, submitted, cpResult, hpc>>

BackoffCancelled ==
  /\ LoopStep("backoff", "returned")
  /\ cancelled
  /\ UNCHANGED <<alive, cancelled, pending, batch, cur, res, received, submitted, cpResult, hpc>>

(* Mutation: the range loop starts a job without moving past it. *)
RunNextNoAdvance ==
  /\ LoopStep("next", "exec")
  /\ batch # <<>>
  /\ cur' = Head(batch)
  /\ UNCHANGED <<alive, cancelled, pending, batch, res, received, submitted, cpResult, hpc>>

(* for _, j := range jobs { runOne(...) } *)
RunNext ==
  /\ LoopStep("next", "exec")
  /\ batch # <<>>
  /\ cur' = Head(batch)
  /\ batch' = Tail(batch)
  /\ UNCHANGED <<alive, cancelled, pending, res, received, submitted, cpResult, hpc>>

BatchDone ==
  /\ LoopStep("next", "check")
  /\ batch = <<>>
  /\ UNCHANGED <<alive, cancelled, pending, batch, cur, res, received, submitted, cpResult, hpc>>

(* exec.Execute(ctx, job).  The executor is called whatever the state of  *)
(* ctx: the loop does not look at ctx between the jobs of one poll.       *)
Execute ==
  /\ LoopStep("exec", "submit")
  /\ \E o \in ExecOutcomes : res' = o
  /\ UNCHANGED <<alive, cancelled, pending, batch, cur, received, submitted, cpResult, hpc>>

(* SubmitJobResult(ctx, ...): it reaches the control plane only if ctx is *)
(* not done and the request succeeds; its error is discarded.             *)
SubmitDelivered ==
  /\ LoopStep("submit", "next")
  /\ ~cancelled
  /\ submitted' = Append(submitted, cur)
  /\ cpResult' = [cpResult EXCEPT ![cur] = ReportedStatus(res)]
  /\ UNCHANGED <<alive, cancelled, pending, batch, cur, res, received, hpc>>

SubmitDropped ==
  /\ LoopStep("submit", "next")
  /\ submitted' = Append(submitted, cur)
  /\ UNCHANGED <<alive, cancelled, pending, batch, cur, res, received, cpResult, hpc>>

(* select { case <-ctx.Done(): return; default: } after each poll cycle. *)
CheckCancelled ==
  /\ LoopStep("check", "returned")
  /\ cancelled
  /\ UNCHANGED <<alive, cancelled, pending, batch, cur, res, received, submitted, cpResult, hpc>>

(* Mutation: the default case of the select returns. *)
CheckContinueReturns ==
  /\ LoopStep("check", "returned")
  /\ ~cancelled
  /\ UNCHANGED <<alive, cancelled, pending, batch, cur, res, received, submitted, cpResult, hpc>>

CheckContinue ==
  /\ LoopStep("check", "poll")
  /\ ~cancelled
  /\ UNCHANGED <<alive, cancelled, pending, batch, cur, res, received, submitted, cpResult, hpc>>

LoopNext ==
  \/ PollFailed \/ PollLost \/ PollOk
  \/ BackoffElapsed \/ BackoffCancelled
  \/ RunNext \/ BatchDone \/ Execute
  \/ SubmitDelivered \/ SubmitDropped
  \/ CheckCancelled \/ CheckContinue

-----------------------------------------------------------------------------
(* heartbeat.Run.  hostinfo.Gather never returns an error, so its retry   *)
(* branch is never taken.  The Heartbeat request is sent (delivered or    *)
(* failed, the error only logged); then select { case <-ctx.Done():      *)
(* return  case <-ticker.C: }, either case once both are ready.           *)
HeartbeatStep(from, to) ==
  /\ alive /\ hpc = from /\ hpc' = to
  /\ UNCHANGED <<alive, cancelled, pending, lpc, batch, cur, res, received, submitted, cpResult>>

(* Mutation: a failed Heartbeat request ends the goroutine. *)
HeartbeatSendReturns ==
  HeartbeatStep("send", "wait") \/ HeartbeatStep("send", "returned")

HeartbeatSend == HeartbeatStep("send", "wait")

HeartbeatTick == HeartbeatStep("wait", "send")

HeartbeatCancelled == cancelled /\ HeartbeatStep("wait", "returned")

HeartbeatNext == HeartbeatSend \/ HeartbeatTick \/ HeartbeatCancelled

Next == Interrupt \/ MainReturn \/ LoopNext \/ HeartbeatNext

(* The Go scheduler runs every runnable goroutine: main, the loop and the *)
(* heartbeat are weakly fair.  The signal and the network outcomes are   *)
(* not.                                                                    *)
Spec ==
  /\ Init /\ [][Next]_vars
  /\ WF_vars(LoopNext) /\ WF_vars(HeartbeatNext) /\ WF_vars(MainReturn)

-----------------------------------------------------------------------------
(* Refinement: the jobs started or waiting in the current batch are the   *)
(* abstract inbox; the jobs runOne has submitted are the outbox.          *)
InFlight == IF lpc \in {"exec", "submit"} THEN <<cur>> ELSE <<>>

Dispatch == INSTANCE JobDispatch WITH inbox <- InFlight \o batch, outbox <- submitted

(* Every received job is run and its result submitted exactly once, in   *)
(* the order the polls returned the jobs (spec 4.5, section 5 ordering). *)
DispatchRefined == Dispatch!Spec

(* The loop never stops polling on its own: until SIGINT, it always      *)
(* comes back to PollJobs (loop.go's for/select).                         *)
LoopRunsUntilCancelled == ~cancelled ~> (lpc = "poll" \/ cancelled)

(* The control plane keeps hearing from the agent: until SIGINT, the     *)
(* heartbeat goroutine always comes back to sending a Heartbeat, whether  *)
(* or not the previous one got through (heartbeat.go logs its error).     *)
HeartbeatsUntilCancelled == ~cancelled ~> (hpc = "send" \/ cancelled)

(* A job a poll returned is eventually submitted, unless the process     *)
(* has exited first.                                                     *)
ReceivedJobSubmitted ==
  \A j \in Jobs : (j \in ToSet(received)) ~> (j \in ToSet(submitted) \/ ~alive)

(* Spec 4.5: a cancelled context never aborts a job already being        *)
(* dispatched; the in-flight executor call runs to completion and its    *)
(* result is handed to the result sink.                                  *)
InFlightJobCompletes ==
  \A j \in Jobs : (lpc = "exec" /\ cur = j) ~> (j \in ToSet(submitted))

=============================================================================
