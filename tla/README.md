# TLA+ models of the Mastermind host agent

These are TLA+ specifications of the Go agent under `src/agent`, with the TLC
configurations that check them. The agent runs on a game host. It pairs once with
the control plane, sends heartbeats, polls for jobs and runs each job against a
local game server. Control goes through process lifecycle, the Minecraft RCON
binary protocol and the 7 Days to Die telnet console.

Every module is translated from the source. `PROJECT.json` maps each definition
to the lines it models. It also lists the runs, the mutants that show each
property can fail, the findings and the hazards.

## 1. The system

| Part | Source | State | Operations |
|---|---|---|---|
| Agent process | `main.go` | agentKey, hostID, signal ctx | boot decision, pairing, start heartbeat and loop goroutines, return on SIGINT |
| Job loop | `internal/jobs/loop.go` | the current poll batch | PollJobs, back-off `select`, sequential `runOne`, post-batch ctx check |
| Executor | `internal/runner/runner.go` | none | `Execute` (a stub: always success) |
| HTTP client | `internal/client/http.go` | 30s `http.Client` | Pair, Heartbeat, PollJobs, SubmitJobResult, StreamLog |
| Pairing | `internal/pairing/pairing.go` | `agent.key` file | Pair, MkdirAll, WriteFile |
| Heartbeat | `internal/heartbeat/heartbeat.go` | ticker | gather, send, wait for tick or ctx |
| RCON client | `internal/games/minecraft/rcon.go` | conn, requestID | Connect/auth, Exec, recv, send, Close |
| Minecraft adapter | `internal/games/minecraft/adapter.go` | none (per call) | Execute, Start (startAndCheck), Stop, Restart, Status, SendCommand, listPlayers, kick/ban |
| 7DTD adapter | `internal/games/7dtd/adapter.go` | none (per call) | Execute, Start/Stop/Restart/Status through runnerShim and sendTelnet |
| Registry, no-op adapter | `internal/games/adapter.go`, `internal/agent/gameadapter.go` | map slug → adapter | Register, Get, GetOrNoop; the no-op adapter's capability methods |
| Streamer | `internal/stream/streamer.go` | open file | copy loop with a ctx check |

How they interact:

- `main` starts the heartbeat and the job loop as goroutines on one
  `signal.NotifyContext` context.
- `main` blocks on `ctx.Done()` and then returns. Returning ends the process
  wherever the goroutines are.
- The loop calls the executor for each job, one at a time, and submits each
  result.
- The executor wired in `main` is the stub `runner.Runner`. The adapters
  implement the same `Execute` and are what spec §4.5 dispatches to.
- The Minecraft adapter opens one RCON session per call.
- Both adapters spawn server processes with `exec.CommandContext` on the job's
  context, which is the loop's signal context.

The behaviours that make the system hard:

- **Interleavings.** SIGINT can interleave with any step of the loop, and main
  does not wait.
- **Unreliable delivery.**
  - A poll answer can be lost after the control plane handed jobs out.
  - A result submission fails silently.
  - A Pair answer can be lost after the token was consumed.
- **TCP byte streams.** An RCON packet can arrive in segments, and `recv` reads
  each part with a single `conn.Read`.
- **Crashes.** The agent can crash between or inside the two credential file
  writes. The service manager restarts it.
- **Timeouts.** Fixed 2s and 3s waits race real server processes: startup,
  port and world-lock binding, shutdown.

## 2. Modules

| Module | Models | State ↔ code |
|---|---|---|
| `JobDispatch` | the promise of spec §4.5 | `inbox`: jobs received and not completed; `outbox`: jobs completed, in order |
| `JobLoop` | `main` + `jobs.Loop` + `runOne` + `Runner.Execute` + `heartbeat.Run` | `lpc` is the loop goroutine's position; `alive` is "main has not returned"; `cancelled` is ctx; `pending` is the control plane's queue; `batch` is the rest of `jobs` in the range loop; `cur`/`res` are runOne's job and result; `submitted`/`cpResult` are what SubmitJobResult delivered; `hpc` is the heartbeat goroutine's position |
| `RconSession` | `Connect`, `auth`, `Exec`, `recv`, `send`, `joinResponses`, `Close` | `cpc` is the client position; `reqID` is `requestID`; `rcvbuf` is the socket receive buffer in bytes; `srvQueue` holds the server's encoded packets in flight; `out` is Exec's fragments |
| `Bootstrap` | `main`'s credential branch, `pairing.Do`, `loadHostID` | `keyFile`/`hostFile` are the two files (absent, empty, torn, ok); `memKey`/`memHost` are main's variables; `pc` is the process position, with crash and restart |
| `MinecraftAdapter` | `Execute`'s whole switch, `startAndCheck`, `Start`, `Stop`, `Restart`, `Status`, `SendCommand`, `listPlayers`, `withRCON` | `apc` is the adapter position; `procs` holds the server processes (booting, serving, stopping, exited); `owned` holds the processes started under the loop's ctx; `cfg` is `payloadToConfig` of the job; `command` is the RCON command a SEND_COMMAND or LIST_PLAYERS job sends |
| `PlayerArgs` | the UTF-8 semantics `sanitizeRCONArg` rests on | `DecodeRunes` is Go's `for _, r := range s` (an invalid byte is U+FFFD and consumes one byte); `EncodeRunes` is `strings.Builder.WriteRune` |
| `MinecraftCommands`, `SevenDaysCommands` | each adapter's `sanitizeRCONArg`, `KickPlayer`, `BanPlayer` (two copies of the code, one module each) | operators from player id and reason, as bytes, to the command `SendCommand` is given; 7DTD's `TelnetLine` adds the `"\n"` of `sendTelnet` |
| `AdapterRegistry` | `Registry.Register`/`Get`/`GetOrNoop`, `NoopGameAdapter`, which capability methods answer `ErrUnsupported` | `adapters` is `Registry.adapters`; `registered` is the history of Register calls; `lastCall` is the capability call in progress: slug, resolved adapter, ErrUnsupported or not, bytes sent |
| `SevenDaysAdapter` | 7DTD `Execute`, `runnerShim.run`, `Start`, `Stop`, `Restart`, `sendTelnet` | `apc` is the adapter position; `procs`/`owned` as in MinecraftAdapter; `child` is the process `cmd.Run` waits for; `queued`/`text` are the telnet read loop's socket (unread output) and its collected output; `cfg` is `jobPayloadToConfig` plus whether the start program runs the server in the foreground |

Each module has one `MC*.tla` that fixes model values and small constants.

**JobLoop**
- Every poll outcome is its own action: failure, lost answer, or success with k
  jobs.
- Each `select` case is its own action.
- `Execute` returns any status the repository's executors return.
- A submission is delivered only while ctx is not done. Its failure is
  ignored, as in `runOne`.
- The refinement mapping sends `inbox` to the current job (once started) followed
  by the rest of the batch, and `outbox` to the submitted jobs.
- The heartbeat goroutine sends (its error only logged), then selects on
  ctx.Done and the ticker. `hostinfo.Gather` never fails, so the gather-retry
  branch is left out.

**RconSession**
- Packets are encoded byte for byte, as in `send`: LE32 length, id and type,
  payload, NUL, pad.
- `recv` decodes them with the code's checks: the length against the maximum
  before the body read, and against 10 after it.
- A `conn.Read` returns what the buffer holds, up to the size asked for, and
  leaves `make`'s zeros in the rest.
- The server is the environment. It answers AUTH with the id or -1. A
  Source-style server sends an empty RESPONSE_VALUE first. A command is
  answered in fragments.

**RconSession** also keeps `shortRead`, a history flag: some recv `Read` got
fewer bytes than it asked for.

**SevenDaysAdapter**
- `runnerShim.run` is `cmd.Run` under the loop's ctx and nothing else: the
  timeout context it derives is never passed to the command.
- The start program either returns once the server runs, or is the server
  (the stock start script runs it in the foreground). Each job's payload picks.
- `sendTelnet` is one step up to the command write (the dial, the banner and
  password drains, the writes), then a read loop: a read with output goes on,
  a read with none ends it. The server answers an unauthenticated session with
  its password prompt; an authenticated "quit" shuts it down. It may write log
  lines into the loop without end: nothing in the code bounds them.
- A stop program (stop_command or stop.sh) is started in one step and exits in
  another, which need never come: `cmd.Run` has no timeout. Once ctx is done,
  `exec.CommandContext` kills it (`StopProgramKilled`).
- A start program that only launches the server returns nil, or exits
  non-zero without having started it.
- Execute has no STATUS case, so `Status` is never reached from a job.
- `GetLogPath` (whose failure makes `StreamChat` answer `ErrUnsupported`) is
  in AdapterRegistry.

**AdapterRegistry**
- `main` does not use the registry yet (`main.go:76`: "future: dispatch by
  game type via Registry"). The caller that resolves a slug and calls one
  capability is modelled from spec §2 and §4.5 and marked so in `PROJECT.json`.
- One caller: a call returns before the next call or registration, as in the
  spec's populate-then-read lifecycle (§5).
- A kick or ban on a game adapter puts `PlayerWire` on the wire: the RCON
  payload, or the telnet line. A method that answers `ErrUnsupported` sends
  nothing.
- Player ids and reasons are all byte strings over seven bytes, one per class
  the code tells apart: a letter, a space, `;`, `\n`, `\r`, the lead byte C3
  and the continuation byte A9. C3 A9 is a valid rune, and a lone C3 or A9 is
  invalid and comes back as EF BF BD.

**MinecraftAdapter**
- One RCON session is one step here (`RconExec`, for `withRCON`);
  RconSession checks the protocol. It needs a password and a serving server,
  and can still fail. A command is `"list"` or `"stop"`: a SEND_COMMAND job
  may stop the server just as a SERVER_STOP does.
- `Execute` compares `job.Type` as sent, so the model's lower-case
  `"server_start"` is answered "unsupported job type". 7DTD upper-cases it
  first.
- `Start` fails before spawning when there is nothing to launch: no
  install_path, a blank start_command, or no server.jar.
- A server process either binds the port and world lock, or exits if another
  process still holds them.
- A stopping server holds them until it exits.
- `exec.CommandContext` kills a process it started once ctx is done.
- `Stop` with stop_command starts the program and waits for it: its exit
  (`StopCommandExits`) is the environment's and need never come, because
  `cmd.Run` has no timeout (the adapter's `stopTimeout` is never used). A done
  ctx kills it (`StopCommandKilled`).

## 3. Runs

| Run | cfg | Expect | What it shows |
|---|---|---|---|
| job_loop | `MCJobLoop.cfg` | pass | JobLoop refines JobDispatch: each received job is run and reported once, in order. The loop keeps polling and the heartbeat keeps sending until SIGINT. A received job is reported unless the process exited first. |
| job_loop_shutdown | `MCJobLoopShutdown.cfg` | violation | SIGINT while a job runs: main returns and the job's result is lost (spec §4.5 says the in-flight job completes). |
| rcon_segmented | `MCRconSegmented.cfg` | pass | However TCP splits the packets, the right password is never reported as an auth failure; while every recv `Read` gets all it asks for, a successful Exec returns a newline-joined prefix of its answer and auth passes only with the right password. |
| rcon_garbled | `MCRconGarbled.cfg` | violation | With segmentation, a short `conn.Read` gives zero-filled packets and Exec returns text the server never sent (the same short read lets a wrong password through). |
| bootstrap | `MCBootstrap.cfg` | pass | Across up to 3 crashes, torn writes and restarts, every state keeps the two files and main's credentials within their possible contents (type invariant only; recovery is the next run's question). |
| bootstrap_recovery | `MCBootstrapRecovery.cfg` | violation | One crash during the key write, or between the key and host_id writes, and the agent exits at every boot forever. A failed host_id write followed by a restart breaks the same property. |
| minecraft_adapter | `MCMinecraftAdapter.cfg` | pass | A stop_command that never exits holds the job loop; once SIGINT cancels ctx, every job still to come returns, whatever its type (lifecycle, RCON command, player list, unmatched): the stop program is killed, the startup window and restart pause end, later Starts are refused. |
| minecraft_restart | `MCMinecraftRestart.cfg` | violation | Restart reports success, but the new server died on the port or world lock that the old, still-stopping server held. |
| sevendays_adapter | `MCSevenDaysAdapter.cfg` | pass | For every payload and a server that may log without end, a job held in `cmd.Run` (a foreground server, a stop program that does not exit) leaves it once SIGINT cancels ctx. The telnet read loop is not released this way (see §4). |
| sevendays_foreground | `MCSevenDaysForeground.cfg` | violation | A start program that runs the server in the foreground keeps SERVER_START, and the job loop, in `cmd.Run` for as long as the server runs: runnerShim's 5 minute timeout never reaches the command. |
| sevendays_quit | `MCSevenDaysQuit.cfg` | violation | With a missing or wrong telnet password, the password prompt counts as the answer to "quit": Stop reports success, skips stop.sh, and the server keeps serving. |
| adapter_registry | `MCAdapterRegistry.cfg` | pass | After any two registrations (game adapters, a no-op adapter with an empty name, one that shadows "7dtd"), no kick or ban, whatever the id and reason bytes, puts `;`, `\n` or `\r` on the wire, except the telnet line's final `\n`. |

Each property of a passing run has a mutant in `PROJECT.json`: a plausible bug in
the mapped code that TLC shows the property catches.

### Bounds, and why they are enough

**JobLoop**
- Three jobs give batches of size 0 to 3.
- That covers a batch that SIGINT splits, and a job lost in one poll with a later
  one received.

**RconSession**
- The sizes are scaled down:

  | Constant | Value | Stands for (code value) | Why |
  |---|---|---|---|
  | ServerFrag | 3 | 4096 | server fragment size |
  | Threshold | 2 | 4000 | Exec's end-of-answer test |
  | MaxBody | 19 | 4096+16 | recv's length limit |

- The answers range from empty to three fragments.
- Every branch of `recv` and `Exec` is reached:
  - a final fragment;
  - a full fragment followed by more;
  - an empty payload;
  - a header split from its body;
  - a length below 10.
- The byte values that matter are kept exactly: NUL, the -1 id, and the length
  bytes.

**Bootstrap**
- Three crashes allow a torn key, a crash between the two writes, and a crash
  after recovery.

**MinecraftAdapter**
- Three process slots cover a server already running when the agent starts,
  plus one spawn per Start-type job.
- The job sequence Restart, SendCommand, Status, an unmatched type, Stop,
  ListPlayers, Start makes each job meet the state the one before it left: a
  command may be "stop", so the Stop and Start after it find a server
  stopping, or none.

**SevenDaysAdapter**
- Two process slots: a server already running, and the one a Restart starts.
- The jobs Restart, SendCommand, Status: the command meets whatever the Restart
  left (a server up, booting, or none), and every payload choice is taken for
  each job (72 per job).
- The server's log output is unbounded (a flag for unread output, no
  counter), so a read loop that never ends is a behaviour TLC considers.
- The violation runs each take one job, on one server or none.

**AdapterRegistry**
- Two registrations over four registrable adapters: replacement, shadowing
  and the empty GameName, each before and after the other.
- Four slugs: both games, "noop" (where the empty-named no-op adapter is
  stored) and an unknown game.
- Player ids of up to 3 bytes and reasons of up to 1 byte, over the
  seven-byte alphabet. Every metacharacter appears at every position of an
  id, next to valid and invalid multi-byte sequences.

### Fairness

**JobLoop**
- The loop goroutine, the heartbeat goroutine and `main` are weakly fair, because the Go scheduler runs
  runnable goroutines.
- SIGINT and the network outcomes get no fairness.

**Bootstrap**
- The agent's own steps and the restart by the service manager are weakly fair.
- `Pair` and the key write are strongly fair: a request that can succeed
  eventually does once the network recovers.
- Crashes and write failures get no fairness.

**MinecraftAdapter**
- The adapter is weakly fair.
- Each server process's bind, exit and context kill are weakly fair.
- SIGINT gets no fairness.

- The stop program's own exit gets no fairness: nothing in the adapter makes
  it exit. Its kill on a done ctx is the Go runtime's and is weakly fair.

**SevenDaysAdapter** has the same fairness as MinecraftAdapter. Log lines and
the start and stop programs' own exits get none.

**RconSession** and **AdapterRegistry** check only safety.

## 4. What is not modelled, and the plan

Every operation that changes state and that a job or a capability call
reaches is an action of some module. The runs are at the project's limit of
twelve, so a new question would have to replace a run or join a passing run
as a property. What is left out, and why, is listed below.

Known from reading the code, with no run:

- **RCON auth against a Source-style server.** `auth` reads a single packet.
  A server that first sends an empty RESPONSE_VALUE with the request id gets
  a wrong password accepted. RconSession models such a server
  (`ServerStyle = "source"`). With that constant, `AuthOnlyWithPassword` (part
  of `WholeReadsDecodeRight`) fails in four steps. Minecraft servers send the
  AUTH reply alone, so the runs use `"minecraft"`.
- **Single-use pairing token.** With `TokenReusable = FALSE`,
  `bootstrap_recovery`'s property fails along a second path: Pair's answer is
  lost after the control plane consumed the token, and every retry is
  rejected. The run keeps reusable tokens so that its counterexample is the
  write-ordering one.
- **7DTD capabilities.** `Capabilities` returns `AllCapabilities`, including
  `install_mod`, while `InstallMod` always returns `ErrUnsupported`
  (`7dtd/adapter.go:51`, `:221`). Spec §3 and §7 say every advertised
  capability has a supported method, and §4.3 says no game implements
  install_mod. This is a static table mismatch, so a run would add nothing to
  reading the two lines. Minecraft's list matches its methods.
- **Spaces in player ids.** `sanitizeRCONArg` keeps spaces, so an id with a
  space adds arguments to a kick or ban. The spec draws its boundary at
  commands (separator and line terminators), not arguments, so no property
  claims an id is one argument.
- Minecraft `Stop` runs either `stop_command` or RCON "stop". It never falls
  back from one to the other, although spec §4.3 says it prefers RCON and falls
  back to the command.
- RCON `Exec` skips a packet with an empty payload, so a command with an empty
  answer waits for the 2s deadline and fails. Spec §4.1 says a fragment shorter
  than the maximum ends the response.
- 7DTD `sendTelnet` uses ctx only to dial. A server that keeps writing log lines
  keeps the read loop, and the job loop, going forever, SIGINT or not. The
  model lets it (`LogLine` is unbounded), so `AllJobsAnswered` and a drain
  after SIGINT fail on this path; the run of `AllJobsAnswered` takes a single
  Start, whose counterexample is the foreground server.
- Both adapters run stop programs with `cmd.Run` and no timeout
  (`minecraft/adapter.go:198`, `7dtd/adapter.go:38`). A stop program that
  hangs holds the job loop until SIGINT; the passing runs check that SIGINT
  does release it.
- 7DTD `Execute` answers a STATUS job "unsupported job type", although
  `Capabilities` lists status.
- 7DTD `Status`, if a caller reached it, reads any non-empty
  `output_log.txt` as "running" (`7dtd/adapter.go:174`). The log outlives the
  server, so after a first run a stopped server reads as running. Spec §4.3
  says inability to confirm liveness reads as "stopped".
- The two adapters disagree on job types: Minecraft matches `job.Type` as
  sent, 7DTD upper-cases it. A lower-case type runs on 7DTD and is refused
  by Minecraft (modelled in `MinecraftAdapter`'s `TakeJob`).
- 7DTD `StreamChat` copies the log with `tailFile`, an `io.Copy` that never
  looks at ctx. A cancelled caller keeps receiving bytes until EOF. Spec §4.3
  says the copy runs "until the source is exhausted or the caller cancels".

Left out, with the reason:

- **7DTD Status, tailFile; NoopGameAdapter.Execute; Minecraft GetLogPath.**
  No job reaches 7DTD Status, because Execute has no STATUS case. tailFile is
  an `io.Copy` of a file into the caller's writer (see the list above for its
  one step of interest). Minecraft GetLogPath is a path join that changes no
  state. 7DTD GetLogPath's failure is modelled, because it decides
  StreamChat's answer.
- **StreamLog and FileStreamer** (`internal/stream`). Nothing in the agent
  calls them. Spec §1 treats log streaming as a best-effort byte copy
  outside the spec. What a model of the copy loop could check holds by its
  construction: the sink is a prefix of a file that only grows, and one
  chunk is written after a cancel.
- **Config parsing, hostinfo, setupLog.** These are pure I/O or formatting.
  `Defaults` replaces a non-positive heartbeat or poll interval with 5s, so
  `time.NewTicker` never gets a non-positive interval, which would panic. The
  models abstract time, so the intervals are not constants.
- **Shared types** (`interfaces.go`). These are declarations only.
- **Time.** No model measures durations. The 2s, 3s and 30s waits are modelled
  as races whose order is free, because the code bounds neither side.
