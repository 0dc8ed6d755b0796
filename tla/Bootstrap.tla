----------------------------- MODULE Bootstrap -----------------------------
(***************************************************************************)
(* How the agent obtains and keeps its credentials across restarts        *)
(* (main.go, pairing.Do, loadHostID).  At boot a non-empty key file means *)
(* "paired": the host_id file next to it must then be readable or the     *)
(* agent exits.  Without a key, the agent pairs with the configured       *)
(* token, writes the key file (pairing.Do) and then the host_id file      *)
(* (main, which only logs a failure of that write).  The two files are    *)
(* written one after the other with os.WriteFile, which truncates first.  *)
(* The process can crash at any point, a crash inside a write leaves the  *)
(* file empty or partly written, and the service manager restarts the     *)
(* agent after it exits or crashes.                                       *)
(***************************************************************************)
EXTENDS Naturals

CONSTANTS
  TokenReusable,  \* the control plane accepts the pairing token more than once
  MaxCrashes      \* bound on crashes in a behaviour

ASSUME TokenReusable \in BOOLEAN /\ MaxCrashes \in Nat

FileStates == {"absent", "empty", "partial", "ok"}

VARIABLES
  keyFile,   \* contents of agent.key: missing, empty, torn, or the issued key
  hostFile,  \* contents of host_id next to it
  tokenUsed, \* the control plane has consumed the pairing token
  pc,        \* where the agent process is; "down" after a crash
  memKey,    \* agentKey in main: "none", or what it was read or paired as
  memHost,   \* hostID in main
  crashes

vars == <<keyFile, hostFile, tokenUsed, pc, memKey, memHost, crashes>>

Pcs == {"boot", "pair", "writeKey", "writeHost", "running", "exited", "down"}

TypeOK ==
  /\ keyFile \in FileStates /\ hostFile \in FileStates
  /\ tokenUsed \in BOOLEAN
  /\ pc \in Pcs
  /\ memKey \in {"none", "partial", "ok"}
  /\ memHost \in {"none"} \cup (FileStates \ {"absent"})
  /\ crashes \in 0..MaxCrashes

(* A fresh install: the config has a pairing token, no file exists yet. *)
Init ==
  /\ keyFile = "absent" /\ hostFile = "absent"
  /\ tokenUsed = FALSE
  /\ pc = "boot"
  /\ memKey = "none" /\ memHost = "none"
  /\ crashes = 0

(* os.ReadFile(keyPath) succeeds with len(b) > 0. *)
HasKey == keyFile \in {"partial", "ok"}

(* loadHostID: os.ReadFile(<dir>/host_id) fails only when the file is    *)
(* missing; an empty or torn file is read, trimmed and used as the id.   *)
LoadHostIDFails == hostFile = "absent"

Exit == pc' = "exited" /\ UNCHANGED <<keyFile, hostFile, tokenUsed, memKey, memHost, crashes>>

(* Mutation: loadHostID's error is ignored and the agent runs with the  *)
(* empty id of a missing file.                                            *)
BootWithKeyNoHostCheck ==
  /\ pc = "boot" /\ HasKey
  /\ pc' = "running"
  /\ memKey' = keyFile
  /\ memHost' = hostFile
  /\ UNCHANGED <<keyFile, hostFile, tokenUsed, crashes>>

(* main: a stored key and a readable host_id: run with both. *)
BootWithKey ==
  /\ pc = "boot" /\ HasKey /\ ~LoadHostIDFails
  /\ pc' = "running"
  /\ memKey' = keyFile
  /\ memHost' = hostFile
  /\ UNCHANGED <<keyFile, hostFile, tokenUsed, crashes>>

(* main: "agent key present but host_id missing": os.Exit(1). *)
BootKeyWithoutHost ==
  /\ pc = "boot" /\ HasKey /\ LoadHostIDFails
  /\ Exit

(* main: no key (missing or empty file) and a pairing token: pair. *)
BootPair ==
  /\ pc = "boot" /\ ~HasKey
  /\ pc' = "pair"
  /\ UNCHANGED <<keyFile, hostFile, tokenUsed, memKey, memHost, crashes>>

(* pairing.Do: c.Pair; the control plane answers with host id and key.  *)
PairOk ==
  /\ pc = "pair"
  /\ ~tokenUsed \/ TokenReusable
  /\ tokenUsed' = TRUE
  /\ pc' = "writeKey"
  /\ UNCHANGED <<keyFile, hostFile, memKey, memHost, crashes>>

(* c.Pair fails: a transport error or non-200 before the control plane   *)
(* consumed the token, a rejected (used) token, or an answer lost after  *)
(* it consumed it.  main logs "pairing failed" and exits.                *)
PairFailed ==
  /\ pc = "pair"
  /\ \/ UNCHANGED tokenUsed
     \/ (~tokenUsed \/ TokenReusable) /\ tokenUsed' = TRUE
  /\ pc' = "exited"
  /\ UNCHANGED <<keyFile, hostFile, memKey, memHost, crashes>>

(* pairing.Do: MkdirAll, os.WriteFile(keyPath, key).  On success main   *)
(* goes on to write host_id with the key it holds.                       *)
WriteKey ==
  /\ pc = "writeKey"
  /\ keyFile' = "ok"
  /\ memKey' = "ok"
  /\ pc' = "writeHost"
  /\ UNCHANGED <<hostFile, tokenUsed, memHost, crashes>>

(* MkdirAll or WriteFile fails (the file truncated or partly written):  *)
(* "pairing failed", os.Exit(1).                                          *)
WriteKeyFailed ==
  /\ pc = "writeKey"
  /\ keyFile' \in {keyFile, "empty", "partial"}
  /\ pc' = "exited"
  /\ UNCHANGED <<hostFile, tokenUsed, memKey, memHost, crashes>>

(* main: os.WriteFile(<dir>/host_id, hostID); a failure is only logged   *)
(* ("could not write host_id") and the agent runs with the id it holds.  *)
(* The write fails at open (the file as it was), or after truncating it. *)
WriteHost ==
  /\ pc = "writeHost"
  /\ hostFile' \in {"ok", hostFile, "empty", "partial"}
  /\ pc' = "running"
  /\ memHost' = "ok"
  /\ UNCHANGED <<keyFile, tokenUsed, memKey, crashes>>

AgentStep ==
  BootWithKey \/ BootKeyWithoutHost \/ BootPair \/ PairOk \/ PairFailed
  \/ WriteKey \/ WriteKeyFailed \/ WriteHost

(* The process dies (kill, OOM, power loss); a write in progress leaves  *)
(* its file truncated or torn.                                            *)
Crash ==
  /\ pc \notin {"exited", "down"}
  /\ crashes < MaxCrashes
  /\ crashes' = crashes + 1
  /\ pc' = "down"
  /\ memKey' = "none" /\ memHost' = "none"
  /\ \/ pc = "writeKey" /\ keyFile' \in {"empty", "partial"} /\ UNCHANGED hostFile
     \/ pc = "writeHost" /\ hostFile' \in {"empty", "partial"} /\ UNCHANGED keyFile
     \/ UNCHANGED <<keyFile, hostFile>>
  /\ UNCHANGED tokenUsed

(* The service manager starts the agent again after an exit or a crash. *)
Restart ==
  /\ pc \in {"exited", "down"}
  /\ pc' = "boot"
  /\ memKey' = "none" /\ memHost' = "none"
  /\ UNCHANGED <<keyFile, hostFile, tokenUsed, crashes>>

Next == AgentStep \/ Crash \/ Restart

(* The agent's own steps and the restart are weakly fair; a pairing      *)
(* request that can succeed eventually does (the network and the control *)
(* plane recover).  Crashes and write failures get no fairness.          *)
Spec ==
  /\ Init /\ [][Next]_vars
  /\ WF_vars(BootWithKey \/ BootKeyWithoutHost \/ BootPair \/ WriteHost)
  /\ SF_vars(PairOk) /\ SF_vars(WriteKey)
  /\ WF_vars(Restart)

-----------------------------------------------------------------------------
Healthy == pc = "running" /\ memKey = "ok" /\ memHost = "ok"

(* Once crashes stop, the agent ends up running with the issued key and  *)
(* host id, however earlier attempts were interrupted.                    *)
EventuallyHealthy == <>[]Healthy

=============================================================================
