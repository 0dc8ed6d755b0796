--------------------------- MODULE AdapterRegistry ---------------------------
(***************************************************************************)
(* The adapter registry (games/adapter.go), the no-op adapter             *)
(* (agent/gameadapter.go), and the capability calls a caller makes on     *)
(* what the registry resolves.                                            *)
(*                                                                         *)
(* Register stores an adapter under its Name(), last write wins; GetOrNoop *)
(* returns the stored adapter or a fresh NoopGameAdapter named after the   *)
(* slug.  The caller (the dispatch engine of spec 2 and 4.5; main does not *)
(* use the registry yet) resolves a game type and calls one capability.   *)
(* A kick or ban on a game adapter builds the command that adapter's      *)
(* SendCommand puts on the wire (MinecraftCommands, SevenDaysCommands); a *)
(* capability method that returns ErrUnsupported sends nothing.  What the *)
(* lifecycle capabilities do is modelled in MinecraftAdapter and          *)
(* SevenDaysAdapter.                                                       *)
(***************************************************************************)
EXTENDS Naturals, Sequences, TLC, PlayerArgs

CONSTANTS
  NoopNames,        \* GameName values of no-op adapters that get registered
  Slugs,            \* game types callers look up
  MaxRegistrations, \* bound on Register calls
  MaxIdLen,         \* bytes in a player id
  MaxReasonLen      \* bytes in a ban reason

MC == INSTANCE MinecraftCommands
SD == INSTANCE SevenDaysCommands

CapStart == "start"
CapStop == "stop"
CapRestart == "restart"
CapStatus == "status"
CapSendCommand == "send_command"
CapStreamChat == "stream_chat"
CapKickPlayer == "kick_player"
CapBanPlayer == "ban_player"
CapInstallMod == "install_mod"
CapGetLogPath == "get_log_path"

AllCapabilities ==
  {CapStart, CapStop, CapRestart, CapStatus, CapSendCommand,
   CapStreamChat, CapKickPlayer, CapBanPlayer, CapInstallMod, CapGetLogPath}

PlayerCapabilities == {CapKickPlayer, CapBanPlayer}

(* An adapter value: one of the two game adapters, or a NoopGameAdapter   *)
(* with its GameName.                                                      *)
Minecraft == [kind |-> "minecraft", gameName |-> ""]
SevenDays == [kind |-> "7dtd", gameName |-> ""]
Noop(g) == [kind |-> "noop", gameName |-> g]

(* What gets registered, and what GetOrNoop can answer. *)
Registrable == {Minecraft, SevenDays} \cup {Noop(g) : g \in NoopNames}

Adapters == Registrable \cup {Noop(g) : g \in Slugs}

(* Name(): the game adapters' gameSlug; a no-op adapter's GameName, or    *)
(* "noop" when it is empty.                                                *)
Name(a) ==
  CASE a.kind = "noop" -> IF a.gameName # "" THEN a.gameName ELSE "noop"
    [] OTHER           -> a.kind

(* Which capability methods return ErrUnsupported.  hasInstallPath is     *)
(* whether cfg.InstallPath is set.                                         *)

(* Minecraft: StreamChat and InstallMod always. *)
MinecraftUnsupported(cap) == cap \in {CapStreamChat, CapInstallMod}

(* 7DTD GetLogPath: "install_path required"; else the joined path,     *)
(* never empty.                                                            *)
SevenDaysGetLogPathFails(hasInstallPath) == ~hasInstallPath

(* 7DTD StreamChat: ErrUnsupported when GetLogPath fails or is empty. *)
SevenDaysStreamChatUnsupported(hasInstallPath) == SevenDaysGetLogPathFails(hasInstallPath)

(* 7DTD: InstallMod always, StreamChat as above. *)
SevenDaysUnsupported(cap, hasInstallPath) ==
  \/ cap = CapInstallMod
  \/ cap = CapStreamChat /\ SevenDaysStreamChatUnsupported(hasInstallPath)

(* NoopGameAdapter: every capability method but Status ("unknown", nil). *)
Unsupported(a, cap, hasInstallPath) ==
  CASE a.kind = "minecraft" -> MinecraftUnsupported(cap)
    [] a.kind = "7dtd"      -> SevenDaysUnsupported(cap, hasInstallPath)
    [] OTHER                -> cap # CapStatus

(* The bytes a kick or ban puts on the wire: the RCON Exec payload, or    *)
(* the telnet line with its "\n".                                          *)
PlayerWire(a, cap, id, reason) ==
  CASE a.kind = "minecraft" /\ cap = CapKickPlayer -> MC!KickCommand(id)
    [] a.kind = "minecraft" /\ cap = CapBanPlayer  -> MC!BanCommand(id, reason)
    [] a.kind = "7dtd" /\ cap = CapKickPlayer -> SD!TelnetLine(SD!KickCommand(id))
    [] a.kind = "7dtd" /\ cap = CapBanPlayer  -> SD!TelnetLine(SD!BanCommand(id, reason))
    [] OTHER -> <<>>

VARIABLES
  adapters,    \* Registry.adapters: slug -> adapter
  registered,  \* history: the adapters passed to Register, in order
  lastCall     \* the capability call in progress, as a set of at most one

vars == <<adapters, registered, lastCall>>

(* NewRegistry *)
Init ==
  /\ adapters = <<>>
  /\ registered = <<>>
  /\ lastCall = {}

(* Get: r.adapters[gameType]; the set of what it returns, empty for nil. *)
Get(slug) == {adapters[s] : s \in {slug} \cap DOMAIN adapters}

(* GetOrNoop: the stored adapter, else &NoopGameAdapter{GameName: slug}. *)
GetOrNoop(slug) ==
  IF Get(slug) # {} THEN CHOOSE a \in Get(slug) : TRUE ELSE Noop(slug)

(* Register: r.adapters[a.Name()] = a *)
Register(a) ==
  /\ Len(registered) < MaxRegistrations /\ lastCall = {}
  /\ adapters' = (Name(a) :> a) @@ adapters
  /\ registered' = Append(registered, a)
  /\ UNCHANGED lastCall

(* A call in progress: what was asked, of which adapter, whether it      *)
(* answered ErrUnsupported, and the bytes it sent.                        *)
Called(slug, cap, a, unsupported, wire) ==
  /\ lastCall = {}
  /\ lastCall' = {[slug |-> slug, cap |-> cap, adapter |-> a,
                   unsupported |-> unsupported, wire |-> wire]}
  /\ UNCHANGED <<adapters, registered>>

(* A capability call other than kick and ban: only its answer matters     *)
(* here.                                                                   *)
CapabilityCall(slug, cap, hasInstallPath) ==
  LET a == GetOrNoop(slug) IN
  Called(slug, cap, a, Unsupported(a, cap, hasInstallPath), <<>>)

(* KickPlayer(id) or BanPlayer(id, reason) on the resolved adapter. *)
PlayerCall(slug, cap, id, reason) ==
  LET a == GetOrNoop(slug)
      unsupported == Unsupported(a, cap, TRUE)
  IN  Called(slug, cap, a, unsupported,
             IF unsupported THEN <<>> ELSE PlayerWire(a, cap, id, reason))

(* The call returns to its caller. *)
Returned ==
  /\ lastCall # {}
  /\ lastCall' = {}
  /\ UNCHANGED <<adapters, registered>>

Next ==
  \/ \E a \in Registrable : Register(a)
  \/ Returned
  \/ \E slug \in Slugs, cap \in AllCapabilities \ PlayerCapabilities, ip \in BOOLEAN :
       CapabilityCall(slug, cap, ip)
  \/ \E slug \in Slugs, id \in ArgsUpTo(MaxIdLen) :
       PlayerCall(slug, CapKickPlayer, id, <<>>)
  \/ \E slug \in Slugs, id \in ArgsUpTo(MaxIdLen), reason \in ArgsUpTo(MaxReasonLen) :
       PlayerCall(slug, CapBanPlayer, id, reason)

Spec == Init /\ [][Next]_vars

-----------------------------------------------------------------------------
(* Spec 4.3 and 7: kick and ban "sanitize the player identifier and       *)
(* reason by stripping protocol metacharacters (command separator, line   *)
(* terminators)".  Whatever adapter a slug resolves to and whatever bytes *)
(* the id and reason hold, a kick or ban sends one command: no ';', '\n'  *)
(* or '\r' on the wire but the "\n" with which sendTelnet ends the line.  *)
NoMetacharacterOnWire ==
  \A c \in lastCall : \A i \in 1..Len(c.wire) :
    c.wire[i] \in Separators => c.adapter.kind = "7dtd" /\ i = Len(c.wire)
=============================================================================
