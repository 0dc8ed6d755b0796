-------------------------- MODULE MinecraftCommands --------------------------
(* games/minecraft/adapter.go: KickPlayer and BanPlayer build an RCON      *)
(* command from the player id and reason and hand it to SendCommand, which *)
(* sends it as the payload of one RCON Exec.                               *)
EXTENDS Sequences, PlayerArgs

(* Mutation: only ';' and '\n' are dropped. *)
SanitizeKeepingCR(s) ==
  EncodeRunes(SelectSeq(DecodeRunes(s), LAMBDA r : r \notin {59, 10}))

(* sanitizeRCONArg: the runes of s except ';', '\n' and '\r'. *)
SanitizeRCONArg(s) ==
  EncodeRunes(SelectSeq(DecodeRunes(s), LAMBDA r : r \notin {59, 10, 13}))

(* "kick " + sanitizeRCONArg(playerID) *)
KickCommand(id) == <<107, 105, 99, 107, 32>> \o SanitizeRCONArg(id)

(* "ban " + sanitizeRCONArg(playerID), then " " + sanitizeRCONArg(reason) *)
(* when the reason, before sanitizing, is not empty.                       *)
BanCommand(id, reason) ==
  <<98, 97, 110, 32>> \o SanitizeRCONArg(id)
    \o (IF reason # <<>> THEN <<32>> \o SanitizeRCONArg(reason) ELSE <<>>)
=============================================================================
