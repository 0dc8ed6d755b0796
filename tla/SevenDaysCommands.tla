-------------------------- MODULE SevenDaysCommands --------------------------
(* games/7dtd/adapter.go: KickPlayer and BanPlayer build a telnet command  *)
(* from the player id and reason and hand it to SendCommand; sendTelnet   *)
(* writes it followed by "\n".                                             *)
EXTENDS Sequences, PlayerArgs

(* Mutation: only ';' and '\r' are dropped. *)
SanitizeKeepingLF(s) ==
  EncodeRunes(SelectSeq(DecodeRunes(s), LAMBDA r : r \notin {59, 13}))

(* sanitizeRCONArg: the runes of s except ';', '\n' and '\r'. *)
SanitizeRCONArg(s) ==
  EncodeRunes(SelectSeq(DecodeRunes(s), LAMBDA r : r \notin {59, 10, 13}))

(* "kick " + sanitizeRCONArg(playerID) *)
KickCommand(id) == <<107, 105, 99, 107, 32>> \o SanitizeRCONArg(id)

(* "ban add " + sanitizeRCONArg(playerID), then " " + the sanitized       *)
(* reason when the reason, before sanitizing, is not empty.                *)
BanCommand(id, reason) ==
  <<98, 97, 110, 32, 97, 100, 100, 32>> \o SanitizeRCONArg(id)
    \o (IF reason # <<>> THEN <<32>> \o SanitizeRCONArg(reason) ELSE <<>>)

(* conn.Write([]byte(command + "\n")) *)
TelnetLine(command) == command \o <<10>>
=============================================================================
