------------------------- MODULE MCMinecraftAdapter -------------------------
(* Three process slots: a server already running when the agent starts,  *)
(* and one for each job below that can spawn a server.                    *)
EXTENDS MinecraftAdapter

CONSTANTS p1, p2, p3

MCProcs == {p1, p2, p3}

(* A Restart with a server up, an RCON command (which may be "stop"), a  *)
(* probe, a type Execute does not match, a Stop, a player list, a Start:  *)
(* each job meets what the one before it left behind.                     *)
MCJobSeq == <<"SERVER_RESTART", "SEND_COMMAND", "STATUS", "server_start",
              "SERVER_STOP", "LIST_PLAYERS", "SERVER_START">>

(* One Restart of a running server. *)
MCRestartOnly == <<"SERVER_RESTART">>
=============================================================================
