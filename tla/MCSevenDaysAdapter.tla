------------------------- MODULE MCSevenDaysAdapter -------------------------
(* Two process slots: a server already running when the agent starts,    *)
(* and one for the server a Restart starts.                               *)
EXTENDS SevenDaysAdapter

CONSTANTS p1, p2

MCProcs == {p1, p2}

(* A Restart, with or without a server up, then a console command that   *)
(* meets what the Restart left behind, then a probe.                      *)
MCJobSeq == <<"SERVER_RESTART", "SEND_COMMAND", "STATUS">>

(* One Start. *)
MCStartOnly == <<"SERVER_START">>

(* One Stop of a running server. *)
MCStopOnly == <<"SERVER_STOP">>
=============================================================================
