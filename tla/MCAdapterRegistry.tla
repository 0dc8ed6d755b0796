------------------------- MODULE MCAdapterRegistry -------------------------
(* Both game adapters and no-op adapters: one with an empty GameName      *)
(* (stored as "noop") and one that takes over the "7dtd" slug.  Callers   *)
(* look up the two game slugs, "noop" and an unknown game.               *)
EXTENDS AdapterRegistry

MCNoopNames == {"", "7dtd"}

MCSlugs == {"minecraft", "7dtd", "noop", "ark"}
=============================================================================
