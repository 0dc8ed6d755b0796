--------------------------- MODULE MCRconSession ---------------------------
(* Scaled constants: a server fragment of 3 bytes stands for 4096, the   *)
(* Exec threshold of 2 for 4000 (below the fragment size, as in the code) *)
(* and the recv limit ServerFrag + 16 for 4096 + 16.  The answers cover   *)
(* the empty answer, one short fragment, a last fragment between the      *)
(* threshold and the fragment size, answers that are an exact multiple of *)
(* the fragment size (Exec then waits for the read deadline) and answers  *)
(* of two and three fragments.                                             *)
EXTENDS RconSession

MCResponses ==
  {<<>>, <<65>>, <<66>>, <<65, 66>>, <<65, 66, 65>>, <<65, 66, 65, 66>>,
   <<65, 66, 65, 66, 65, 66>>, <<65, 66, 65, 66, 65, 66, 65>>,
   <<65, 66, 65, 66, 65, 66, 65, 66, 65>>}

=============================================================================
