---------------------------- MODULE JobDispatch ----------------------------
(***************************************************************************)
(* What the job dispatch engine promises (spec section 4.5), stated with  *)
(* no poll loop, no context and no transport: jobs arrive in batches, and *)
(* each arrived job is completed exactly once, in the order it arrived.   *)
(* JobLoop is checked to implement this module.                           *)
(***************************************************************************)
EXTENDS Sequences, SequencesExt, Functions

CONSTANT Jobs

VARIABLES
  inbox,   \* jobs received and not yet completed, in arrival order
  outbox   \* jobs completed (result handed to the result sink), in order

absVars == <<inbox, outbox>>

Seen == ToSet(inbox) \cup ToSet(outbox)

Init ==
  /\ inbox = <<>>
  /\ outbox = <<>>

(* A batch of jobs never seen before, without repetition, is appended. *)
Receive ==
  LET new == SubSeq(inbox', Len(inbox) + 1, Len(inbox'))
  IN /\ Len(inbox') >= Len(inbox)
     /\ IsPrefix(inbox, inbox')
     /\ IsInjective(new)
     /\ ToSet(new) \subseteq Jobs \ Seen
     /\ UNCHANGED outbox

(* The oldest received job is completed. *)
Complete ==
  /\ inbox # <<>>
  /\ outbox' = Append(outbox, Head(inbox))
  /\ inbox' = Tail(inbox)

Next == Receive \/ Complete

Spec == Init /\ [][Next]_absVars

=============================================================================
