-------------------------- MODULE MCMutationQueue --------------------------
(***************************************************************************)
(* Small instances of MutationQueue.                                       *)
(***************************************************************************)
EXTENDS MutationQueue, TLC

CONSTANTS a, b, c, d, e, fetch, push

FourTasks == {a, b, c, d}
TwoKeys == {fetch, push}

=============================================================================
