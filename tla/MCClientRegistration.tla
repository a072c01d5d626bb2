------------------------ MODULE MCClientRegistration ------------------------
(***************************************************************************)
(* Model-checking instance of ClientRegistration.  Builds are model values *)
(* given in the .cfg files.  The timeout of 5 minutes allows 10 sleeps of  *)
(* 30 s; the runs shrink it to MCMaxSleeps, enough for a refused POST, a   *)
(* lost answer and the timeout to meet in one build.                       *)
(***************************************************************************)
EXTENDS ClientRegistration, TLC

MCMaxSleeps == 2

BuildSymmetry == Permutations(Build)

=============================================================================
