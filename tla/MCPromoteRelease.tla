-------------------------- MODULE MCPromoteRelease --------------------------
(* An instance of PromoteRelease for TLC.                                      *)
EXTENDS PromoteRelease

Jobs == 1..2

\* Nothing is claimed of what follows the clearing of a running build's lock.
NotCleared == ~cleared
=============================================================================
