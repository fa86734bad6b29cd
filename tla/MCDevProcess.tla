---------------------------- MODULE MCDevProcess ----------------------------
(* An instance of DevProcess for TLC.                                          *)
EXTENDS DevProcess

\* Nothing is claimed of what follows a broken lock.
Unbroken == ~broken
=============================================================================
