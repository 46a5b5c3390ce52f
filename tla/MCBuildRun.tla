------------------------------ MODULE MCBuildRun ------------------------------
(***************************************************************************)
(* A small instance of BuildRun: a sharded and an ordinary validator, two  *)
(* images and three attempts.                                              *)
(***************************************************************************)
EXTENDS BuildRun

CONSTANTS ops, node

MCValidators == {ops, node}
MCSharded == {ops}
=============================================================================
