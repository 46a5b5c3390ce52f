----------------------------- MODULE MCPollRearm -----------------------------
(* A small instance of PollRearm: the MC module of the .cfg, which gives    *)
(* all constants their values.                                             *)
EXTENDS PollRearm
=============================================================================
