---------------------------- MODULE MCEpochConfig ---------------------------
(***************************************************************************)
(* EpochConfig with two config paths and two epochs: every combination of   *)
(* files, inputs, environment, key and branches is an initial state.        *)
(***************************************************************************)
EXTENDS EpochConfig
=============================================================================
