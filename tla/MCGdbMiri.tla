------------------------------ MODULE MCGdbMiri -----------------------------
(***************************************************************************)
(* A build that forks and executes the programs the tracker tells apart:   *)
(* cargo, cargo-miri, miri for a library and miri for the kernel.          *)
(***************************************************************************)
EXTENDS GdbMiri

MCProgram == {"cargo", "cargo-miri", "miri", "miri kernel"}
=============================================================================
