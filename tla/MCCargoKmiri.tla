---------------------------- MODULE MCCargoKmiri ----------------------------
(***************************************************************************)
(* A crate `app` that depends on `lib` and has a build script; `lib` and   *)
(* the build script may be compiled at the same time.                      *)
(***************************************************************************)
EXTENDS CargoKmiri

MCUnit == {"lib", "app", "build_script"}
MCDependsOn(u) == IF u = "app" THEN {"lib", "build_script"} ELSE {}
=============================================================================
