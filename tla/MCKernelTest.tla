---------------------------- MODULE MCKernelTest ----------------------------
(***************************************************************************)
(* An input of three cases.  The run of `a`, which comes after `b`, may    *)
(* print the line of `b` too, and the run of `c` that of `a`: a log that   *)
(* shows an earlier case is emptied when its own case is run again.        *)
(***************************************************************************)
EXTENDS KernelTest

CONSTANTS a, b, c

MCInput == <<b, a, c>>
MCPrints(x) == CASE x = a -> {a, b} [] x = b -> {b} [] x = c -> {a, c}
=============================================================================
