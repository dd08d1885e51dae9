----------------------------- MODULE MCServiceRun ----------------------------
(* A long and a quick operation and two run directories: one followed or    *)
(* left behind, one being made.                                             *)
EXTENDS ServiceRun

CONSTANTS r1, r2
MCSlots == {r1, r2}
==============================================================================
