------------------------------ MODULE MCFaults ------------------------------
(* A handler that maps what was missing and gives up otherwise, and the one *)
(* of test_exception_handling.c, which continues after traps and data       *)
(* aborts without doing anything.                                           *)
EXTENDS Faults

CONSTANTS fix, test

MCAnswer ==
  [h \in {fix, test} |->
    [t \in Types |->
      CASE h = fix /\ t = "DAT_ABORT" -> "repair"
        [] h = test /\ t \in {"TRAP", "DAT_ABORT"} -> "continue"
        [] OTHER -> "refuse"]]
=============================================================================
