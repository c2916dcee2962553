------------------------------ MODULE Refusals ------------------------------
(***************************************************************************)
(* How the readers of a file refuse it: every test has its own code, they  *)
(* are made in a fixed order, and the first that fails decides.            *)
(***************************************************************************)
EXTENDS Sequences, FiniteSetsExt

Test(holds, refusal) == [holds |-> holds, refusal |-> refusal]

FirstRefusal(tests) ==
    LET failed == {i \in DOMAIN tests : ~tests[i].holds}
    IN  IF failed = {} THEN "NONE" ELSE tests[Min(failed)].refusal
=============================================================================
