-------------------------- MODULE MCTestExecution --------------------------
(* The sweep runs two tests that make the application emit a voucher.       *)
EXTENDS TestExecution

CONSTANTS g1, g2

TwoGenerate == [t \in Suite |-> <<"generate">>]
InTheSweep  == [t \in Suite |-> "tests.commands"]
=============================================================================
