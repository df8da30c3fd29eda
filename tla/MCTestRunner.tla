--------------------------- MODULE MCTestRunner ---------------------------
(* A small instance of the test runner for TLC.  Suites come first. *)
EXTENDS TestRunner

MC_Kinds ==
    {<<"suite", "suite", "suite">>, <<"suite", "skip", "suite">>,
     <<"suite", "suite", "example">>, <<"skip", "suite", "example">>,
     <<"suite", "example", "skip">>}
=============================================================================
