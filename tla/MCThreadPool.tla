---------------------------- MODULE MCThreadPool ----------------------------
(***************************************************************************)
(* Three elements on two threads, a row of two and one alone; two elements *)
(* on three threads, which the engine then wakes all; and threads that try *)
(* once more before they sleep.                                            *)
(***************************************************************************)
EXTENDS ThreadPool

SetupsTried == {<<3, 2, 1>>, <<2, 3, 1>>, <<2, 2, 2>>}

=============================================================================
