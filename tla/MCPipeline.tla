----------------------------- MODULE MCPipeline -----------------------------
(***************************************************************************)
(* The process with every choice of the serial link and three values of    *)
(* yolo.thread_num: too few for the nodes, the file's own, and more than   *)
(* the pool takes.                                                         *)
(***************************************************************************)
EXTENDS Process

AnyDump == [only : BOOLEAN, path : BOOLEAN]
NoDump == {[only |-> FALSE, path |-> FALSE]}
PnpOn == {TRUE}
PnpOff == {FALSE}
SerialOnAndOff == BOOLEAN
ThreadsAsked == {2, 5, 9}
FewThreadsAsked == {3}

=============================================================================
