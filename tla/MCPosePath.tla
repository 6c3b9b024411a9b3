----------------------------- MODULE MCPosePath -----------------------------
(* Two requests, so that a frame can be overtaken by any number of later   *)
(* ones, and the program's topics of one message.  A frame shows nothing,  *)
(* an armor that cannot be solved, or armors of every fit.                 *)
EXTENDS PosePath

MCSights == {{}, {"unsolved"}, {"unsolved", "loose", "tight"}}
=============================================================================
