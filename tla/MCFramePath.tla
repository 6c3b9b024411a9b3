---------------------------- MODULE MCFramePath ----------------------------
(* Two requests; the pool sized to them (0) and one far too small (1), which *)
(* has to grow.                                                              *)
EXTENDS FramePath

MCPoolConfigs == {0, 1}
=============================================================================
