---------------------------- MODULE MCAsyncInfer ----------------------------
(***************************************************************************)
(* Two requests overtake each other; a gap of one frame is the largest     *)
(* that is blended, so that three frames also make the filter start over.  *)
(***************************************************************************)
EXTENDS AsyncInfer
=============================================================================
