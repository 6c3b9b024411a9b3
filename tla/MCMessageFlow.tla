--------------------------- MODULE MCMessageFlow ---------------------------
(***************************************************************************)
(* Two subscribers, as RESULT_TOPIC and PNP_TOPIC have, each with a queue  *)
(* that holds one message, and a pool that starts with one object and has  *)
(* to grow.  The subscribers are interchangeable.                          *)
(***************************************************************************)
EXTENDS MessageFlow

CONSTANTS pnp, display

MCSubscribers == {pnp, display}
MCPlaces == {Maker} \cup MCSubscribers \cup (MCSubscribers \X {0, 1})
=============================================================================
