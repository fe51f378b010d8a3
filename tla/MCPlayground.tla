---------------------------- MODULE MCPlayground ----------------------------
(***************************************************************************)
(* One example three times, two at once, and one run that a client posts.  *)
(***************************************************************************)
EXTENDS Playground

MCKeys == Slots
=============================================================================
