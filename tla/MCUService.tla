----------------------------- MODULE MCUService ------------------------------
(***************************************************************************)
(* Three calls and a queue of one: one call is handled, one is queued and  *)
(* one finds the queue full, from another task or from the handler.        *)
(***************************************************************************)
EXTENDS UService
=============================================================================
